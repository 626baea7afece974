--------------------------- MODULE PluginController ---------------------------
(***************************************************************************)
(* The PluginController of src/store/dests/kafkadest.go (lines 424-1050): *)
(* the supervisor-side object that creates a child process (Create),      *)
(* starts it (Start, with the listen goroutine that reads the child's     *)
(* stdout), stops it (Stop), shuts it down (Shutdown), asks it for        *)
(* metrics (Gather), and reaps it (the goroutine Create spawns around     *)
(* cmd.Wait).                                                             *)
(*                                                                         *)
(* Actors: the supervisor, which calls Create/Start/Stop/Shutdown one at  *)
(* a time; a metrics scraper calling Gather concurrently; the listen      *)
(* goroutine; the reaper; and the child process, which answers the        *)
(* commands on its stdin and may also misbehave or crash.  The stdio      *)
(* frames are abstracted to their command word.  Every time.After is a    *)
(* timeout that may fire at any moment while its select waits.            *)
(* createdMu and startedMu are modelled as owners; stdinMu only guards    *)
(* single writes and is folded into them.                                 *)
(***************************************************************************)
EXTENDS Integers, Sequences, FiniteSets

CONSTANTS
    MaxCalls,       \* bound on supervisor calls (Create, Start, Stop, Shutdown)
    MaxGathers,     \* bound on Gather calls
    MaxEmits,       \* bound on unsolicited child messages and crashes
    StartReplies,   \* what the child answers to "start": "started", "starterror"
    MetricsReplies, \* what it answers to "gathermetrics": "metrics", "badmetrics"
    Unsolicited,    \* what it may write unasked: "syslog", "unknown", "metrics"
    CreateFails,    \* TRUE: spawning the process may fail
    ChildCrashes,   \* TRUE: the child may exit on its own
    ChildHangs,     \* TRUE: the child may ignore "shutdown"
    StartTimeouts   \* TRUE: Start's 3 s timer may fire

ASSUME /\ MaxCalls \in Nat /\ MaxGathers \in Nat /\ MaxEmits \in Nat
       /\ StartReplies \subseteq {"started", "starterror"} /\ StartReplies # {}
       /\ MetricsReplies \subseteq {"metrics", "badmetrics"} /\ MetricsReplies # {}
       /\ Unsolicited \subseteq {"syslog", "unknown", "metrics"}
       /\ {CreateFails, ChildCrashes, ChildHangs, StartTimeouts} \subseteq BOOLEAN

Commands == {"conf", "start", "stop", "shutdown", "gathermetrics"}
Replies  == StartReplies \cup MetricsReplies \cup Unsolicited
            \cup {"stopped", "shutdown"}
Owners   == {"none", "caller", "listener", "gather"}

VARIABLES
    cpc,           \* supervisor: "idle" or where it blocks in a call
    ckt,           \* supervisor: the killTimeOut of the Shutdown in progress
    nCalls,        \* supervisor calls so far
    cmu, smu,      \* owner of createdMu, of startedMu
    created, started,
    shutClosed,    \* ShutdownChan (of the last Create) is closed
    stopCh,        \* StopChan: "nil" (never made), "open", "closed"
    metricsClosed, \* metricsChan has been closed
    panicked,      \* the supervisor process panicked (send on/close of a closed channel)
    lpc,           \* listen goroutine: "idle", "scan", "sendStart", "sendMetrics",
                   \*   "eofWait", "defer", "lockC", "lockS", "deferWait", "done"
    lcont,         \* listen: where it goes once its startErrorChan send is done
    lval,          \* listen: the result it is sending to Start: "ok", "err"
    lonce,         \* listen: its sync.Once has run
    linit,         \* listen: initialized
    lkill,         \* listen: kill
    lnormal,       \* listen: normalStop
    lclosing,      \* listen goroutines past their unlock, not yet at close(s.StopChan)
    gpc,           \* Gather goroutine: "idle", "lock", "wait"
    nGathers,
    child,         \* the process of the last Create: "none", "running", "exited"
    cin, cout,     \* its stdin (commands) and stdout (replies), in order
    nEmits,
    startRes,      \* ghost: what the last Start returned: "none", "ok", "err"
    shutReq        \* ghost: a Shutdown of this process has begun

vars == <<cpc, ckt, nCalls, cmu, smu, created, started, shutClosed, stopCh,
          metricsClosed, panicked, lpc, lcont, lval, lonce, linit, lkill,
          lnormal, lclosing, gpc, nGathers, child, cin, cout, nEmits, startRes,
          shutReq>>
callerVars == <<cpc, ckt, nCalls, startRes, shutReq>>
lstVars    == <<lpc, lcont, lval, lonce, linit, lkill, lnormal, lclosing>>
childVars  == <<child, cin, cout, nEmits>>

Up == ~panicked

(* W: write a command on the child's stdin; it fails once the child has   *)
(* exited (the pipe's reader is gone).                                     *)
CanWrite == child = "running"
W(cmd) == cin' = Append(cin, cmd)

(* s.kill: cmd.Process.Kill. *)
Kill == child' = IF child = "running" THEN "exited" ELSE child

Init ==
    /\ cpc = "idle" /\ ckt = "nonzero" /\ nCalls = 0
    /\ cmu = "none" /\ smu = "none"
    /\ created = FALSE /\ started = FALSE
    /\ shutClosed = FALSE /\ stopCh = "nil"
    /\ metricsClosed = FALSE /\ panicked = FALSE
    /\ lpc = "idle" /\ lcont = "scan" /\ lval = "ok"
    /\ lonce = FALSE /\ linit = FALSE /\ lkill = FALSE /\ lnormal = FALSE
    /\ lclosing = 0
    /\ gpc = "idle" /\ nGathers = 0
    /\ child = "none" /\ cin = <<>> /\ cout = <<>> /\ nEmits = 0
    /\ startRes = "none" /\ shutReq = FALSE

-----------------------------------------------------------------------------
(* Supervisor calls.  The supervisor follows the lifecycle of spec 4.G:   *)
(* Stop and Shutdown only once Start has made a StopChan.                 *)

Call == Up /\ cpc = "idle" /\ nCalls < MaxCalls /\ nCalls' = nCalls + 1

(* Create: under createdMu, a no-op if created; else a new ShutdownChan   *)
(* and a new process, or a failed spawn that closes ShutdownChan.         *)
Create ==
    /\ Call /\ cmu = "none"
    /\ IF created
         THEN UNCHANGED <<shutClosed, created, childVars, shutReq>>
         ELSE \/ /\ CreateFails
                 /\ shutClosed' = TRUE
                 /\ UNCHANGED <<created, childVars, shutReq>>
              \/ /\ shutClosed' = FALSE /\ created' = TRUE
                 /\ child' = "running" /\ cin' = <<>> /\ cout' = <<>>
                 /\ shutReq' = FALSE
                 /\ UNCHANGED nEmits
    /\ UNCHANGED <<cpc, ckt, cmu, smu, started, stopCh, metricsClosed,
                   panicked, lstVars, gpc, nGathers, startRes>>

(* Start: take createdMu and startedMu, refuse if not created or already *)
(* started, make StopChan, write conf and start, then wait on a new       *)
(* listen goroutine.  A failed write goes straight to Shutdown(3s).       *)
Start ==
    /\ Call /\ cmu = "none" /\ smu = "none"
    /\ \/ /\ ~created \/ started
          /\ startRes' = "err"
          /\ UNCHANGED <<cpc, cmu, smu, stopCh, cin, lstVars>>
       \/ /\ created /\ ~started
          /\ stopCh' = "open"
          /\ \/ /\ CanWrite
                /\ cin' = cin \o <<"conf", "start">>
                /\ cmu' = "caller" /\ smu' = "caller" /\ cpc' = "startWait"
                /\ lpc' = "scan" /\ lcont' = "scan" /\ lval' = "ok"
                /\ lonce' = FALSE /\ linit' = FALSE /\ lkill' = FALSE
                /\ lnormal' = FALSE /\ UNCHANGED lclosing
                /\ UNCHANGED startRes
             \/ /\ ~CanWrite
                /\ startRes' = "err" /\ cpc' = "shutBegin"
                /\ UNCHANGED <<cmu, smu, cin, lstVars>>
    /\ ckt' = "nonzero"
    /\ UNCHANGED <<created, started, shutClosed, metricsClosed, panicked,
                   gpc, nGathers, child, cout, nEmits, shutReq>>

(* Start receives the listen goroutine's first result (the rendezvous of *)
(* the unbuffered startErrorChan): keep it, or Shutdown(3s) on an error. *)
StartReceive ==
    /\ Up /\ cpc = "startWait" /\ lpc = "sendStart"
    /\ lonce' = TRUE /\ lpc' = lcont
    /\ startRes' = lval
    /\ started' = (lval = "ok")
    /\ cmu' = "none" /\ smu' = "none"
    /\ cpc' = IF lval = "ok" THEN "idle" ELSE "shutBegin"
    /\ ckt' = "nonzero"
    /\ UNCHANGED <<nCalls, created, shutClosed, stopCh, metricsClosed,
                   panicked, lcont, lval, linit, lkill, lnormal, lclosing, gpc,
                   nGathers, childVars, shutReq>>

(* Start's 3 s timer fires first: release the locks, Shutdown(3s). *)
StartTimeout ==
    /\ Up /\ StartTimeouts /\ cpc = "startWait"
    /\ startRes' = "err" /\ cpc' = "shutBegin" /\ ckt' = "nonzero"
    /\ cmu' = "none" /\ smu' = "none"
    /\ UNCHANGED <<nCalls, created, started, shutClosed, stopCh,
                   metricsClosed, panicked, lstVars, gpc, nGathers,
                   childVars, shutReq>>

(* Mutant: Stop writes the wrong command word. *)
StopWrongWord ==
    /\ Call /\ cmu = "none" /\ stopCh # "nil"
    /\ IF created /\ ~shutClosed /\ stopCh # "closed" /\ CanWrite
         THEN cin' = Append(cin, "stopped") /\ cpc' = "stopWait"
         ELSE UNCHANGED <<cin, cpc>>
    /\ UNCHANGED <<ckt, cmu, smu, created, started, shutClosed, stopCh,
                   metricsClosed, panicked, lstVars, gpc, nGathers, child,
                   cout, nEmits, startRes, shutReq>>

(* Stop: nothing if not created or already ended; else write stop and    *)
(* wait for StopChan.                                                     *)
Stop ==
    /\ Call /\ cmu = "none" /\ stopCh # "nil"
    /\ IF created /\ ~shutClosed /\ stopCh # "closed" /\ CanWrite
         THEN W("stop") /\ cpc' = "stopWait"
         ELSE UNCHANGED <<cin, cpc>>
    /\ UNCHANGED <<ckt, cmu, smu, created, started, shutClosed, stopCh,
                   metricsClosed, panicked, lstVars, gpc, nGathers, child,
                   cout, nEmits, startRes, shutReq>>

StopDone ==
    /\ Up /\ cpc = "stopWait" /\ stopCh = "closed"
    /\ cpc' = "idle"
    /\ UNCHANGED <<ckt, nCalls, cmu, smu, created, started, shutClosed, stopCh,
                   metricsClosed, panicked, lstVars, gpc, nGathers, childVars,
                   startRes, shutReq>>

(* Shutdown(killTimeOut), called by the supervisor with a zero or a      *)
(* non-zero timeout.                                                      *)
CallShutdown ==
    /\ Call /\ stopCh # "nil"
    /\ cpc' = "shutBegin"
    /\ \E kt \in {"zero", "nonzero"} : ckt' = kt
    /\ UNCHANGED <<cmu, smu, created, started, shutClosed, stopCh,
                   metricsClosed, panicked, lstVars, gpc, nGathers, childVars,
                   startRes, shutReq>>

(* The body of Shutdown up to its wait: nothing if not created; if the   *)
(* process is dead, wait for StopChan; else write shutdown (on failure   *)
(* the timeout becomes 1 s) and wait.                                     *)
ShutdownBegin ==
    /\ Up /\ cpc = "shutBegin" /\ cmu = "none"
    /\ shutReq' = created
    /\ CASE ~created   -> cpc' = "idle" /\ UNCHANGED cin
         [] shutClosed -> cpc' = "shutWaitStop" /\ UNCHANGED cin
         [] OTHER      -> /\ IF CanWrite THEN W("shutdown") ELSE UNCHANGED cin
                          /\ cpc' = IF CanWrite /\ ckt = "zero"
                                      THEN "shutWaitShut" ELSE "shutSel"
    /\ UNCHANGED <<ckt, nCalls, cmu, smu, created, started, shutClosed, stopCh,
                   metricsClosed, panicked, lstVars, gpc, nGathers, child,
                   cout, nEmits, startRes>>

ShutdownExited ==
    /\ Up /\ cpc = "shutSel" /\ shutClosed
    /\ cpc' = "shutWaitStop"
    /\ UNCHANGED <<ckt, nCalls, cmu, smu, created, started, shutClosed, stopCh,
                   metricsClosed, panicked, lstVars, gpc, nGathers, childVars,
                   startRes, shutReq>>

(* Mutant: the kill timer fires but the process is not killed. *)
ShutdownTimeoutNoKill ==
    /\ Up /\ cpc = "shutSel"
    /\ cpc' = "shutWaitShut"
    /\ UNCHANGED <<ckt, nCalls, cmu, smu, created, started, shutClosed, stopCh,
                   metricsClosed, panicked, lstVars, gpc, nGathers, childVars,
                   startRes, shutReq>>

(* The kill timer fires first: kill the process, then wait as above. *)
ShutdownTimeout ==
    /\ Up /\ cpc = "shutSel"
    /\ Kill /\ cpc' = "shutWaitShut"
    /\ UNCHANGED <<ckt, nCalls, cmu, smu, created, started, shutClosed, stopCh,
                   metricsClosed, panicked, lstVars, gpc, nGathers, cin, cout,
                   nEmits, startRes, shutReq>>

ShutdownWaitShut ==
    /\ Up /\ cpc = "shutWaitShut" /\ shutClosed
    /\ cpc' = "shutWaitStop"
    /\ UNCHANGED <<ckt, nCalls, cmu, smu, created, started, shutClosed, stopCh,
                   metricsClosed, panicked, lstVars, gpc, nGathers, childVars,
                   startRes, shutReq>>

ShutdownWaitStop ==
    /\ Up /\ cpc = "shutWaitStop" /\ stopCh = "closed"
    /\ cpc' = "idle"
    /\ UNCHANGED <<ckt, nCalls, cmu, smu, created, started, shutClosed, stopCh,
                   metricsClosed, panicked, lstVars, gpc, nGathers, childVars,
                   startRes, shutReq>>

-----------------------------------------------------------------------------
(* Gather, called by the metrics scraper.                                 *)

GatherCall ==
    /\ Up /\ gpc = "idle" /\ nGathers < MaxGathers /\ ~shutClosed
    /\ nGathers' = nGathers + 1 /\ gpc' = "lock"
    /\ UNCHANGED <<callerVars, cmu, smu, created, started, shutClosed, stopCh,
                   metricsClosed, panicked, lstVars, childVars>>

(* Under startedMu: if started, write gathermetrics and wait. *)
GatherLock ==
    /\ Up /\ gpc = "lock" /\ smu = "none"
    /\ IF started /\ CanWrite
         THEN W("gathermetrics") /\ smu' = "gather" /\ gpc' = "wait"
         ELSE UNCHANGED <<cin, smu>> /\ gpc' = "idle"
    /\ UNCHANGED <<callerVars, cmu, created, started, shutClosed, stopCh,
                   metricsClosed, panicked, lstVars, nGathers, child, cout,
                   nEmits>>

(* The metrics arrive (the rendezvous of the unbuffered metricsChan), the *)
(* channel is found closed, or the 2 s timer fires.                       *)
GatherReceive ==
    /\ Up /\ gpc = "wait" /\ lpc = "sendMetrics"
    /\ lpc' = "scan" /\ gpc' = "idle" /\ smu' = "none"
    /\ UNCHANGED <<callerVars, cmu, created, started, shutClosed, stopCh,
                   metricsClosed, panicked, lcont, lval, lonce, linit, lkill,
                   lnormal, lclosing, nGathers, childVars>>

GatherEnd ==
    /\ Up /\ gpc = "wait"
    /\ gpc' = "idle" /\ smu' = "none"
    /\ UNCHANGED <<callerVars, cmu, created, started, shutClosed, stopCh,
                   metricsClosed, panicked, lstVars, nGathers, childVars>>

-----------------------------------------------------------------------------
(* The listen goroutine: one case of its switch per step.                 *)

(* once.Do(send on startErrorChan): blocks until Start receives, unless  *)
(* the Once has already run.                                              *)
OnceSend(val, cont) ==
    IF lonce THEN lpc' = cont /\ UNCHANGED <<lcont, lval>>
             ELSE lpc' = "sendStart" /\ lcont' = cont /\ lval' = val

Read(m) == Up /\ lpc = "scan" /\ cout # <<>> /\ Head(cout) = m
           /\ cout' = Tail(cout)

(* syslog: stash it once initialized; before that, a fatal error. *)
ReadSyslog ==
    /\ Read("syslog")
    /\ IF linit THEN UNCHANGED <<lpc, lcont, lval, lkill>>
                ELSE OnceSend("err", "defer") /\ lkill' = TRUE
    /\ UNCHANGED <<callerVars, cmu, smu, created, started, shutClosed, stopCh,
                   metricsClosed, panicked, lonce, linit, lnormal, lclosing, gpc,
                   nGathers, child, cin, nEmits>>

ReadStarted ==
    /\ Read("started")
    /\ linit' = TRUE /\ OnceSend("ok", "scan")
    /\ UNCHANGED <<callerVars, cmu, smu, created, started, shutClosed, stopCh,
                   metricsClosed, panicked, lonce, lkill, lnormal, lclosing, gpc,
                   nGathers, child, cin, nEmits>>

(* starterror (and conferror, nolistenererror): report, keep reading. *)
ReadStartError ==
    /\ Read("starterror")
    /\ OnceSend("err", "scan")
    /\ UNCHANGED <<callerVars, cmu, smu, created, started, shutClosed, stopCh,
                   metricsClosed, panicked, lonce, linit, lkill, lnormal, lclosing, gpc,
                   nGathers, child, cin, nEmits>>

(* metrics: send them on metricsChan (a panic if it was closed). *)
ReadMetrics ==
    /\ Read("metrics")
    /\ IF metricsClosed THEN panicked' = TRUE /\ UNCHANGED lpc
                        ELSE lpc' = "sendMetrics" /\ UNCHANGED panicked
    /\ UNCHANGED <<callerVars, cmu, smu, created, started, shutClosed, stopCh,
                   metricsClosed, lcont, lval, lonce, linit, lkill, lnormal, lclosing,
                   gpc, nGathers, child, cin, nEmits>>

(* Invalid or empty metrics: close metricsChan, kill, return. *)
ReadBadMetrics ==
    /\ Read("badmetrics")
    /\ IF metricsClosed
         THEN panicked' = TRUE /\ UNCHANGED <<metricsClosed, lpc, lkill>>
         ELSE /\ metricsClosed' = TRUE /\ lkill' = TRUE /\ lpc' = "defer"
              /\ UNCHANGED panicked
    /\ UNCHANGED <<callerVars, cmu, smu, created, started, shutClosed, stopCh,
                   lcont, lval, lonce, linit, lnormal, lclosing, gpc, nGathers, child,
                   cin, nEmits>>

ReadStopped ==
    /\ Read("stopped")
    /\ lnormal' = TRUE /\ lpc' = "defer"
    /\ UNCHANGED <<callerVars, cmu, smu, created, started, shutClosed, stopCh,
                   metricsClosed, panicked, lcont, lval, lonce, linit, lkill,
                   lclosing, gpc, nGathers, child, cin, nEmits>>

(* shutdown: the child will exit; keep reading until EOF. *)
ReadShutdown ==
    /\ Read("shutdown")
    /\ UNCHANGED <<callerVars, cmu, smu, created, started, shutClosed, stopCh,
                   metricsClosed, panicked, lstVars, gpc, nGathers, child,
                   cin, nEmits>>

(* Any other command: report, kill, return. *)
ReadUnknown ==
    /\ Read("unknown")
    /\ OnceSend("err", "defer") /\ lkill' = TRUE
    /\ UNCHANGED <<callerVars, cmu, smu, created, started, shutClosed, stopCh,
                   metricsClosed, panicked, lonce, linit, lnormal, lclosing, gpc,
                   nGathers, child, cin, nEmits>>

(* EOF on stdout: wait for ShutdownChan, then return. *)
ReadEOF ==
    /\ Up /\ lpc = "scan" /\ cout = <<>> /\ child = "exited"
    /\ lpc' = "eofWait"
    /\ UNCHANGED <<callerVars, cmu, smu, created, started, shutClosed, stopCh,
                   metricsClosed, panicked, lcont, lval, lonce, linit, lkill,
                   lnormal, lclosing, gpc, nGathers, childVars>>

EOFReturn ==
    /\ Up /\ lpc = "eofWait" /\ shutClosed
    /\ lpc' = "defer"
    /\ UNCHANGED <<callerVars, cmu, smu, created, started, shutClosed, stopCh,
                   metricsClosed, panicked, lcont, lval, lonce, linit, lkill,
                   lnormal, lclosing, gpc, nGathers, childVars>>

-----------------------------------------------------------------------------
(* The deferred function of the listen goroutine.                         *)

(* once.Do: report an end before initialization, if nothing was sent yet. *)
DeferOnce ==
    /\ Up /\ lpc = "defer"
    /\ OnceSend("err", "lockC")
    /\ UNCHANGED <<callerVars, cmu, smu, created, started, shutClosed, stopCh,
                   metricsClosed, panicked, lonce, linit, lkill, lnormal, lclosing, gpc,
                   nGathers, childVars>>

DeferLockC ==
    /\ Up /\ lpc = "lockC" /\ cmu = "none"
    /\ cmu' = "listener" /\ lpc' = "lockS"
    /\ UNCHANGED <<callerVars, smu, created, started, shutClosed, stopCh,
                   metricsClosed, panicked, lcont, lval, lonce, linit, lkill,
                   lnormal, lclosing, gpc, nGathers, childVars>>

(* Under both locks: started = false; if the process is gone, created =  *)
(* false; if it was killed for misbehaving or ended for no known reason, *)
(* kill it and wait; after a normal stop, leave it.  Then unlock; the     *)
(* close of s.StopChan that follows is a step of its own (DeferCloseStop). *)
Release ==
    /\ cmu' = "none" /\ smu' = "none" /\ lpc' = "done"
    /\ lclosing' = lclosing + 1 /\ UNCHANGED stopCh

(* Mutant: after a kill or an unknown end, created is cleared without   *)
(* killing and waiting for the process.                                  *)
DeferLockSNoKill ==
    /\ Up /\ lpc = "lockS" /\ smu = "none"
    /\ started' = FALSE
    /\ CASE shutClosed -> created' = FALSE /\ Release /\ UNCHANGED child
         [] lkill \/ ~lnormal -> created' = FALSE /\ Release /\ UNCHANGED child
         [] OTHER -> Release /\ UNCHANGED <<created, child>>
    /\ UNCHANGED <<callerVars, shutClosed, metricsClosed, panicked, lcont,
                   lval, lonce, linit, lkill, lnormal, gpc, nGathers, cin,
                   cout, nEmits>>

(* Mutant: the defer forgets started = false. *)
DeferLockSKeepStarted ==
    /\ Up /\ lpc = "lockS" /\ smu = "none"
    /\ CASE shutClosed -> created' = FALSE /\ Release /\ UNCHANGED child
         [] lkill \/ ~lnormal ->
              /\ Kill /\ smu' = "listener" /\ lpc' = "deferWait"
              /\ UNCHANGED <<created, cmu, stopCh, lclosing>>
         [] OTHER -> Release /\ UNCHANGED <<created, child>>
    /\ UNCHANGED <<callerVars, started, shutClosed, metricsClosed, panicked,
                   lcont, lval, lonce, linit, lkill, lnormal, gpc, nGathers,
                   cin, cout, nEmits>>

DeferLockS ==
    /\ Up /\ lpc = "lockS" /\ smu = "none"
    /\ started' = FALSE
    /\ CASE shutClosed -> created' = FALSE /\ Release /\ UNCHANGED child
         [] lkill \/ ~lnormal ->
              /\ Kill /\ smu' = "listener" /\ lpc' = "deferWait"
              /\ UNCHANGED <<created, cmu, stopCh, lclosing>>
         [] OTHER -> Release /\ UNCHANGED <<created, child>>
    /\ UNCHANGED <<callerVars, shutClosed, metricsClosed, panicked, lcont,
                   lval, lonce, linit, lkill, lnormal, gpc, nGathers, cin,
                   cout, nEmits>>

(* close(s.StopChan), after the unlock: it reads the field anew, so a    *)
(* Create and Start in between make this close the new run's StopChan,   *)
(* and the new listener's own close then panics the process.             *)
DeferCloseStop ==
    /\ Up /\ lclosing > 0
    /\ lclosing' = lclosing - 1
    /\ IF stopCh = "closed" THEN panicked' = TRUE /\ UNCHANGED stopCh
                            ELSE stopCh' = "closed" /\ UNCHANGED panicked
    /\ UNCHANGED <<callerVars, cmu, smu, created, started, shutClosed,
                   metricsClosed, lpc, lcont, lval, lonce, linit, lkill, lnormal,
                   gpc, nGathers, childVars>>

DeferWait ==
    /\ Up /\ lpc = "deferWait" /\ shutClosed
    /\ created' = FALSE /\ Release
    /\ UNCHANGED <<callerVars, started, shutClosed, metricsClosed, panicked,
                   lcont, lval, lonce, linit, lkill, lnormal, gpc, nGathers,
                   childVars>>

-----------------------------------------------------------------------------
(* The reaper (cmd.Wait) and the child process.                           *)

Reap ==
    /\ Up /\ child = "exited" /\ ~shutClosed
    /\ shutClosed' = TRUE
    /\ UNCHANGED <<callerVars, cmu, smu, created, started, stopCh,
                   metricsClosed, panicked, lstVars, gpc, nGathers, childVars>>

(* The child reads one command and answers it as the protocol says. *)
ChildRead ==
    /\ Up /\ child = "running" /\ cin # <<>>
    /\ cin' = Tail(cin)
    /\ CASE Head(cin) = "start" ->
              \E r \in StartReplies : cout' = Append(cout, r) /\ UNCHANGED child
         [] Head(cin) = "gathermetrics" ->
              \E r \in MetricsReplies : cout' = Append(cout, r) /\ UNCHANGED child
         [] Head(cin) = "stop" -> cout' = Append(cout, "stopped") /\ UNCHANGED child
         [] Head(cin) = "shutdown" ->
              \/ cout' = Append(cout, "shutdown") /\ child' = "exited"
              \/ ChildHangs /\ UNCHANGED <<cout, child>>
         [] OTHER -> UNCHANGED <<cout, child>>
    /\ UNCHANGED <<callerVars, cmu, smu, created, started, shutClosed, stopCh,
                   metricsClosed, panicked, lstVars, gpc, nGathers, nEmits>>

(* The child writes a message nobody asked for, or exits on its own. *)
ChildEmit ==
    /\ Up /\ child = "running" /\ nEmits < MaxEmits
    /\ nEmits' = nEmits + 1
    /\ \/ \E m \in Unsolicited : cout' = Append(cout, m) /\ UNCHANGED child
       \/ ChildCrashes /\ child' = "exited" /\ UNCHANGED cout
    /\ UNCHANGED <<callerVars, cmu, smu, created, started, shutClosed, stopCh,
                   metricsClosed, panicked, lstVars, gpc, nGathers, cin>>

(* Everything that can still happen is up to the supervisor or the child: *)
(* a final state of the bounded model.                                    *)
Quiet ==
    /\ \/ panicked
       \/ cpc = "idle" /\ gpc = "idle" /\ lpc \in {"idle", "done", "scan"}
    /\ UNCHANGED vars

(* Every step but Create and CallShutdown, which StorePlugin overrides. *)
CtrlSteps ==
    \/ Start \/ StartReceive \/ StartTimeout \/ Stop \/ StopDone
    \/ ShutdownBegin \/ ShutdownExited \/ ShutdownTimeout
    \/ ShutdownWaitShut \/ ShutdownWaitStop
    \/ GatherCall \/ GatherLock \/ GatherReceive \/ GatherEnd
    \/ ReadSyslog \/ ReadStarted \/ ReadStartError \/ ReadMetrics
    \/ ReadBadMetrics \/ ReadStopped \/ ReadShutdown \/ ReadUnknown
    \/ ReadEOF \/ EOFReturn
    \/ DeferOnce \/ DeferLockC \/ DeferLockS \/ DeferWait \/ DeferCloseStop
    \/ Reap \/ ChildRead \/ ChildEmit
    \/ Quiet

Next == Create \/ CallShutdown \/ CtrlSteps

(* The goroutines of the supervisor process, its timers, the reaper and  *)
(* the child's reading of its stdin are fair; the supervisor's and the   *)
(* scraper's calls, and the child's unsolicited acts, are not.           *)
Fairness ==
    /\ WF_vars(StartReceive) /\ WF_vars(StartTimeout)
    /\ WF_vars(StopDone) /\ WF_vars(ShutdownBegin) /\ WF_vars(ShutdownExited)
    /\ WF_vars(ShutdownTimeout) /\ WF_vars(ShutdownWaitShut)
    /\ WF_vars(ShutdownWaitStop)
    /\ WF_vars(GatherLock) /\ WF_vars(GatherReceive) /\ WF_vars(GatherEnd)
    /\ WF_vars(ReadSyslog) /\ WF_vars(ReadStarted) /\ WF_vars(ReadStartError)
    /\ WF_vars(ReadMetrics) /\ WF_vars(ReadBadMetrics) /\ WF_vars(ReadStopped)
    /\ WF_vars(ReadShutdown) /\ WF_vars(ReadUnknown) /\ WF_vars(ReadEOF)
    /\ WF_vars(EOFReturn) /\ WF_vars(DeferOnce) /\ WF_vars(DeferLockC)
    /\ WF_vars(DeferLockS) /\ WF_vars(DeferWait) /\ WF_vars(DeferCloseStop)
    /\ WF_vars(Reap) /\ WF_vars(ChildRead)

Spec == Init /\ [][Next]_vars /\ Fairness

-----------------------------------------------------------------------------
(* Properties.                                                            *)

TypeOK ==
    /\ cpc \in {"idle", "startWait", "stopWait", "shutBegin", "shutSel",
                "shutWaitShut", "shutWaitStop", "store"}
    /\ ckt \in {"zero", "nonzero"} /\ nCalls \in 0..MaxCalls
    /\ cmu \in Owners /\ smu \in Owners
    /\ {created, started, shutClosed, metricsClosed, panicked, lonce, linit,
        lkill, lnormal, shutReq} \subseteq BOOLEAN
    /\ stopCh \in {"nil", "open", "closed"}
    /\ lpc \in {"idle", "scan", "sendStart", "sendMetrics", "eofWait", "defer",
                "lockC", "lockS", "deferWait", "done"}
    /\ lclosing \in 0..MaxCalls
    /\ lcont \in {"scan", "defer", "lockC"} /\ lval \in {"ok", "err"}
    /\ gpc \in {"idle", "lock", "wait"} /\ nGathers \in 0..MaxGathers
    /\ child \in {"none", "running", "exited"}
    /\ cin \in Seq(Commands) /\ cout \in Seq(Replies) /\ nEmits \in 0..MaxEmits
    /\ startRes \in {"none", "ok", "err"}

(* The controller never forgets a live child: while the process of the *)
(* last Create runs, created stays true, so Create does not spawn a      *)
(* second one (the listen goroutine's defer kills and waits for the      *)
(* process before it clears created, except after a normal stop).        *)
CreatedTracksProcess == ~created => child # "running"

(* A started plugin has a listen goroutine reading its stdout: Gather    *)
(* relies on it to answer gathermetrics, Stop to close StopChan.         *)
StartedHasListener == started => lpc \notin {"idle", "done"}

(* Shutdown with a kill timeout (the supervisor's, or Start's 3 s one)   *)
(* eventually leaves the process dead and reaped, even when the child    *)
(* ignores the shutdown command.                                         *)
ShutdownReapsChild ==
    (shutReq /\ ckt = "nonzero") ~> ((child # "running" /\ shutClosed) \/ panicked)

(* Every call of the supervisor (Create, Start, Stop, Shutdown) returns: *)
(* Start within its 3 s handshake timeout plus Shutdown(3s), spec 4.G.   *)
CallReturns == cpc # "idle" ~> cpc = "idle"

(* The supervisor process never panics on the plugin's metricsChan. *)
NoPanic == ~panicked

====
