---------------------------- MODULE RelpService ----------------------------
(***************************************************************************)
(* The lifecycle of the RELP service, src/services/network/relp.go lines  *)
(* 258-538 with the ends of its worker goroutines: the wrapper goroutine *)
(* of RelpService.Start that reads StatusChan and (re)starts the          *)
(* implementation; RelpServiceImpl.Start, FinalStop, StopAndWait, EndWait *)
(* and doStop under the status mutex; the 30 s EndWait timers; and the    *)
(* Parse, push2kafka and handleKafkaResponses goroutines, which may call  *)
(* StopAndWait on a fatal Store or Kafka error.  The supervisor calls      *)
(* RelpService.Stop (FinalStop, then the wait for the wrapper) once.       *)
(*                                                                         *)
(* Messages, connections and answers are abstracted away (RelpPipeline    *)
(* models them): a worker only runs until the queue it reads is disposed. *)
(* The status mutex is modelled as its owner; only doStop blocks while     *)
(* holding it, so the other locked sections are single steps.             *)
(***************************************************************************)
EXTENDS Integers, Sequences, FiniteSets

CONSTANTS
    Parsers,        \* the Parse goroutines (runtime.NumCPU()), model values
    Modes,          \* subset of {"kafka", "test", "store"}: direct && !test,
                    \*   direct && test, and !direct (the Store)
    MaxStarts,      \* bound on the wrapper's Start attempts; then no listener
    NoListener,     \* TRUE: initTCPListeners may return no listener
    ProducerFails,  \* TRUE: GetAsyncProducer may fail
    StashFatal,     \* TRUE: Reporter.Stash may return a fatal error
    KafkaFatal      \* TRUE: the producer may report a fatal error

ASSUME /\ Modes \subseteq {"kafka", "test", "store"} /\ Modes # {}
       /\ MaxStarts \in Nat
       /\ {NoListener, ProducerFails, StashFatal, KafkaFatal} \subseteq BOOLEAN

ChanCap  == 10     \* make(chan RelpServerStatus, 10)
Statuses == {"Stopped", "Started", "Waiting", "FinalStopped"}

VARIABLES
    mode,           \* the service's direct and test flags
    status,         \* RelpServiceImpl.status
    chan,           \* StatusChan: the statuses sent and not yet received
    closed,         \* StatusChan has been closed
    mu,             \* owner of the status mutex while doStop blocks in it
    dpc,            \* where that doStop is: "none", "parsewg", "wg"
    dfinal, dwait,  \* its arguments
    wpc,            \* wrapper goroutine: "recv", "stopWait", "done"
    spc,            \* supervisor: "idle", "final", "join", "done"
    timers,         \* EndWait goroutines still sleeping
    nStarts,
    ppc,            \* Parse goroutine p: "idle", "run", "fatal"
    kpc,            \* push2kafka: "idle", "run"
    hpc,            \* handleKafkaResponses: "idle", "run", "fatal"
    wg,             \* the counter of the service's wait group
    rawDisposed, parsedDisposed, producerOpen

vars == <<mode, status, chan, closed, mu, dpc, dfinal, dwait, wpc, spc, timers,
          nStarts, ppc, kpc, hpc, wg, rawDisposed, parsedDisposed, producerOpen>>
stopVars   == <<mu, dpc, dfinal, dwait>>
actorVars  == <<wpc, spc, ppc, hpc>>
workVars   == <<kpc, wg, rawDisposed, parsedDisposed, producerOpen>>

Send(st) == Len(chan) < ChanCap /\ chan' = Append(chan, st)

Init ==
    /\ mode \in Modes
    /\ status = "Stopped" /\ chan = <<"Stopped">> /\ closed = FALSE
    /\ mu = "none" /\ dpc = "none" /\ dfinal = FALSE /\ dwait = FALSE
    /\ wpc = "recv" /\ spc = "idle" /\ timers = 0 /\ nStarts = 0
    /\ ppc = [p \in Parsers |-> "idle"] /\ kpc = "idle" /\ hpc = "idle"
    /\ wg = 0 /\ rawDisposed = FALSE /\ parsedDisposed = FALSE
    /\ producerOpen = FALSE

-----------------------------------------------------------------------------
(* doStop(final, wait), called by actor a with the status mutex.          *)

(* Actor a returns from its Stop call. *)
Return(a) ==
    CASE a = "sup"     -> spc' = "join" /\ UNCHANGED <<wpc, ppc, hpc>>
      [] a = "wrapper" -> wpc' = "recv" /\ UNCHANGED <<spc, ppc, hpc>>
      [] a = "hkr"     -> hpc' = "idle" /\ UNCHANGED <<wpc, spc, ppc>>
      [] OTHER         -> ppc' = [ppc EXCEPT ![a] = "idle"] /\ UNCHANGED <<wpc, spc, hpc>>

(* Lock, then the part of doStop before its first wait: a final stop of a *)
(* service that is not running, a stop of one already stopped (StopAndWait*)
(* of a Stopped one moves it to Waiting), or resetTCPListeners and the    *)
(* disposal of the raw ring, after which doStop waits for the parsers.    *)
DoStopEnter(a, final, wait) ==
    /\ mu = "none"
    /\ CASE final /\ status # "Started" ->
              /\ IF status # "FinalStopped"
                   THEN status' = "FinalStopped" /\ Send("FinalStopped") /\ closed' = TRUE
                   ELSE UNCHANGED <<status, chan, closed>>
              /\ Return(a) /\ UNCHANGED <<stopVars, rawDisposed>>
         [] status # "Started" ->
              /\ IF status = "Stopped" /\ wait
                   THEN status' = "Waiting" /\ Send("Waiting")
                   ELSE UNCHANGED <<status, chan>>
              /\ Return(a) /\ UNCHANGED <<closed, stopVars, rawDisposed>>
         [] OTHER ->
              /\ rawDisposed' = TRUE
              /\ mu' = a /\ dpc' = "parsewg" /\ dfinal' = final /\ dwait' = wait
              /\ UNCHANGED <<status, chan, closed, actorVars>>
    /\ UNCHANGED <<mode, timers, nStarts, kpc, wg, parsedDisposed, producerOpen>>

(* Mutant: doStop does not wait for the parsers. *)
DoStopParsersNoWait ==
    /\ dpc = "parsewg"
    /\ parsedDisposed' = TRUE /\ dpc' = "wg"
    /\ UNCHANGED <<mode, status, chan, closed, mu, dfinal, dwait, actorVars,
                   timers, nStarts, kpc, wg, rawDisposed, producerOpen>>

(* parsewg.Wait() returned: dispose the parsed queue and the forwarder. *)
DoStopParsers ==
    /\ dpc = "parsewg" /\ \A p \in Parsers : ppc[p] = "idle"
    /\ parsedDisposed' = TRUE /\ dpc' = "wg"
    /\ UNCHANGED <<mode, status, chan, closed, mu, dfinal, dwait, actorVars,
                   timers, nStarts, kpc, wg, rawDisposed, producerOpen>>

(* Mutant: a final stop sets the status but never sends FinalStopped. *)
DoStopWgNoSend ==
    /\ dpc = "wg" /\ wg = 0
    /\ CASE dfinal -> status' = "FinalStopped" /\ closed' = TRUE /\ UNCHANGED chan
         [] dwait  -> status' = "Waiting" /\ Send("Waiting") /\ UNCHANGED closed
         [] OTHER  -> status' = "Stopped" /\ Send("Stopped") /\ UNCHANGED closed
    /\ Return(mu)
    /\ mu' = "none" /\ dpc' = "none"
    /\ UNCHANGED <<mode, dfinal, dwait, timers, nStarts, workVars>>

(* wg.Wait() returned: the new status is sent, the mutex released. *)
DoStopWg ==
    /\ dpc = "wg" /\ wg = 0
    /\ CASE dfinal -> status' = "FinalStopped" /\ Send("FinalStopped") /\ closed' = TRUE
         [] dwait  -> status' = "Waiting" /\ Send("Waiting") /\ UNCHANGED closed
         [] OTHER  -> status' = "Stopped" /\ Send("Stopped") /\ UNCHANGED closed
    /\ Return(mu)
    /\ mu' = "none" /\ dpc' = "none"
    /\ UNCHANGED <<mode, dfinal, dwait, timers, nStarts, workVars>>

-----------------------------------------------------------------------------
(* The wrapper goroutine of RelpService.Start: one status per iteration. *)

Recv(st) == wpc = "recv" /\ chan # <<>> /\ Head(chan) = st

WrapperFinal ==
    /\ Recv("FinalStopped")
    /\ chan' = Tail(chan) /\ wpc' = "done"
    /\ UNCHANGED <<mode, status, closed, stopVars, spc, ppc, hpc, timers,
                   nStarts, workVars>>

(* Mutant: the Waiting case spawns no timer goroutine. *)
WrapperWaitingNoTimer ==
    /\ Recv("Waiting")
    /\ chan' = Tail(chan)
    /\ UNCHANGED <<mode, status, closed, stopVars, actorVars, timers, nStarts, workVars>>

(* Waiting: a goroutine sleeps 30 s and calls EndWait. *)
WrapperWaiting ==
    /\ Recv("Waiting")
    /\ chan' = Tail(chan) /\ timers' = timers + 1
    /\ UNCHANGED <<mode, status, closed, stopVars, actorVars, nStarts, workVars>>

WrapperStarted ==
    /\ Recv("Started")
    /\ chan' = Tail(chan)
    /\ UNCHANGED <<mode, status, closed, stopVars, actorVars, timers, nStarts,
                   workVars>>

(* Stopped: SetConf and RelpServiceImpl.Start under the status mutex.     *)
(* It fails on a status that is not Stopped or Waiting, or when the Kafka *)
(* producer cannot be made (the listeners are reset first); it returns    *)
(* without starting when no listener could be opened; otherwise it resets *)
(* the queues, starts push2kafka and handleKafkaResponses (Kafka mode     *)
(* only, both added to wg) and the parsers, and sends Started.  After an *)
(* error the wrapper calls StopAndWait.                                  *)
WrapperStart ==
    /\ Recv("Stopped") /\ mu = "none"
    /\ nStarts' = IF nStarts < MaxStarts THEN nStarts + 1 ELSE nStarts
    /\ \/ /\ status \notin {"Stopped", "Waiting"}
          /\ chan' = Tail(chan) /\ wpc' = "stopWait"
          /\ UNCHANGED <<status, ppc, hpc, workVars>>
       \/ /\ status \in {"Stopped", "Waiting"}
          /\ NoListener \/ nStarts >= MaxStarts
          /\ chan' = Tail(chan)
          /\ UNCHANGED <<status, wpc, ppc, hpc, workVars>>
       \/ /\ status \in {"Stopped", "Waiting"} /\ nStarts < MaxStarts
          /\ mode = "kafka" /\ ProducerFails
          /\ chan' = Tail(chan) /\ wpc' = "stopWait"
          /\ UNCHANGED <<status, ppc, hpc, workVars>>
       \/ /\ status \in {"Stopped", "Waiting"} /\ nStarts < MaxStarts
          /\ status' = "Started"
          /\ chan' = Append(Tail(chan), "Started")
          /\ rawDisposed' = FALSE /\ parsedDisposed' = FALSE
          /\ ppc' = [p \in Parsers |-> "run"]
          /\ IF mode = "kafka"
               THEN kpc' = "run" /\ hpc' = "run" /\ wg' = wg + 2 /\ producerOpen' = TRUE
               ELSE UNCHANGED <<kpc, hpc, wg, producerOpen>>
          /\ UNCHANGED wpc
    /\ UNCHANGED <<mode, closed, stopVars, spc, timers>>

WrapperStopAndWait ==
    /\ wpc = "stopWait"
    /\ DoStopEnter("wrapper", FALSE, TRUE)

(* Mutant: EndWait without its status check. *)
EndWaitNoCheck ==
    /\ timers > 0 /\ mu = "none"
    /\ timers' = timers - 1
    /\ status' = "Stopped" /\ Send("Stopped")
    /\ UNCHANGED <<mode, closed, stopVars, actorVars, nStarts, workVars>>

(* The 30 s timer ends: EndWait moves a Waiting service to Stopped. *)
EndWait ==
    /\ timers > 0 /\ mu = "none"
    /\ timers' = timers - 1
    /\ IF status = "Waiting"
         THEN status' = "Stopped" /\ Send("Stopped")
         ELSE UNCHANGED <<status, chan>>
    /\ UNCHANGED <<mode, closed, stopVars, actorVars, nStarts, workVars>>

-----------------------------------------------------------------------------
(* The supervisor: RelpService.Stop is FinalStop, then wg.Wait for the    *)
(* wrapper goroutine.                                                     *)

SupCall ==
    /\ spc = "idle" /\ spc' = "final"
    /\ UNCHANGED <<mode, status, chan, closed, stopVars, wpc, ppc, hpc, timers,
                   nStarts, workVars>>

SupFinalStop ==
    /\ spc = "final"
    /\ DoStopEnter("sup", TRUE, FALSE)

SupJoin ==
    /\ spc = "join" /\ wpc = "done" /\ spc' = "done"
    /\ UNCHANGED <<mode, status, chan, closed, stopVars, wpc, ppc, hpc, timers,
                   nStarts, workVars>>

-----------------------------------------------------------------------------
(* The worker goroutines. *)

(* Parse: Get returns nil once the raw ring is disposed (and drained). *)
ParserExit(p) ==
    /\ ppc[p] = "run" /\ rawDisposed
    /\ ppc' = [ppc EXCEPT ![p] = "idle"]
    /\ UNCHANGED <<mode, status, chan, closed, stopVars, wpc, spc, hpc, timers,
                   nStarts, workVars>>

(* Stash returns a fatal error: ForwardFail, then StopAndWait, then      *)
(* return (and only then parsewg.Done).                                  *)
ParserFatal(p) ==
    /\ ppc[p] = "run" /\ mode = "store" /\ StashFatal
    /\ ppc' = [ppc EXCEPT ![p] = "fatal"]
    /\ UNCHANGED <<mode, status, chan, closed, stopVars, wpc, spc, hpc, timers,
                   nStarts, workVars>>

ParserStop(p) ==
    /\ ppc[p] = "fatal"
    /\ DoStopEnter(p, FALSE, TRUE)

(* push2kafka: Wait(0) is false once the parsed queue is disposed; the   *)
(* deferred function closes the producer and calls wg.Done.              *)
PusherEnd ==
    /\ kpc = "run" /\ parsedDisposed
    /\ kpc' = "idle" /\ producerOpen' = FALSE /\ wg' = wg - 1
    /\ UNCHANGED <<mode, status, chan, closed, stopVars, actorVars, timers,
                   nStarts, rawDisposed, parsedDisposed>>

(* handleKafkaResponses: returns once both producer channels are closed *)
(* (without wg.Done), or calls StopAndWait after a fatal error.         *)
HkrEnd ==
    /\ hpc = "run" /\ ~producerOpen
    /\ hpc' = "idle"
    /\ UNCHANGED <<mode, status, chan, closed, stopVars, wpc, spc, ppc, timers,
                   nStarts, workVars>>

HkrFatal ==
    /\ hpc = "run" /\ producerOpen /\ KafkaFatal
    /\ hpc' = "fatal"
    /\ UNCHANGED <<mode, status, chan, closed, stopVars, wpc, spc, ppc, timers,
                   nStarts, workVars>>

HkrStop ==
    /\ hpc = "fatal"
    /\ DoStopEnter("hkr", FALSE, TRUE)

(* The supervisor's Stop has returned: nothing is left to do. *)
Terminated == spc = "done" /\ UNCHANGED vars

Next ==
    \/ WrapperFinal \/ WrapperWaiting \/ WrapperStarted \/ WrapperStart
    \/ WrapperStopAndWait \/ EndWait
    \/ DoStopParsers \/ DoStopWg
    \/ SupCall \/ SupFinalStop \/ SupJoin
    \/ \E p \in Parsers : ParserExit(p) \/ ParserFatal(p) \/ ParserStop(p)
    \/ PusherEnd \/ HkrEnd \/ HkrFatal \/ HkrStop
    \/ Terminated

(* Every goroutine runs when it can, and the 30 s timers fire; the      *)
(* supervisor's call and the fatal errors are not forced.               *)
Fairness ==
    /\ WF_vars(WrapperFinal) /\ WF_vars(WrapperWaiting) /\ WF_vars(WrapperStarted)
    /\ WF_vars(WrapperStart) /\ WF_vars(WrapperStopAndWait) /\ WF_vars(EndWait)
    /\ WF_vars(DoStopParsers) /\ WF_vars(DoStopWg)
    /\ WF_vars(SupFinalStop) /\ WF_vars(SupJoin)
    /\ \A p \in Parsers : WF_vars(ParserExit(p)) /\ WF_vars(ParserStop(p))
    /\ WF_vars(PusherEnd) /\ WF_vars(HkrEnd) /\ WF_vars(HkrStop)

Spec == Init /\ [][Next]_vars /\ Fairness

-----------------------------------------------------------------------------
(* Properties *)

TypeOK ==
    /\ mode \in Modes /\ status \in Statuses
    /\ chan \in Seq(Statuses) /\ Len(chan) <= ChanCap
    /\ mu \in {"none", "sup", "wrapper", "hkr"} \cup Parsers
    /\ dpc \in {"none", "parsewg", "wg"}
    /\ {closed, dfinal, dwait, rawDisposed, parsedDisposed, producerOpen} \subseteq BOOLEAN
    /\ wpc \in {"recv", "stopWait", "done"} /\ spc \in {"idle", "final", "join", "done"}
    /\ timers \in Nat /\ nStarts \in 0..MaxStarts
    /\ ppc \in [Parsers -> {"idle", "run", "fatal"}]
    /\ kpc \in {"idle", "run"} /\ hpc \in {"idle", "run", "fatal"} /\ wg \in Nat

(* doStop announces Stopped, Waiting or FinalStopped only once every     *)
(* worker goroutine of the run it stops has returned: the parsers       *)
(* (parsewg), push2kafka (wg) and handleKafkaResponses; a later Start   *)
(* starts a fresh set on fresh queues.                                   *)
WorkersStopped ==
    status # "Started" =>
        /\ \A p \in Parsers : ppc[p] = "idle"
        /\ kpc = "idle" /\ hpc = "idle"

(* FinalStopped is terminal (spec: "terminal; status channel closed"):   *)
(* once StatusChan is closed, the status never changes again and nothing *)
(* is sent on the channel, which would panic.                            *)
FinalIsFinal ==
    [][closed => status' = "FinalStopped" /\ Len(chan') <= Len(chan)]_vars

(* Waiting is transient: the wrapper's 30 s timer (or a final stop)     *)
(* always ends it.                                                      *)
WaitingRetries == status = "Waiting" ~> status # "Waiting"

(* RelpService.Stop returns: FinalStop's doStop gets past both wait     *)
(* groups and the wrapper goroutine ends on FinalStopped.                *)
StopReturns == spc = "final" ~> spc = "done"

(* The same in test mode, where no Kafka goroutine runs. *)
StopReturnsTestMode == (spc = "final" /\ mode = "test") ~> spc = "done"

=============================================================================
