---------------------------- MODULE RelpPipeline ----------------------------
(***************************************************************************)
(* The RELP ingestion pipeline of src/services/network/relp.go while the   *)
(* service is Started: the per-connection reader (HandleConnection), the  *)
(* ack forwarder (ackForwarder), the per-connection response cooker       *)
(* (handleResponses), the parser workers (Parse), the Kafka pusher        *)
(* (push2kafka) and the Kafka response handler (handleKafkaResponses).    *)
(*                                                                         *)
(* Connections are indexed by the order the accept loop hands them out    *)
(* (1..MaxConns); the forwarder keys its maps by the connID that AddConn  *)
(* allocates, which is kept separately in connId so that the two can be   *)
(* told apart.  Payloads are abstracted away: a raw or parsed message is  *)
(* a record of the connID and txnr it carries (the metadata the code      *)
(* round-trips) and of the ghost field src, the handler it came from.     *)
(***************************************************************************)
EXTENDS Integers, Sequences, FiniteSets

CONSTANTS
    MaxConns,       \* number of client connections the listener accepts
    MaxTxnr,        \* largest txnr a client sends (txnrs are 0..MaxTxnr)
    NParsers,       \* number of Parse goroutines (runtime.NumCPU())
    QueueSize,      \* capacity of the raw message ring
    Direct,         \* TRUE: parsed messages go to Kafka; FALSE: to the Store
    Test,           \* the test flag of RelpServiceImpl.Start
    ParseOutcomes,  \* subset of {"ok", "error", "empty"}: what a parser may return
    StashOutcomes,  \* subset of {"ok", "nonfatal"}: what Reporter.Stash may return
    FilterOutcomes, \* subset of {"pass", "fail"}: topic/filter/marshal evaluation
    NoMsg           \* model value: a parser holding no message

ASSUME /\ MaxConns \in Nat \ {0}
       /\ MaxTxnr \in Nat
       /\ NParsers \in Nat \ {0}
       /\ QueueSize \in Nat \ {0}
       /\ Direct \in BOOLEAN /\ Test \in BOOLEAN
       /\ ParseOutcomes \subseteq {"ok", "error", "empty"} /\ ParseOutcomes # {}
       /\ StashOutcomes \subseteq {"ok", "nonfatal"} /\ StashOutcomes # {}
       /\ FilterOutcomes \subseteq {"pass", "fail"} /\ FilterOutcomes # {}

Conns    == 1..MaxConns          \* handler goroutines, in accept order
ConnIds  == 0..MaxConns          \* values ackForwarder.next can take
Txnrs    == 0..MaxTxnr
Parsers  == 1..NParsers
Commands == {"open", "close", "syslog", "unknown"}
(* The data part of a frame after bytes.SplitN and bytes.Trim:           *)
(* "empty"   datalen is 0, or the payload is only blanks;                *)
(* "missing" datalen is not 0 but the frame has no fourth field;         *)
(* "payload" a non-empty payload.                                        *)
DataKinds == {"empty", "missing", "payload"}
Msgs      == [conn : ConnIds, txnr : Txnrs, src : Conns]
(* A line written on a client socket: open echo, ack, nack, serverclose. *)
Lines     == [txnr : Txnrs, kind : {"open", "200", "500", "serverclose"}]

VARIABLES
    hPhase,     \* handler k: "idle" (not accepted), "reading", "closing", "ended"
    relpOpen,   \* handler k: the relpIsOpen local
    prev,       \* handler k: the previous local (last accepted txnr, -1 at start)
    sockOpen,   \* handler k: the socket is not closed yet
    connId,     \* handler k: the connID AddConn returned
    fwdNext,    \* ackForwarder.next
    fwdLive,    \* id: the succ/fail/comm entries of connID id exist
    comm,       \* id: txnrs whose comm entry is true (received, not committed)
    succQ,      \* id: the succ IntQueue
    failQ,      \* id: the fail IntQueue
    cook,       \* handler k: its handleResponses goroutine: "off", "waiting", "done"
    successes,  \* handler k: handleResponses' successes map (keys set to true)
    failures,   \* handler k: handleResponses' failures map
    rawQ,       \* rawMessagesQueue
    parsing,    \* parser p: the raw message it holds, or NoMsg
    parsedQ,    \* parsedMessagesQueue
    inflight,   \* messages handed to the Kafka producer, not yet reported
    wire,       \* handler k: the lines the client received, in order
    accepted,   \* ghost: <<k, txnr>> whose message was delivered (or was empty)
    rejected    \* ghost: <<k, txnr>> whose message was refused downstream

handlerVars == <<hPhase, relpOpen, prev, sockOpen, connId>>
fwdVars     == <<fwdNext, fwdLive, comm, succQ, failQ>>
cookVars    == <<cook, successes, failures>>
pipeVars    == <<rawQ, parsing, parsedQ, inflight>>
ghostVars   == <<accepted, rejected>>
vars == <<handlerVars, fwdVars, cookVars, pipeVars, wire, ghostVars>>

-----------------------------------------------------------------------------
(* ackForwarder operations, as functions of the forwarder state.          *)

(* Received: set comm[connID][txnr] = true, if connID is known. *)
Received(id, t) ==
    IF fwdLive[id] THEN [comm EXCEPT ![id] = @ \cup {t}] ELSE comm

(* A plausible slip in NextToCommit: the comparison reversed. *)
NextToCommitMax(pending) ==
    IF pending = {} THEN -1
    ELSE CHOOSE t \in pending : \A u \in pending : t >= u

(* NextToCommit: the smallest txnr whose comm entry is true, or -1. *)
NextToCommit(pending) ==
    IF pending = {} THEN -1
    ELSE CHOOSE t \in pending : \A u \in pending : t <= u

(* ForwardSucc / ForwardFail: enqueue, if connID is known. *)
Forward(q, id, t) ==
    IF fwdLive[id] THEN [q EXCEPT ![id] = Append(@, t)] ELSE q

(* A plausible slip in RemoveConn: the queues are deleted from the maps *)
(* but not disposed, so a WaitOne already blocked on them never returns. *)
RemoveConnNoDispose(id) ==
    /\ comm' = [comm EXCEPT ![id] = {}]
    /\ UNCHANGED <<fwdLive, succQ, failQ>>

(* RemoveConn: dispose and delete the queues and the comm map of id. *)
RemoveConn(id) ==
    /\ fwdLive' = [fwdLive EXCEPT ![id] = FALSE]
    /\ comm'    = [comm EXCEPT ![id] = {}]
    /\ succQ'   = [succQ EXCEPT ![id] = <<>>]
    /\ failQ'   = [failQ EXCEPT ![id] = <<>>]

(* Write on the socket of handler k: lost once the socket is closed. *)
Write(k, lines) ==
    IF sockOpen[k] THEN [wire EXCEPT ![k] = @ \o lines] ELSE wire

-----------------------------------------------------------------------------
Init ==
    /\ hPhase    = [k \in Conns |-> "idle"]
    /\ relpOpen  = [k \in Conns |-> FALSE]
    /\ prev      = [k \in Conns |-> -1]
    /\ sockOpen  = [k \in Conns |-> FALSE]
    /\ connId    = [k \in Conns |-> 0]
    /\ fwdNext   = 0
    /\ fwdLive   = [id \in ConnIds |-> FALSE]
    /\ comm      = [id \in ConnIds |-> {}]
    /\ succQ     = [id \in ConnIds |-> <<>>]
    /\ failQ     = [id \in ConnIds |-> <<>>]
    /\ cook      = [k \in Conns |-> "off"]
    /\ successes = [k \in Conns |-> {}]
    /\ failures  = [k \in Conns |-> {}]
    /\ rawQ      = <<>>
    /\ parsing   = [p \in Parsers |-> NoMsg]
    /\ parsedQ   = <<>>
    /\ inflight  = {}
    /\ wire      = [k \in Conns |-> <<>>]
    /\ accepted  = {}
    /\ rejected  = {}

-----------------------------------------------------------------------------
(* HandleConnection, from its start to the read loop: AddConnection,      *)
(* AddConn and the spawn of handleResponses.                              *)

(* A plausible slip in AddConn: computing next+1 without storing it. *)
AddConnNoIncrement(k) ==
    LET id == fwdNext + 1 IN
    /\ fwdNext' = fwdNext
    /\ connId'  = [connId EXCEPT ![k] = id]
    /\ fwdLive' = [fwdLive EXCEPT ![id] = TRUE]
    /\ comm'    = [comm EXCEPT ![id] = {}]
    /\ succQ'   = [succQ EXCEPT ![id] = <<>>]
    /\ failQ'   = [failQ EXCEPT ![id] = <<>>]

(* AddConn: allocate the next connID and create its queues and map. *)
AddConn(k) ==
    LET id == fwdNext + 1 IN
    /\ fwdNext' = id
    /\ connId'  = [connId EXCEPT ![k] = id]
    /\ fwdLive' = [fwdLive EXCEPT ![id] = TRUE]
    /\ comm'    = [comm EXCEPT ![id] = {}]
    /\ succQ'   = [succQ EXCEPT ![id] = <<>>]
    /\ failQ'   = [failQ EXCEPT ![id] = <<>>]

StartConnection(k) ==
    /\ hPhase[k] = "idle"
    /\ AddConn(k)
    /\ hPhase'   = [hPhase EXCEPT ![k] = "reading"]
    /\ sockOpen' = [sockOpen EXCEPT ![k] = TRUE]
    /\ cook'     = [cook EXCEPT ![k] = "waiting"]
    /\ UNCHANGED <<relpOpen, prev, successes, failures, pipeVars, wire, ghostVars>>

(* The deferred function of HandleConnection: RemoveConn, then           *)
(* RemoveConnection, which closes the socket.                            *)
EndConnection(k) ==
    /\ hPhase'   = [hPhase EXCEPT ![k] = "ended"]
    /\ sockOpen' = [sockOpen EXCEPT ![k] = FALSE]
    /\ RemoveConn(connId[k])
    /\ UNCHANGED <<relpOpen, prev, connId, fwdNext, cookVars, pipeVars, wire, ghostVars>>

(* One frame of the read loop that ends the connection: a txnr that did  *)
(* not increase, a missing payload, open twice, close or syslog before   *)
(* open, or an unknown command.                                          *)
ProtocolError(k) ==
    /\ hPhase[k] = "reading"
    /\ \E t \in Txnrs, cmd \in Commands, d \in DataKinds :
          \/ t <= prev[k]
          \/ d = "missing"
          \/ cmd = "open" /\ relpOpen[k]
          \/ cmd \in {"close", "syslog"} /\ ~relpOpen[k]
          \/ cmd = "unknown"
    /\ EndConnection(k)

(* A well-formed frame passes the txnr and data checks. *)
FrameOK(k, t, d) == t > prev[k] /\ d # "missing"

(* "open": echo the offer and mark the session open. *)
Open(k) ==
    /\ hPhase[k] = "reading"
    /\ ~relpOpen[k]
    /\ \E t \in Txnrs, d \in DataKinds :
          /\ FrameOK(k, t, d)
          /\ prev'     = [prev EXCEPT ![k] = t]
          /\ wire'     = Write(k, <<[txnr |-> t, kind |-> "open"]>>)
          /\ relpOpen' = [relpOpen EXCEPT ![k] = TRUE]
    /\ UNCHANGED <<hPhase, sockOpen, connId, fwdVars, cookVars, pipeVars, ghostVars>>

(* "close", first half: the serverclose answer is written ...            *)
Close(k) ==
    /\ hPhase[k] = "reading"
    /\ relpOpen[k]
    /\ \E t \in Txnrs, d \in DataKinds :
          /\ FrameOK(k, t, d)
          /\ prev' = [prev EXCEPT ![k] = t]
          /\ wire' = Write(k, <<[txnr |-> t, kind |-> "serverclose"]>>)
    /\ hPhase' = [hPhase EXCEPT ![k] = "closing"]
    /\ UNCHANGED <<relpOpen, sockOpen, connId, fwdVars, cookVars, pipeVars, ghostVars>>

(* ... second half: conn.Close(), then the loop scans on.  Frames the     *)
(* scanner had already buffered are still handled afterwards.            *)
CloseSocket(k) ==
    /\ hPhase[k] = "closing"
    /\ hPhase'   = [hPhase EXCEPT ![k] = "reading"]
    /\ sockOpen' = [sockOpen EXCEPT ![k] = FALSE]
    /\ relpOpen' = [relpOpen EXCEPT ![k] = FALSE]
    /\ UNCHANGED <<prev, connId, fwdVars, cookVars, pipeVars, wire, ghostVars>>

(* A plausible slip in the raw ring: Put overwrites instead of blocking. *)
PutRawNoBound(m) == rawQ' = Append(rawQ, m)

(* rawMessagesQueue.Put: blocks while the ring holds QueueSize messages. *)
PutRaw(m) ==
    /\ Len(rawQ) < QueueSize
    /\ rawQ' = Append(rawQ, m)

(* "syslog": Received, then an immediate success for an empty payload,   *)
(* or a raw message stamped with connID and txnr put on the raw ring     *)
(* (Put blocks while the ring is full).                                  *)
Syslog(k) ==
    /\ hPhase[k] = "reading"
    /\ relpOpen[k]
    /\ \E t \in Txnrs, d \in DataKinds :
          /\ FrameOK(k, t, d)
          /\ prev' = [prev EXCEPT ![k] = t]
          /\ LET id == connId[k]
                 c1 == Received(id, t)
             IN \/ /\ d = "empty"
                   /\ comm' = c1
                   /\ succQ' = Forward(succQ, id, t)
                   /\ accepted' = accepted \cup {<<k, t>>}
                   /\ UNCHANGED rawQ
                \/ /\ d = "payload"
                   /\ comm' = c1
                   /\ PutRaw([conn |-> id, txnr |-> t, src |-> k])
                   /\ UNCHANGED <<succQ, accepted>>
    /\ UNCHANGED <<hPhase, relpOpen, sockOpen, connId, fwdNext, fwdLive, failQ,
                   cookVars, parsing, parsedQ, inflight, wire, rejected>>

(* The scanner stops: EOF, read deadline, a RelpSplit error. *)
ScanEnd(k) ==
    /\ hPhase[k] = "reading"
    /\ EndConnection(k)

-----------------------------------------------------------------------------
(* handleResponses: the response cooker of one connection.               *)

(* The Cooking loop: while NextToCommit is a txnr of the local successes *)
(* (checked first) or failures, answer it and commit it.  The result is  *)
(* the sequence of lines written, in order.                              *)
RECURSIVE Cooking(_, _, _)
Cooking(pending, S, F) ==
    LET next == NextToCommit(pending) IN
    IF next = -1 THEN <<>>
    ELSE IF next \in S
         THEN <<[txnr |-> next, kind |-> "200"]>> \o Cooking(pending \ {next}, S \ {next}, F)
    ELSE IF next \in F
         THEN <<[txnr |-> next, kind |-> "500"]>> \o Cooking(pending \ {next}, S, F \ {next})
    ELSE <<>>

TxnrsOf(lines, kind) == {lines[i].txnr : i \in {j \in DOMAIN lines : lines[j].kind = kind}}

(* A plausible slip in the wait loop: only the success queue wakes it. *)
CookResponsesSuccOnly(k) ==
    LET id == connId[k] IN
    /\ cook[k] = "waiting"
    /\ fwdLive[id]
    /\ succQ[id] # <<>>
    /\ LET S   == successes[k] \cup {Head(succQ[id])}
           out == Cooking(comm[id], S, failures[k])
       IN /\ succQ' = [succQ EXCEPT ![id] = Tail(@)]
          /\ UNCHANGED failQ
          /\ successes' = [successes EXCEPT ![k] = S \ TxnrsOf(out, "200")]
          /\ failures'  = [failures EXCEPT ![k] = @ \ TxnrsOf(out, "500")]
          /\ comm'      = [comm EXCEPT ![id] = @ \ (TxnrsOf(out, "200") \cup TxnrsOf(out, "500"))]
          /\ wire'      = Write(k, out)
    /\ UNCHANGED <<handlerVars, fwdNext, fwdLive, cook, pipeVars, ghostVars>>

(* A plausible slip in the loop: the answers are written but Committed *)
(* is never called, so their comm entries stay true.                   *)
CookResponsesNoCommit(k) ==
    LET id == connId[k] IN
    /\ cook[k] = "waiting"
    /\ fwdLive[id]
    /\ succQ[id] # <<>> \/ failQ[id] # <<>>
    /\ LET fromSucc == succQ[id] # <<>>
           S   == IF fromSucc THEN successes[k] \cup {Head(succQ[id])} ELSE successes[k]
           F   == IF fromSucc THEN failures[k] ELSE failures[k] \cup {Head(failQ[id])}
           out == Cooking(comm[id], S, F)
       IN /\ succQ' = IF fromSucc THEN [succQ EXCEPT ![id] = Tail(@)] ELSE succQ
          /\ failQ' = IF fromSucc THEN failQ ELSE [failQ EXCEPT ![id] = Tail(@)]
          /\ successes' = [successes EXCEPT ![k] = S \ TxnrsOf(out, "200")]
          /\ failures'  = [failures EXCEPT ![k] = F \ TxnrsOf(out, "500")]
          /\ wire'      = Write(k, out)
    /\ UNCHANGED <<handlerVars, fwdNext, fwdLive, comm, cook, pipeVars, ghostVars>>

(* One iteration of the loop: Wait returned true, take one txnr with     *)
(* GetSucc or else GetFail, then cook.                                   *)
CookResponses(k) ==
    LET id == connId[k] IN
    /\ cook[k] = "waiting"
    /\ fwdLive[id]
    /\ succQ[id] # <<>> \/ failQ[id] # <<>>
    /\ LET fromSucc == succQ[id] # <<>>
           S   == IF fromSucc THEN successes[k] \cup {Head(succQ[id])} ELSE successes[k]
           F   == IF fromSucc THEN failures[k] ELSE failures[k] \cup {Head(failQ[id])}
           out == Cooking(comm[id], S, F)
       IN /\ succQ' = IF fromSucc THEN [succQ EXCEPT ![id] = Tail(@)] ELSE succQ
          /\ failQ' = IF fromSucc THEN failQ ELSE [failQ EXCEPT ![id] = Tail(@)]
          /\ successes' = [successes EXCEPT ![k] = S \ TxnrsOf(out, "200")]
          /\ failures'  = [failures EXCEPT ![k] = F \ TxnrsOf(out, "500")]
          /\ comm'      = [comm EXCEPT ![id] = @ \ (TxnrsOf(out, "200") \cup TxnrsOf(out, "500"))]
          /\ wire'      = Write(k, out)
    /\ UNCHANGED <<handlerVars, fwdNext, fwdLive, cook, pipeVars, ghostVars>>

(* Wait returns false: the connection's queues were disposed. *)
CookerExit(k) ==
    /\ cook[k] = "waiting"
    /\ ~fwdLive[connId[k]]
    /\ cook' = [cook EXCEPT ![k] = "done"]
    /\ UNCHANGED <<handlerVars, fwdVars, successes, failures, pipeVars, wire, ghostVars>>

-----------------------------------------------------------------------------
(* Parse: NParsers goroutines take raw messages off the ring. *)

ParseGet(p) ==
    /\ parsing[p] = NoMsg
    /\ rawQ # <<>>
    /\ parsing' = [parsing EXCEPT ![p] = Head(rawQ)]
    /\ rawQ' = Tail(rawQ)
    /\ UNCHANGED <<handlerVars, fwdVars, cookVars, parsedQ, inflight, wire, ghostVars>>

(* The rest of one loop iteration: a parse error or an empty message is  *)
(* discarded (the buffer goes back to the pool); a parsed message goes   *)
(* to the parsed queue, or, when not direct, to Stash whose result is    *)
(* forwarded.                                                            *)
ParseMsg(p) ==
    LET m == parsing[p] IN
    /\ m # NoMsg
    /\ parsing' = [parsing EXCEPT ![p] = NoMsg]
    /\ \/ /\ ParseOutcomes \ {"ok"} # {}
          /\ UNCHANGED <<succQ, failQ, parsedQ, ghostVars>>
       \/ /\ "ok" \in ParseOutcomes
          /\ Direct
          /\ parsedQ' = Append(parsedQ, m)
          /\ UNCHANGED <<succQ, failQ, ghostVars>>
       \/ /\ "ok" \in ParseOutcomes
          /\ ~Direct
          /\ UNCHANGED parsedQ
          /\ \/ /\ "ok" \in StashOutcomes
                /\ succQ' = Forward(succQ, m.conn, m.txnr)
                /\ accepted' = accepted \cup {<<m.src, m.txnr>>}
                /\ UNCHANGED <<failQ, rejected>>
             \/ /\ "nonfatal" \in StashOutcomes
                /\ failQ' = Forward(failQ, m.conn, m.txnr)
                /\ rejected' = rejected \cup {<<m.src, m.txnr>>}
                /\ UNCHANGED <<succQ, accepted>>
    /\ UNCHANGED <<handlerVars, fwdNext, fwdLive, comm, cookVars, rawQ, inflight, wire>>

-----------------------------------------------------------------------------
(* push2kafka: one iteration for the head of the parsed queue.  Every    *)
(* refusal (empty topic, DROPPED, REJECTED, unknown filter result, a     *)
(* marshalling error) forwards a failure and takes the next message.     *)
(* Start runs push2kafka (and handleKafkaResponses) only when            *)
(* !s.test && s.direct, so its own test branch is never reached.         *)
PusherRuns == Direct /\ ~Test

(* A plausible slip: a refusal that continues without ForwardFail, as   *)
(* the branch for a message without configuration does.                 *)
Push2KafkaRefuseSilently ==
    /\ PusherRuns
    /\ parsedQ # <<>>
    /\ "fail" \in FilterOutcomes
    /\ parsedQ' = Tail(parsedQ)
    /\ UNCHANGED <<handlerVars, fwdVars, cookVars, rawQ, parsing, inflight, wire, ghostVars>>

Push2KafkaRefuse ==
    /\ PusherRuns
    /\ parsedQ # <<>>
    /\ "fail" \in FilterOutcomes
    /\ LET m == Head(parsedQ) IN
       /\ failQ' = Forward(failQ, m.conn, m.txnr)
       /\ rejected' = rejected \cup {<<m.src, m.txnr>>}
    /\ parsedQ' = Tail(parsedQ)
    /\ UNCHANGED <<handlerVars, fwdNext, fwdLive, comm, succQ, cookVars, rawQ,
                   parsing, inflight, wire, accepted>>

(* A passing message is handed to the producer's input channel. *)
Push2KafkaPass ==
    /\ PusherRuns
    /\ parsedQ # <<>>
    /\ "pass" \in FilterOutcomes
    /\ inflight' = inflight \cup {Head(parsedQ)}
    /\ parsedQ' = Tail(parsedQ)
    /\ UNCHANGED <<handlerVars, fwdVars, cookVars, rawQ, parsing, wire, ghostVars>>

(* handleKafkaResponses: the producer reports any in-flight message, in *)
(* any order, on its Successes or its Errors channel (non-fatal errors). *)
HandleKafkaResponse ==
    \E m \in inflight :
       /\ inflight' = inflight \ {m}
       /\ \/ /\ succQ' = Forward(succQ, m.conn, m.txnr)
             /\ accepted' = accepted \cup {<<m.src, m.txnr>>}
             /\ UNCHANGED <<failQ, rejected>>
          \/ /\ failQ' = Forward(failQ, m.conn, m.txnr)
             /\ rejected' = rejected \cup {<<m.src, m.txnr>>}
             /\ UNCHANGED <<succQ, accepted>>
       /\ UNCHANGED <<handlerVars, fwdNext, fwdLive, comm, cookVars, rawQ, parsing, parsedQ, wire>>

-----------------------------------------------------------------------------
Handler(k) ==
    \/ StartConnection(k)
    \/ Open(k)
    \/ Syslog(k)
    \/ Close(k)
    \/ CloseSocket(k)
    \/ ProtocolError(k)
    \/ ScanEnd(k)

(* Once the MaxConns connections of the bound are served and the        *)
(* pipeline has drained, the service idles waiting for connections,     *)
(* whether or not the cookers have returned (CookerEnds is about them). *)
AllServed ==
    /\ \A k \in Conns : hPhase[k] = "ended"
    /\ rawQ = <<>> /\ parsedQ = <<>> /\ inflight = {}
    /\ \A p \in Parsers : parsing[p] = NoMsg
    /\ UNCHANGED vars

Next ==
    \/ AllServed
    \/ \E k \in Conns : Handler(k) \/ CookResponses(k) \/ CookerExit(k)
    \/ \E p \in Parsers : ParseGet(p) \/ ParseMsg(p)
    \/ Push2KafkaRefuse
    \/ Push2KafkaPass
    \/ HandleKafkaResponse

(* The client and the network drive the handlers and get no fairness;    *)
(* every goroutine of the pipeline runs whenever it can.                 *)
Fairness ==
    /\ \A k \in Conns : WF_vars(CookResponses(k)) /\ WF_vars(CookerExit(k)) /\ WF_vars(CloseSocket(k))
    /\ \A p \in Parsers : WF_vars(ParseGet(p)) /\ WF_vars(ParseMsg(p))
    /\ WF_vars(Push2KafkaRefuse) /\ WF_vars(Push2KafkaPass)
    /\ WF_vars(HandleKafkaResponse)

Spec == Init /\ [][Next]_vars /\ Fairness

-----------------------------------------------------------------------------
(* Properties *)

TypeOK ==
    /\ hPhase \in [Conns -> {"idle", "reading", "closing", "ended"}]
    /\ relpOpen \in [Conns -> BOOLEAN] /\ sockOpen \in [Conns -> BOOLEAN]
    /\ prev \in [Conns -> Txnrs \cup {-1}]
    /\ connId \in [Conns -> ConnIds] /\ fwdNext \in ConnIds
    /\ fwdLive \in [ConnIds -> BOOLEAN]
    /\ comm \in [ConnIds -> SUBSET Txnrs]
    /\ succQ \in [ConnIds -> Seq(Txnrs)] /\ failQ \in [ConnIds -> Seq(Txnrs)]
    /\ cook \in [Conns -> {"off", "waiting", "done"}]
    /\ successes \in [Conns -> SUBSET Txnrs] /\ failures \in [Conns -> SUBSET Txnrs]
    /\ rawQ \in Seq(Msgs) /\ Len(rawQ) <= QueueSize
    /\ parsing \in [Parsers -> Msgs \cup {NoMsg}]
    /\ parsedQ \in Seq(Msgs) /\ inflight \subseteq Msgs
    /\ wire \in [Conns -> Seq(Lines)]
    /\ accepted \subseteq Conns \X Txnrs /\ rejected \subseteq Conns \X Txnrs

(* The txnrs of a sequence of lines strictly increase. *)
Increasing(lines) ==
    \A i, j \in DOMAIN lines : i < j => lines[i].txnr < lines[j].txnr

(* rsyslog needs the rsp lines of a connection in increasing txnr order: *)
(* the open echo and the 200/500 answers the cooker writes, although     *)
(* Kafka and the parsers complete messages in any order.                 *)
AcksOrdered ==
    \A k \in Conns :
        Increasing(SelectSeq(wire[k], LAMBDA l : l.kind # "serverclose"))

(* The same for every line of a connection, the serverclose answer that *)
(* the reader writes to "close" included.                               *)
WireOrdered ==
    \A k \in Conns : Increasing(wire[k])

(* A "200 OK" tells the client its message was delivered (or was empty) *)
(* and a "500 KO" that it was refused: the answer a connection gets for *)
(* a txnr is the outcome of the message it sent with that txnr, never   *)
(* that of another connection's message routed by connID.               *)
ResponseMatchesOutcome ==
    \A k \in Conns : \A i \in DOMAIN wire[k] :
        /\ wire[k][i].kind = "200" => <<k, wire[k][i].txnr>> \in accepted
        /\ wire[k][i].kind = "500" => <<k, wire[k][i].txnr>> \in rejected

(* Where the txnr t of handler k still is in the pipeline. *)
InPipeline(k, t) ==
    LET id == connId[k]
        here(m) == m.src = k /\ m.txnr = t
    IN \/ \E i \in DOMAIN rawQ : here(rawQ[i])
       \/ \E p \in Parsers : parsing[p] # NoMsg /\ here(parsing[p])
       \/ \E i \in DOMAIN parsedQ : here(parsedQ[i])
       \/ \E m \in inflight : here(m)
       \/ \E i \in DOMAIN succQ[id] : succQ[id][i] = t
       \/ \E i \in DOMAIN failQ[id] : failQ[id][i] = t
       \/ t \in successes[k] \cup failures[k]

(* Every txnr the reader registered with Received and that is not yet   *)
(* committed is still on its way to the cooker: some stage holds it.    *)
(* A txnr no stage holds stays the minimum of comm forever and blocks   *)
(* every later answer on its connection.                                *)
NoOrphanTxnr ==
    \A k \in Conns : hPhase[k] \in {"reading", "closing"} =>
        \A t \in comm[connId[k]] : InPipeline(k, t)

(* Every received txnr is eventually committed (answered) or dropped   *)
(* with its connection.                                                 *)
EveryReceivedAnswered ==
    \A id \in ConnIds, t \in Txnrs : t \in comm[id] ~> t \notin comm[id]

(* The handleResponses goroutine of a connection, blocked in Wait on its *)
(* two queues, returns once the connection has ended: the handler's defer *)
(* (RemoveConn) disposes the queues and wakes WaitOne.  Otherwise every    *)
(* connection leaks a goroutine that holds its socket and counts in wg.   *)
CookerEnds ==
    \A k \in Conns : hPhase[k] = "ended" ~> cook[k] = "done"

-----------------------------------------------------------------------------
(* Refinement of RelpAck.  A handler's phase gives the connection's; its *)
(* pending txnrs are the comm entries of its connID (comm[0] is always  *)
(* empty, the id of a handler not yet accepted); the outcomes are the   *)
(* ghost sets; the answers are the 200/500 lines on its wire.  The open *)
(* echo and the serverclose line are not answers of RelpAck.            *)
Ack == INSTANCE RelpAck WITH
    phase <- [k \in Conns |-> CASE hPhase[k] = "idle"  -> "new"
                               [] hPhase[k] = "ended" -> "gone"
                               [] OTHER               -> "live"],
    open  <- sockOpen,
    pend  <- [k \in Conns |-> comm[connId[k]]],
    ok    <- [k \in Conns |-> {t \in Txnrs : <<k, t>> \in accepted}],
    ko    <- [k \in Conns |-> {t \in Txnrs : <<k, t>> \in rejected}],
    ans   <- [k \in Conns |-> SelectSeq(wire[k], LAMBDA l : l.kind \in {"200", "500"})]

(* The pipeline implements RelpAck: every step of the reader, the       *)
(* parsers, push2kafka, the Kafka handler and the cooker is a step of   *)
(* the abstract connection (each txnr decided once, answers in runs of  *)
(* the smallest pending txnrs, each with its own outcome), and the      *)
(* pipeline's goroutines decide and answer whatever RelpAck's fairness  *)
(* says must be.                                                        *)
AckSpec == Ack!Spec

=============================================================================
