----------------------------- MODULE NetService -----------------------------
(***************************************************************************)
(* The TCP and UDP syslog services: tcpServerImpl (src/services/tcp.go)   *)
(* and udpServiceImpl (src/store/dests/kafkadest.go 100-399).  Start and  *)
(* Stop under the status mutex, the status channel and WaitClosed, and    *)
(* per connection (TCP) or packet listener (UDP) the reader goroutine of  *)
(* HandleConnection and the parser goroutine it spawns, joined by the     *)
(* unbuffered raw_messages_chan and by the service's wait group.          *)
(*                                                                         *)
(* StreamingService and GenericService are not in the sources; they are  *)
(* modelled from spec section 4.E: Listen runs an accept loop per         *)
(* listener, resetTCPListeners closes the listeners, and when the accept *)
(* loops end, the connections of the connection set are closed.          *)
(*                                                                         *)
(* A TCP reader's bufio.Scanner holds every byte that has arrived; it is *)
(* split with TcpSplit or LFTcpSplit (module TcpSplit).  A UDP packet is  *)
(* one element of the packet queue.  The stasher and the ULID generator   *)
(* never block, and a parse error only skips the message, so the parser  *)
(* is a receive on the channel.                                           *)
(***************************************************************************)
EXTENDS TcpSplit, FiniteSets

CONSTANTS
    Protos,       \* the kinds of service checked: a subset of {"tcp", "udp"}
    Conns,        \* TCP: the clients that may connect; UDP: the packet listeners
    Formats,      \* the formats a listener's config may have
    Bytes,        \* what a TCP client may send (UDP: a packet)
    MaxBytes,     \* bytes (packets) a peer sends on one connection
    MaxStarts,    \* calls of Start
    Timeout,      \* config.Timeout > 0: TCP reads have a deadline
    ListenFails,  \* opening a listener may fail
    ReadFails,    \* a UDP ReadFrom may fail on an open socket
    RefMsgs       \* messages of the reference framing check

VARIABLES
    proto,      \* "tcp" or "udp"
    status,     \* "Stopped", "Started"
    sch,        \* s.statusChan: "nil", "open", "closed"
    sbuf,       \* values buffered in it (capacity 1)
    stopping,   \* Stop holds the status mutex and waits on wg
    nStarts,
    lst,        \* TCP: the listeners are open
    lpc,        \* TCP: the Listen goroutine: "none", "accept"
    sock,       \* c: "none", "open", or "closed" by the service
    rderr,      \* c: the next read fails (EOF, deadline, closed, error)
    buf,        \* c: bytes (packets) arrived and not consumed
    sent,       \* c: bytes (packets) the peer has sent
    fmt,        \* c: the format of c's listener
    inset,      \* c: in the service's connection set
    hpc,        \* c: HandleConnection: "none", "spawned", "read", "send"
    ppc,        \* c: its parser goroutine: "none", "run"
    wpc,        \* a WaitClosed caller: "idle", "wait"
    crashed     \* a goroutine panicked: the process is gone

vars == <<proto, status, sch, sbuf, stopping, nStarts, lst, lpc, sock, rderr,
          buf, sent, fmt, inset, hpc, ppc, wpc, crashed>>
connVars == <<sock, rderr, buf, sent, fmt, inset, hpc, ppc>>

Init ==
    /\ proto \in Protos
    /\ status = "Stopped" /\ sch = "nil" /\ sbuf = 0
    /\ stopping = FALSE /\ nStarts = 0 /\ lst = FALSE /\ lpc = "none"
    /\ sock  = [c \in Conns |-> "none"]
    /\ rderr = [c \in Conns |-> FALSE]
    /\ buf   = [c \in Conns |-> <<>>]
    /\ sent  = [c \in Conns |-> 0]
    /\ fmt   = [c \in Conns |-> CHOOSE f \in Formats : TRUE]
    /\ inset = [c \in Conns |-> FALSE]
    /\ hpc   = [c \in Conns |-> "none"]
    /\ ppc   = [c \in Conns |-> "none"]
    /\ wpc = "idle" /\ crashed = FALSE

(* Every goroutine of the service (wg) has returned. *)
WgZero == lpc = "none" /\ \A c \in Conns : hpc[c] = "none" /\ ppc[c] = "none"

(* The service closes the connections of its set (CloseConnections). *)
CloseSet ==
    /\ sock'  = [c \in Conns |-> IF inset[c] THEN "closed" ELSE sock[c]]
    /\ rderr' = [c \in Conns |-> rderr[c] \/ inset[c]]

-----------------------------------------------------------------------------
(* Start and Stop, called by the service's controller. *)

(* tcpServerImpl.Start: a new status channel; no listener closes it at   *)
(* once, otherwise Listen runs the accept loops.                          *)
TcpStart ==
    /\ proto = "tcp" /\ status = "Stopped" /\ ~stopping /\ nStarts < MaxStarts
    /\ nStarts' = nStarts + 1 /\ sbuf' = 0
    /\ \/ /\ ListenFails
          /\ sch' = "closed"
          /\ UNCHANGED <<status, lst, lpc>>
       \/ /\ sch' = "open" /\ status' = "Started"
          /\ lst' = TRUE /\ lpc' = "accept"
    /\ UNCHANGED <<proto, stopping, connVars, wpc, crashed>>

(* ListenPacket: a socket and a handler goroutine (wg.Add) for every    *)
(* packet listener of the config that could be opened, with its format.  *)
ListenPacket(opened, f) ==
    /\ sock'  = [c \in Conns |-> IF c \in opened THEN "open" ELSE "none"]
    /\ rderr' = [c \in Conns |-> FALSE]
    /\ buf'   = [c \in Conns |-> <<>>]
    /\ sent'  = [c \in Conns |-> 0]
    /\ fmt'   = f
    /\ hpc'   = [c \in Conns |-> IF c \in opened THEN "spawned" ELSE "none"]

(* udpServiceImpl.Start: a new status channel, an empty connection set, *)
(* and ListenPacket; no listener opened closes the channel at once.      *)
UdpStart ==
    /\ proto = "udp" /\ status = "Stopped" /\ ~stopping /\ nStarts < MaxStarts
    /\ \E opened \in SUBSET Conns, f \in [Conns -> Formats] :
        /\ ListenFails \/ opened = Conns
        /\ nStarts' = nStarts + 1 /\ sbuf' = 0
        /\ inset' = [c \in Conns |-> FALSE]
        /\ ListenPacket(opened, f)
        /\ IF opened = {}
             THEN sch' = "closed" /\ UNCHANGED status
             ELSE sch' = "open" /\ status' = "Started"
    /\ UNCHANGED <<proto, stopping, lst, lpc, ppc, wpc, crashed>>

(* Stop of a started service, up to its wg.Wait: TCP resets the          *)
(* listeners; UDP closes the connections of its set.                      *)
(* A Stop that does not reset the listeners. *)
TcpStopBeginNoReset ==
    /\ proto = "tcp" /\ status = "Started" /\ ~stopping
    /\ stopping' = TRUE
    /\ UNCHANGED <<proto, status, sch, sbuf, nStarts, lst, lpc, connVars, wpc, crashed>>

TcpStopBegin ==
    /\ proto = "tcp" /\ status = "Started" /\ ~stopping
    /\ stopping' = TRUE /\ lst' = FALSE
    /\ UNCHANGED <<proto, status, sch, sbuf, nStarts, lpc, connVars, wpc, crashed>>

UdpStopBegin ==
    /\ proto = "udp" /\ status = "Started" /\ ~stopping
    /\ stopping' = TRUE /\ CloseSet
    /\ UNCHANGED <<proto, status, sch, sbuf, nStarts, lst, lpc, buf, sent, fmt,
                   inset, hpc, ppc, wpc, crashed>>

(* wg.Wait returned: Stopped is sent on the channel, which is closed. *)
StopEnd ==
    /\ stopping /\ WgZero
    /\ stopping' = FALSE /\ status' = "Stopped"
    /\ sbuf' = sbuf + 1 /\ sch' = "closed"
    /\ UNCHANGED <<proto, nStarts, lst, lpc, connVars, wpc, crashed>>

(* WaitClosed reads s.statusChan (without the mutex) until it is closed. *)
WaitCall ==
    /\ wpc = "idle" /\ wpc' = "wait"
    /\ UNCHANGED <<proto, status, sch, sbuf, stopping, nStarts, lst, lpc, connVars, crashed>>

WaitRecv ==
    /\ wpc = "wait" /\ sbuf > 0 /\ sbuf' = sbuf - 1
    /\ UNCHANGED <<proto, status, sch, stopping, nStarts, lst, lpc, connVars, wpc, crashed>>

WaitEnd ==
    /\ wpc = "wait" /\ sch = "closed" /\ sbuf = 0 /\ wpc' = "idle"
    /\ UNCHANGED <<proto, status, sch, sbuf, stopping, nStarts, lst, lpc, connVars, crashed>>

-----------------------------------------------------------------------------
(* TCP: StreamingService.Listen (spec 4.E). *)

(* The accept loop hands a new connection to a HandleConnection goroutine*)
(* (wg.Add); the config's format picks the split function.              *)
Accept(c) ==
    /\ lpc = "accept" /\ lst /\ sock[c] = "none"
    /\ \E f \in Formats : fmt' = [fmt EXCEPT ![c] = f]
    /\ sock' = [sock EXCEPT ![c] = "open"]
    /\ hpc'  = [hpc EXCEPT ![c] = "spawned"]
    /\ UNCHANGED <<proto, status, sch, sbuf, stopping, nStarts, lst, lpc, rderr,
                   buf, sent, inset, ppc, wpc, crashed>>

(* The listeners are closed: the accept loops end, and the connections  *)
(* of the set are closed.                                                *)
ListenEnd ==
    /\ lpc = "accept" /\ ~lst
    /\ lpc' = "none" /\ CloseSet
    /\ UNCHANGED <<proto, status, sch, sbuf, stopping, nStarts, lst, buf, sent,
                   fmt, inset, hpc, ppc, wpc, crashed>>

-----------------------------------------------------------------------------
(* The peer of connection c. *)

(* A TCP client sends a byte; a UDP packet arrives. *)
Arrive(c, b) ==
    /\ sock[c] = "open" /\ ~rderr[c] /\ sent[c] < MaxBytes
    /\ buf'  = [buf EXCEPT ![c] = Append(@, b)]
    /\ sent' = [sent EXCEPT ![c] = @ + 1]
    /\ UNCHANGED <<proto, status, sch, sbuf, stopping, nStarts, lst, lpc, sock,
                   rderr, fmt, inset, hpc, ppc, wpc, crashed>>

(* The TCP client closes its end: reads return EOF once the buffered bytes*)
(* are split.  A UDP read fails on an open socket.                        *)
Hangup(c) ==
    /\ sock[c] = "open" /\ ~rderr[c]
    /\ proto = "tcp" \/ (ReadFails /\ hpc[c] = "read")
    /\ rderr' = [rderr EXCEPT ![c] = TRUE]
    /\ UNCHANGED <<proto, status, sch, sbuf, stopping, nStarts, lst, lpc, sock,
                   buf, sent, fmt, inset, hpc, ppc, wpc, crashed>>

(* The read deadline (config.Timeout > 0, renewed after every message)   *)
(* passes while the reader waits for bytes.                               *)
Deadline(c) ==
    /\ proto = "tcp" /\ Timeout /\ hpc[c] = "read" /\ ~rderr[c]
    /\ \E r \in {Split(fmt[c], buf[c])} : ScanStep(r, Len(buf[c])) = "more"
    /\ rderr' = [rderr EXCEPT ![c] = TRUE]
    /\ UNCHANGED <<proto, status, sch, sbuf, stopping, nStarts, lst, lpc, sock,
                   buf, sent, fmt, inset, hpc, ppc, wpc, crashed>>

-----------------------------------------------------------------------------
(* HandleConnection's goroutines. *)

(* AddConnection, the raw channel, and the parser goroutine (wg.Add). *)
HandlerStart(c) ==
    /\ hpc[c] = "spawned"
    /\ inset' = [inset EXCEPT ![c] = TRUE]
    /\ hpc'   = [hpc EXCEPT ![c] = "read"]
    /\ ppc'   = [ppc EXCEPT ![c] = "run"]
    /\ UNCHANGED <<proto, status, sch, sbuf, stopping, nStarts, lst, lpc, sock,
                   rderr, buf, sent, fmt, wpc, crashed>>

(* A defer that forgets RemoveConnection. *)
HandlerReturnNoRemove(c) ==
    /\ hpc'   = [hpc EXCEPT ![c] = "none"]
    /\ inset' = inset

(* The reader returns; its defer closes the raw channel, removes the    *)
(* connection and calls wg.Done.                                         *)
HandlerReturn(c) ==
    /\ hpc'   = [hpc EXCEPT ![c] = "none"]
    /\ inset' = [inset EXCEPT ![c] = FALSE]

(* TCP: one scanner.Scan.  A token goes to the parser; a split error or *)
(* EOF after the buffered bytes ends the reader; a panic ends the process.*)
TcpScan(c) ==
    /\ proto = "tcp" /\ hpc[c] = "read"
    /\ \E r \in {Split(fmt[c], buf[c])} : \E step \in {ScanStep(r, Len(buf[c]))} :
       /\ step # "more" \/ rderr[c]
       /\ CASE step = "panic" ->
                 crashed' = TRUE /\ UNCHANGED <<buf, hpc, inset>>
            [] step = "token" ->
                 /\ buf' = [buf EXCEPT ![c] = SubSeq(@, r.adv + 1, Len(@))]
                 /\ hpc' = [hpc EXCEPT ![c] = "send"]
                 /\ UNCHANGED <<inset, crashed>>
            [] step = "skip" ->
                 /\ buf' = [buf EXCEPT ![c] = SubSeq(@, r.adv + 1, Len(@))]
                 /\ UNCHANGED <<hpc, inset, crashed>>
            [] OTHER ->
                 HandlerReturn(c) /\ UNCHANGED <<buf, crashed>>
    /\ UNCHANGED <<proto, status, sch, sbuf, stopping, nStarts, lst, lpc, sock,
                   rderr, sent, fmt, ppc, wpc>>

(* UDP: one ReadFrom.  It fails on a closed socket whatever is queued;  *)
(* a packet goes to the parser.                                          *)
UdpRead(c) ==
    /\ proto = "udp" /\ hpc[c] = "read"
    /\ rderr[c] \/ buf[c] # <<>>
    /\ IF rderr[c]
         THEN HandlerReturn(c) /\ UNCHANGED buf
         ELSE /\ buf' = [buf EXCEPT ![c] = Tail(@)]
              /\ hpc' = [hpc EXCEPT ![c] = "send"] /\ UNCHANGED inset
    /\ UNCHANGED <<proto, status, sch, sbuf, stopping, nStarts, lst, lpc, sock,
                   rderr, sent, fmt, ppc, wpc, crashed>>

(* The parser receives the message (raw_messages_chan is unbuffered),   *)
(* parses it and stashes it.                                             *)
ParserRecv(c) ==
    /\ hpc[c] = "send" /\ ppc[c] = "run"
    /\ hpc' = [hpc EXCEPT ![c] = "read"]
    /\ UNCHANGED <<proto, status, sch, sbuf, stopping, nStarts, lst, lpc, sock,
                   rderr, buf, sent, fmt, inset, ppc, wpc, crashed>>

(* The raw channel is closed: the range loop ends, wg.Done. *)
ParserExit(c) ==
    /\ ppc[c] = "run" /\ hpc[c] = "none"
    /\ ppc' = [ppc EXCEPT ![c] = "none"]
    /\ UNCHANGED <<proto, status, sch, sbuf, stopping, nStarts, lst, lpc, sock,
                   rderr, buf, sent, fmt, inset, hpc, wpc, crashed>>

-----------------------------------------------------------------------------
Next ==
    /\ ~crashed
    /\ \/ TcpStart \/ UdpStart \/ TcpStopBegin \/ UdpStopBegin \/ StopEnd
       \/ WaitCall \/ WaitRecv \/ WaitEnd \/ ListenEnd
       \/ \E c \in Conns :
            \/ Accept(c) \/ Hangup(c) \/ Deadline(c)
            \/ HandlerStart(c) \/ TcpScan(c) \/ UdpRead(c)
            \/ ParserRecv(c) \/ ParserExit(c)
            \/ \E b \in Bytes : Arrive(c, b)

(* The steps of one goroutine: c's reader, c's parser, WaitClosed. *)
Reader(c) == HandlerStart(c) \/ TcpScan(c) \/ UdpRead(c)
Parser(c) == ParserRecv(c) \/ ParserExit(c)
Waiter    == WaitRecv \/ WaitEnd

(* Go's scheduler runs every goroutine that can step (Stop's, Listen's,  *)
(* the readers', the parsers' and a WaitClosed caller's), and a deadline *)
(* passes.  The controller (Start, Stop) and the peers are not forced to *)
(* act.                                                                   *)
Fairness ==
    /\ WF_vars(StopEnd) /\ WF_vars(ListenEnd) /\ WF_vars(Waiter)
    /\ \A c \in Conns : WF_vars(Reader(c)) /\ WF_vars(Parser(c)) /\ WF_vars(Deadline(c))

Spec == Init /\ [][Next]_vars /\ Fairness

-----------------------------------------------------------------------------
TypeOK ==
    /\ proto \in {"tcp", "udp"} /\ status \in {"Stopped", "Started"}
    /\ sch \in {"nil", "open", "closed"} /\ sbuf \in 0..1
    /\ {stopping, lst, crashed} \subseteq BOOLEAN /\ lpc \in {"none", "accept"}
    /\ nStarts \in 0..MaxStarts /\ wpc \in {"idle", "wait"}
    /\ sock \in [Conns -> {"none", "open", "closed"}] /\ rderr \in [Conns -> BOOLEAN]
    /\ buf \in [Conns -> Seq(Bytes)] /\ sent \in [Conns -> 0..MaxBytes]
    /\ fmt \in [Conns -> Formats] /\ inset \in [Conns -> BOOLEAN]
    /\ hpc \in [Conns -> {"none", "spawned", "read", "send"}]
    /\ ppc \in [Conns -> {"none", "run"}]

-----------------------------------------------------------------------------
(* Properties. *)

(* The two split functions cut every stream of framed messages, whole or *)
(* cut short where it has arrived so far, into exactly those messages (a *)
(* prefix of them): TcpSplit with octet counting and LF framing mixed, and *)
(* LFTcpSplit with LF framing.  It is a fact of the functions alone, so  *)
(* TLC checks it in the initial states only.                              *)
SplitMatchesFraming ==
    (nStarts = 0 /\ wpc = "idle") =>
        \A f \in {"auto", "lf"} : FramingCorrect(f, RefMsgs, 2)

(* Once Stop has returned (or Start found no listener), no HandleConnection*)
(* reader or parser goroutine is left, and the connection set is empty: *)
(* every reader removed its connection in its defer before wg.Wait ended.*)
StoppedClean ==
    (status = "Stopped" /\ ~stopping) =>
        \A c \in Conns : hpc[c] = "none" /\ ppc[c] = "none" /\ ~inset[c]

(* No bytes a client sends make a split function panic (a slice out of  *)
(* range in TcpSplit ends the process).                                  *)
NoPanic == ~crashed

(* Stop returns: the goroutines it waits for end.  For TCP this rests on *)
(* the read deadline, which ends a reader whose connection was missed by *)
(* CloseConnections.                                                      *)
StopReturns == stopping ~> ~stopping
TcpStopReturns == (stopping /\ proto = "tcp") ~> ~stopping

====
