-------------------------------- MODULE Binder --------------------------------
(***************************************************************************)
(* The privileged binder of src/sys/binder/binderserver.go, for one child  *)
(* (binderOne): the reader goroutine that scans the child's commands, the  *)
(* dispatcher goroutine that owns the connection maps and hands file       *)
(* descriptors to the child, and, per stream listener, the accept          *)
(* goroutine and the goroutine that closes the listener once its context   *)
(* is cancelled (BinderListen).                                            *)
(*                                                                         *)
(* schan and pchan are unbuffered: a send is one step taken together with  *)
(* the dispatcher's receive, so every Dispatch action below is a           *)
(* rendezvous of the dispatcher with the reader or an accept goroutine.    *)
(* The select of the dispatcher picks among the ready cases at random,     *)
(* which is the choice between the enabled Dispatch actions.              *)
(*                                                                         *)
(* A connection is identified by the uid the binder generates for it; the  *)
(* socket, its dup'd file and the wire format of the messages are         *)
(* abstracted to membership in sets.  A listen command names one address   *)
(* (the loop over several addresses repeats the same step).               *)
(***************************************************************************)
EXTENDS Integers, Sequences, FiniteSets

CONSTANTS
    SAddrs,          \* stream addresses (tcp, unix) the child may ask for
    PAddrs,          \* packet addresses (udp, unixgram) the child may ask for
    MaxListens,      \* bound on the number of BinderListen calls
    MaxUids,         \* bound on the number of connections (uids generated)
    MaxCmds,         \* bound on the number of commands the child sends
    FileFails,       \* TRUE: conn.File() may fail
    WriteFails,      \* TRUE: a write on the child socket may fail
    AcceptFails,     \* TRUE: Accept may fail on an open listener
    NoAddr           \* model value: no address

ASSUME /\ SAddrs \cap PAddrs = {} /\ NoAddr \notin SAddrs \cup PAddrs
       /\ MaxListens \in Nat /\ MaxUids \in Nat /\ MaxCmds \in Nat
       /\ {FileFails, WriteFails, AcceptFails} \subseteq BOOLEAN

Addrs     == SAddrs \cup PAddrs
Goroutines == 1..MaxListens      \* accept goroutines, in order of creation
Uids      == 1..MaxUids
(* A message on the child socket; uid is 0 unless kind is "newconn". *)
ChildMsgs == [kind : {"confirmlisten", "error", "stopped", "newconn"},
              addr : Addrs, uid : 0..MaxUids]

VARIABLES
    rd,         \* reader: "scan", blocked on a send ("listenP", "closeS",
                \*   "closeP", "resetS", "resetP") or "done"
    rdArg,      \* reader: the uid of the send it is blocked on
    nCmd,       \* commands scanned so far
    listeners,  \* reader's listeners map: addr -> goroutine, 0 if absent
    acc,        \* accept goroutine g: [addr, st, uid], st in
                \*   "unused", "accept", "send" (blocked on schan), "exited"
    lsock,      \* g: its listener socket is open
    nUid,       \* uids generated so far
    addrOf,     \* uid -> the address it was accepted or opened on
    sock,       \* uids whose net.Conn / net.PacketConn is open in the binder
    sconns,     \* dispatcher: keys of connections
    pconns,     \* dispatcher: keys of packetconnections
    files,      \* dispatcher: keys of connfiles (dup'd descriptors, open)
    disp,       \* dispatcher: "run" or "exited"
    ctxDone,    \* the binderOne context is cancelled
    inbox,      \* what the child received on its socket, in order
    closeReq    \* ghost: uids the child asked to close

vars == <<rd, rdArg, nCmd, listeners, acc, lsock, nUid, addrOf, sock,
          sconns, pconns, files, disp, ctxDone, inbox, closeReq>>

-----------------------------------------------------------------------------
Send(m)  == inbox' = Append(inbox, m)
Msg(k, a, u) == [kind |-> k, addr |-> a, uid |-> u]
(* Uids the child was told about with newconn. *)
Told == {inbox[i].uid : i \in {j \in DOMAIN inbox : inbox[j].kind = "newconn"}}

(* net.Listen fails while a listener socket is bound to the address. *)
StreamInUse(a) == \E g \in Goroutines : lsock[g] /\ acc[g].addr = a
(* net.ListenPacket fails while a packet socket is bound to the address. *)
PacketInUse(a) == \E u \in sock : addrOf[u] = a

Init ==
    /\ rd = "scan" /\ rdArg = 0 /\ nCmd = 0
    /\ listeners = [a \in SAddrs |-> 0]
    /\ acc = [g \in Goroutines |-> [addr |-> NoAddr, st |-> "unused", uid |-> 0]]
    /\ lsock = [g \in Goroutines |-> FALSE]
    /\ nUid = 0
    /\ addrOf = [u \in Uids |-> NoAddr]
    /\ sock = {} /\ sconns = {} /\ pconns = {} /\ files = {}
    /\ disp = "run" /\ ctxDone = FALSE
    /\ inbox = <<>> /\ closeReq = {}

-----------------------------------------------------------------------------
(* Reader: one scanned command per step.                                  *)

Scan == rd = "scan" /\ nCmd < MaxCmds /\ nCmd' = nCmd + 1

(* A plausible slip in the listen case: the listener whose confirmation *)
(* could not be written is neither closed nor recorded.                   *)
ListenStreamNoClose(a) ==
    /\ Scan
    /\ \/ /\ StreamInUse(a)
          /\ Send(Msg("error", a, 0))
          /\ UNCHANGED <<listeners, acc, lsock>>
       \/ /\ ~StreamInUse(a)
          /\ \E g \in Goroutines :
               /\ acc[g].st = "unused" /\ \A h \in 1..g-1 : acc[h].st # "unused"
               /\ acc' = [acc EXCEPT ![g] = [addr |-> a, st |-> "accept", uid |-> 0]]
               /\ lsock' = [lsock EXCEPT ![g] = TRUE]
               /\ \/ /\ Send(Msg("confirmlisten", a, 0))
                     /\ listeners' = [listeners EXCEPT ![a] = g]
                  \/ /\ WriteFails
                     /\ UNCHANGED <<inbox, listeners>>
    /\ UNCHANGED <<rd, rdArg, nUid, addrOf, sock, sconns, pconns, files,
                   disp, ctxDone, closeReq>>

(* listen on a stream address: BinderListen, then confirm or report. *)
ListenStream(a) ==
    /\ Scan
    /\ \/ /\ StreamInUse(a)
          /\ Send(Msg("error", a, 0))
          /\ UNCHANGED <<listeners, acc, lsock>>
       \/ /\ ~StreamInUse(a)
          /\ \E g \in Goroutines :
               /\ acc[g].st = "unused" /\ \A h \in 1..g-1 : acc[h].st # "unused"
               /\ acc' = [acc EXCEPT ![g] = [addr |-> a, st |-> "accept", uid |-> 0]]
               /\ \/ /\ Send(Msg("confirmlisten", a, 0))
                     /\ lsock' = [lsock EXCEPT ![g] = TRUE]
                     /\ listeners' = [listeners EXCEPT ![a] = g]
                  \/ /\ WriteFails
                     /\ UNCHANGED <<inbox, lsock, listeners>>
    /\ UNCHANGED <<rd, rdArg, nUid, addrOf, sock, sconns, pconns, files,
                   disp, ctxDone, closeReq>>

(* listen on a packet address: BinderPacket, then the send on pchan. *)
ListenPacket(a) ==
    /\ Scan
    /\ \/ /\ PacketInUse(a)
          /\ Send(Msg("error", a, 0))
          /\ UNCHANGED <<rd, rdArg, nUid, addrOf, sock>>
       \/ /\ ~PacketInUse(a) /\ nUid < MaxUids
          /\ nUid' = nUid + 1
          /\ addrOf' = [addrOf EXCEPT ![nUid + 1] = a]
          /\ sock' = sock \cup {nUid + 1}
          /\ rd' = "listenP" /\ rdArg' = nUid + 1
          /\ UNCHANGED inbox
    /\ UNCHANGED <<listeners, acc, lsock, sconns, pconns, files, disp,
                   ctxDone, closeReq>>

(* closeconn UID: send it on schan, then on pchan. *)
CloseConn(u) ==
    /\ Scan
    /\ rd' = "closeS" /\ rdArg' = u
    /\ closeReq' = closeReq \cup {u}
    /\ UNCHANGED <<listeners, acc, lsock, nUid, addrOf, sock, sconns, pconns,
                   files, disp, ctxDone, inbox>>

(* stoplisten ADDR: close the listener if the map has it; always reply. *)
StopListen(a) ==
    /\ Scan
    /\ IF listeners[a] # 0
         THEN /\ lsock' = [lsock EXCEPT ![listeners[a]] = FALSE]
              /\ listeners' = [listeners EXCEPT ![a] = 0]
         ELSE UNCHANGED <<lsock, listeners>>
    /\ Send(Msg("stopped", a, 0))
    /\ UNCHANGED <<rd, rdArg, acc, nUid, addrOf, sock, sconns, pconns, files,
                   disp, ctxDone, closeReq>>

(* reset: close every listener of the map, then the empty sends. *)
Reset ==
    /\ Scan
    /\ lsock' = [g \in Goroutines |->
                   IF \E a \in SAddrs : listeners[a] = g THEN FALSE ELSE lsock[g]]
    /\ listeners' = [a \in SAddrs |-> 0]
    /\ rd' = "resetS"
    /\ UNCHANGED <<rdArg, acc, nUid, addrOf, sock, sconns, pconns, files,
                   disp, ctxDone, inbox, closeReq>>

(* byebye, or the end of the scan: return, and the deferred cancel. *)
Bye ==
    /\ rd = "scan"
    /\ rd' = "done" /\ ctxDone' = TRUE
    /\ UNCHANGED <<rdArg, nCmd, listeners, acc, lsock, nUid, addrOf, sock,
                   sconns, pconns, files, disp, inbox, closeReq>>

-----------------------------------------------------------------------------
(* Dispatcher: one case of its select per step.                           *)

(* A new connection: conn.File(), record both, send newconn + the FD.     *)
(* A failed File() leaves the connection open and recorded nowhere.       *)
Register(u, kindConns) ==
    \/ /\ FileFails
       /\ UNCHANGED <<sconns, pconns, files, inbox>>
    \/ /\ IF kindConns = "s"
            THEN sconns' = sconns \cup {u} /\ UNCHANGED pconns
            ELSE pconns' = pconns \cup {u} /\ UNCHANGED sconns
       /\ files' = files \cup {u}
       /\ \/ Send(Msg("newconn", addrOf[u], u))
          \/ WriteFails /\ UNCHANGED inbox

(* schan, from accept goroutine g: a new stream connection. *)
DispatchAccepted(g) ==
    /\ disp = "run" /\ acc[g].st = "send"
    /\ acc' = [acc EXCEPT ![g].st = "accept", ![g].uid = 0]
    /\ Register(acc[g].uid, "s")
    /\ UNCHANGED <<rd, rdArg, nCmd, listeners, lsock, nUid, addrOf, sock,
                   disp, ctxDone, closeReq>>

(* pchan, from the reader's listen: a new packet connection. *)
DispatchPacket ==
    /\ disp = "run" /\ rd = "listenP"
    /\ rd' = "scan" /\ rdArg' = 0
    /\ Register(rdArg, "p")
    /\ UNCHANGED <<nCmd, listeners, acc, lsock, nUid, addrOf, sock, disp,
                   ctxDone, closeReq>>

(* A plausible slip: the entry is deleted without conn.Close(). *)
DispatchCloseSNoClose ==
    /\ disp = "run" /\ rd = "closeS"
    /\ files' = files \ {rdArg}
    /\ sconns' = sconns \ {rdArg}
    /\ rd' = "closeP"
    /\ UNCHANGED <<rdArg, nCmd, listeners, acc, lsock, nUid, addrOf, pconns,
                   sock, disp, ctxDone, inbox, closeReq>>

(* schan, closeconn: close the file and the stream conn of uid, if any.   *)
DispatchCloseS ==
    /\ disp = "run" /\ rd = "closeS"
    /\ files' = files \ {rdArg}
    /\ sock' = IF rdArg \in sconns THEN sock \ {rdArg} ELSE sock
    /\ sconns' = sconns \ {rdArg}
    /\ rd' = "closeP"
    /\ UNCHANGED <<rdArg, nCmd, listeners, acc, lsock, nUid, addrOf, pconns,
                   disp, ctxDone, inbox, closeReq>>

(* pchan, closeconn: close the file and the packet conn of uid, if any.   *)
DispatchCloseP ==
    /\ disp = "run" /\ rd = "closeP"
    /\ files' = files \ {rdArg}
    /\ sock' = IF rdArg \in pconns THEN sock \ {rdArg} ELSE sock
    /\ pconns' = pconns \ {rdArg}
    /\ rd' = "scan" /\ rdArg' = 0
    /\ UNCHANGED <<nCmd, listeners, acc, lsock, nUid, addrOf, sconns,
                   disp, ctxDone, inbox, closeReq>>

(* A plausible slip: reset closes the stream conns but not their files. *)
DispatchResetSKeepFiles ==
    /\ disp = "run" /\ rd = "resetS"
    /\ sock' = sock \ sconns
    /\ sconns' = {}
    /\ rd' = "resetP"
    /\ UNCHANGED <<rdArg, nCmd, listeners, acc, lsock, nUid, addrOf, pconns,
                   files, disp, ctxDone, inbox, closeReq>>

(* schan, reset: close every stream conn and its file, empty the map.     *)
DispatchResetS ==
    /\ disp = "run" /\ rd = "resetS"
    /\ sock' = sock \ sconns
    /\ files' = files \ sconns
    /\ sconns' = {}
    /\ rd' = "resetP"
    /\ UNCHANGED <<rdArg, nCmd, listeners, acc, lsock, nUid, addrOf, pconns,
                   disp, ctxDone, inbox, closeReq>>

(* pchan, reset: close every packet conn and its file, empty the map.     *)
DispatchResetP ==
    /\ disp = "run" /\ rd = "resetP"
    /\ sock' = sock \ pconns
    /\ files' = files \ pconns
    /\ pconns' = {}
    /\ rd' = "scan"
    /\ UNCHANGED <<rdArg, nCmd, listeners, acc, lsock, nUid, addrOf, sconns,
                   disp, ctxDone, inbox, closeReq>>

(* ctx.Done: close the packet conns and return; the stream conns and the  *)
(* files are left as they are.                                            *)
DispatchDone ==
    /\ disp = "run" /\ ctxDone
    /\ disp' = "exited"
    /\ sock' = sock \ pconns
    /\ UNCHANGED <<rd, rdArg, nCmd, listeners, acc, lsock, nUid, addrOf,
                   sconns, pconns, files, ctxDone, inbox, closeReq>>

-----------------------------------------------------------------------------
(* Per-listener goroutines of BinderListen.                               *)

(* A plausible slip: the connection is sent with the generator's last   *)
(* uid instead of a fresh one.                                            *)
AcceptStaleUid(g) ==
    /\ acc[g].st = "accept" /\ lsock[g] /\ nUid < MaxUids
    /\ nUid' = nUid + 1
    /\ addrOf' = [addrOf EXCEPT ![nUid] = acc[g].addr]
    /\ sock' = sock \cup {nUid}
    /\ acc' = [acc EXCEPT ![g].st = "send", ![g].uid = nUid]
    /\ UNCHANGED <<rd, rdArg, nCmd, listeners, lsock, sconns, pconns, files,
                   disp, ctxDone, inbox, closeReq>>

(* Accept returns a connection: generate its uid, then send on schan. *)
Accept(g) ==
    /\ acc[g].st = "accept" /\ lsock[g] /\ nUid < MaxUids
    /\ nUid' = nUid + 1
    /\ addrOf' = [addrOf EXCEPT ![nUid + 1] = acc[g].addr]
    /\ sock' = sock \cup {nUid + 1}
    /\ acc' = [acc EXCEPT ![g].st = "send", ![g].uid = nUid + 1]
    /\ UNCHANGED <<rd, rdArg, nCmd, listeners, lsock, sconns, pconns, files,
                   disp, ctxDone, inbox, closeReq>>

(* Accept returns an error (the listener is closed, or a transient        *)
(* failure): cancel the listener's context and return.                   *)
AcceptError(g) ==
    /\ acc[g].st = "accept" /\ (~lsock[g] \/ AcceptFails)
    /\ acc' = [acc EXCEPT ![g].st = "exited"]
    /\ UNCHANGED <<rd, rdArg, nCmd, listeners, lsock, nUid, addrOf, sock,
                   sconns, pconns, files, disp, ctxDone, inbox, closeReq>>

(* The listener's context is done (its own cancel, or the parent's):      *)
(* close the listener.                                                    *)
CloseListener(g) ==
    /\ lsock[g] /\ (ctxDone \/ acc[g].st = "exited")
    /\ lsock' = [lsock EXCEPT ![g] = FALSE]
    /\ UNCHANGED <<rd, rdArg, nCmd, listeners, acc, nUid, addrOf, sock,
                   sconns, pconns, files, disp, ctxDone, inbox, closeReq>>

(* Both goroutines of binderOne have returned: the binder stops. *)
Finished ==
    /\ rd = "done" /\ disp = "exited"
    /\ UNCHANGED vars

Next ==
    \/ \E a \in SAddrs : ListenStream(a) \/ StopListen(a)
    \/ \E a \in PAddrs : ListenPacket(a)
    \/ \E u \in Told : CloseConn(u)
    \/ Reset \/ Bye
    \/ \E g \in Goroutines : DispatchAccepted(g) \/ Accept(g)
                             \/ AcceptError(g) \/ CloseListener(g)
    \/ DispatchPacket \/ DispatchCloseS \/ DispatchCloseP
    \/ DispatchResetS \/ DispatchResetP \/ DispatchDone
    \/ Finished

(* The goroutines of the binder are scheduled fairly; the child (which    *)
(* sends the commands) and the network clients (Accept) are not.          *)
Fairness ==
    /\ WF_vars(DispatchPacket) /\ WF_vars(DispatchCloseS)
    /\ WF_vars(DispatchCloseP) /\ WF_vars(DispatchResetS)
    /\ WF_vars(DispatchResetP) /\ WF_vars(DispatchDone)
    /\ \A g \in Goroutines : /\ WF_vars(DispatchAccepted(g))
                             /\ WF_vars(AcceptError(g))
                             /\ WF_vars(CloseListener(g))

Spec == Init /\ [][Next]_vars /\ Fairness

-----------------------------------------------------------------------------
(* Properties.                                                            *)

TypeOK ==
    /\ rd \in {"scan", "listenP", "closeS", "closeP", "resetS", "resetP", "done"}
    /\ rdArg \in 0..MaxUids /\ nCmd \in 0..MaxCmds /\ nUid \in 0..MaxUids
    /\ listeners \in [SAddrs -> 0..MaxListens]
    /\ acc \in [Goroutines -> [addr : SAddrs \cup {NoAddr},
                               st : {"unused", "accept", "send", "exited"},
                               uid : 0..MaxUids]]
    /\ lsock \in [Goroutines -> BOOLEAN]
    /\ addrOf \in [Uids -> Addrs \cup {NoAddr}]
    /\ {sock, sconns, pconns, files, closeReq} \subseteq SUBSET Uids
    /\ disp \in {"run", "exited"} /\ ctxDone \in BOOLEAN
    /\ inbox \in Seq(ChildMsgs)

(* The dispatcher closes a connection's dup'd file only together with, or *)
(* before, the connection itself: closeconn closes connfiles[uid] in the  *)
(* schan case even when uid is a packet connection, and reset closes the *)
(* files of each kind with its map.  So an open file always belongs to a  *)
(* connection the dispatcher still holds.                                 *)
FileOnlyWithConn == files \subseteq sconns \cup pconns

(* Every listener socket that is open while the binder runs is the one    *)
(* the reader's listeners map holds for its address, so that stoplisten   *)
(* and reset can close it (a listen whose confirmation could not be sent  *)
(* closes its listener at once).                                          *)
ListenerDisposable ==
    ~ctxDone => \A g \in Goroutines : lsock[g] => listeners[acc[g].addr] = g

(* closeconn UID eventually closes the connection the child named: the     *)
(* reader's two sends on schan and pchan reach the dispatcher while the    *)
(* binder runs, and one of the two cases holds the uid.                    *)
ClosedOnRequest == \A u \in Uids : u \in closeReq ~> u \notin sock

(* Connections in the hands of a goroutine, on their way to the maps. *)
InFlight == {acc[g].uid : g \in {h \in Goroutines : acc[h].st = "send"}}
            \cup (IF rd = "listenP" THEN {rdArg} ELSE {})

(* The binder "retains a map UID -> (conn, file) so it can dispose on     *)
(* demand" (spec 4.F): every connection open in the binder is in a map of *)
(* the dispatcher, or on its way there.                                   *)
Disposable == sock \subseteq sconns \cup pconns \cup InFlight

(* When the child says byebye (or its socket ends), the binder eventually  *)
(* releases every connection it holds for it: the socket and its dup'd    *)
(* file, whose descriptors would otherwise keep the client's connection  *)
(* open after the child has gone.                                         *)
ShutdownReleasesAll ==
    \A u \in Uids : (ctxDone /\ u \in sock \cup files) ~> u \notin sock \cup files

(* After the reply "stopped ADDR" the child receives no newconn for ADDR  *)
(* until a later confirmlisten ADDR.                                      *)
NoNewconnAfterStopped ==
    \A i, j \in DOMAIN inbox :
        (i < j /\ inbox[i].kind = "stopped" /\ inbox[j].kind = "newconn"
               /\ inbox[j].addr = inbox[i].addr)
        => \E k \in i+1..j-1 : inbox[k].kind = "confirmlisten"
                               /\ inbox[k].addr = inbox[i].addr

====
