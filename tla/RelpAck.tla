------------------------------ MODULE RelpAck ------------------------------
(***************************************************************************)
(* What the RELP server promises each client connection (spec section 8), *)
(* stated without the pipeline: every syslog txnr the connection sends is *)
(* pending until it gets an outcome (delivered or refused), each txnr gets *)
(* at most one outcome, and answers leave in runs taken from the smallest *)
(* pending txnrs, each answer carrying that txnr's own outcome.  Answers  *)
(* written once the socket is closed are lost.  When the connection ends, *)
(* what is still pending is dropped.                                     *)
(*                                                                         *)
(* RelpPipeline refines this module under the mapping given there.       *)
(***************************************************************************)
EXTENDS Integers, Sequences, FiniteSets

CONSTANTS Conns, Txnrs

VARIABLES
    phase,  \* k: "new" (not accepted), "live", "gone"
    open,   \* k: the socket is open
    pend,   \* k: txnrs received and not answered yet
    ok,     \* k: txnrs whose message was delivered (or was empty)
    ko,     \* k: txnrs whose message was refused
    ans     \* k: the 200/500 answers the client received, in order

avars == <<phase, open, pend, ok, ko, ans>>

Answers == [txnr : Txnrs, kind : {"200", "500"}]

Init ==
    /\ phase = [k \in Conns |-> "new"]
    /\ open  = [k \in Conns |-> FALSE]
    /\ pend  = [k \in Conns |-> {}]
    /\ ok    = [k \in Conns |-> {}]
    /\ ko    = [k \in Conns |-> {}]
    /\ ans   = [k \in Conns |-> <<>>]

Connect(k) ==
    /\ phase[k] = "new"
    /\ phase' = [phase EXCEPT ![k] = "live"]
    /\ open'  = [open EXCEPT ![k] = TRUE]
    /\ UNCHANGED <<pend, ok, ko, ans>>

(* A txnr larger than every txnr seen on the connection is received; an *)
(* empty message is delivered at once.                                   *)
Receive(k, t) ==
    /\ phase[k] = "live"
    /\ \A u \in pend[k] \cup ok[k] \cup ko[k] : u < t
    /\ pend' = [pend EXCEPT ![k] = @ \cup {t}]
    /\ \/ ok' = [ok EXCEPT ![k] = @ \cup {t}]
       \/ UNCHANGED ok
    /\ UNCHANGED <<phase, open, ko, ans>>

(* A pending txnr (or one of a connection that has ended) gets its one   *)
(* outcome.                                                              *)
Decide(k, t) ==
    /\ t \in pend[k] \/ phase[k] = "gone"
    /\ t \notin ok[k] \cup ko[k]
    /\ \/ ok' = [ok EXCEPT ![k] = @ \cup {t}] /\ UNCHANGED ko
       \/ ko' = [ko EXCEPT ![k] = @ \cup {t}] /\ UNCHANGED ok
    /\ UNCHANGED <<phase, open, pend, ans>>

(* The n smallest pending txnrs, in increasing order. *)
Smallest(S, n) ==
    LET RECURSIVE Take(_, _)
        Take(R, i) == IF i = 0 \/ R = {} THEN <<>>
                      ELSE LET m == CHOOSE x \in R : \A y \in R : x <= y
                           IN <<m>> \o Take(R \ {m}, i - 1)
    IN Take(S, n)

AnswerOf(k, t) == [txnr |-> t, kind |-> IF t \in ok[k] THEN "200" ELSE "500"]

(* The n smallest pending txnrs all have an outcome: answer them in     *)
(* order (the client sees the answers only while the socket is open).   *)
Answer(k, n) ==
    LET run == Smallest(pend[k], n) IN
    /\ phase[k] = "live"
    /\ n \in 1..Cardinality(pend[k])
    /\ \A i \in 1..n : run[i] \in ok[k] \cup ko[k]
    /\ pend' = [pend EXCEPT ![k] = @ \ {run[i] : i \in 1..n}]
    /\ ans'  = IF open[k]
                 THEN [ans EXCEPT ![k] = @ \o [i \in 1..n |-> AnswerOf(k, run[i])]]
                 ELSE ans
    /\ UNCHANGED <<phase, open, ok, ko>>

Hangup(k) ==
    /\ phase[k] = "live" /\ open[k]
    /\ open' = [open EXCEPT ![k] = FALSE]
    /\ UNCHANGED <<phase, pend, ok, ko, ans>>

End(k) ==
    /\ phase[k] = "live"
    /\ phase' = [phase EXCEPT ![k] = "gone"]
    /\ open'  = [open EXCEPT ![k] = FALSE]
    /\ pend'  = [pend EXCEPT ![k] = {}]
    /\ UNCHANGED <<ok, ko, ans>>

Next ==
    \E k \in Conns :
        \/ Connect(k) \/ Hangup(k) \/ End(k)
        \/ \E t \in Txnrs : Receive(k, t) \/ Decide(k, t)
        \/ \E n \in 1..Cardinality(Txnrs) : Answer(k, n)

(* The server decides every message it received and answers whatever    *)
(* can be answered; the client (connects, frames, hang-ups) is not fair. *)
Fairness ==
    \A k \in Conns :
        /\ WF_avars(\E t \in Txnrs : t \in pend[k] /\ Decide(k, t))
        /\ WF_avars(\E n \in 1..Cardinality(Txnrs) : Answer(k, n))

Spec == Init /\ [][Next]_avars /\ Fairness

=============================================================================
