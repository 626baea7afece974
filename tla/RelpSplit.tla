------------------------------ MODULE RelpSplit ------------------------------
(***************************************************************************)
(* RelpSplit (src/services/network/relp.go 995-1041), the bufio.SplitFunc *)
(* of the RELP handler's scanner, over byte sequences as in TcpSplit,     *)
(* whose helpers (slices, TrimLeft, Trim, Atoi, results, ScanStep) it     *)
(* uses.  A RELP frame is "TXNR SP COMMAND SP DATALEN [SP DATA] LF".      *)
(***************************************************************************)
EXTENDS TcpSplit, FiniteSets

(* bytes.FieldsFunc(s, splitSpaceOrLF): the maximal runs of bytes that  *)
(* are not a space, LF or CR.  FieldStarts are where runs begin; Field   *)
(* is the k-th run.                                                       *)
FieldStarts(s) ==
    {i \in 1..Len(s) : s[i] \notin Blanks /\ (i = 1 \/ s[i - 1] \in Blanks)}
Field(s, k) ==
    LET st  == CHOOSE i \in FieldStarts(s) :
                   Cardinality({j \in FieldStarts(s) : j < i}) = k - 1
        rem == SubSeq(s, st, Len(s))
        e   == SelectInSeq(rem, LAMBDA x : x \in Blanks)
    IN  IF e = 0 THEN rem ELSE SubSeq(rem, 1, e - 1)

Sp == <<" ">>

(* A RelpSplit that reads the data length before the SP after it has     *)
(* arrived (the l == 3 wait dropped).                                    *)
RelpSplitNoWait(data) ==
    LET td       == TrimLeft(data)
        l        == Cardinality(FieldStarts(td))
        tokenStr == Field(td, 1) \o Sp \o Field(td, 2) \o Sp \o Field(td, 3)
        advance  == Len(data) - Len(td) + Len(tokenStr) + 1
        datalen  == Atoi(Field(td, 3))
        total    == Wrap(Wrap(advance + datalen.val) + 1)
    IN  CASE td = <<>>                          -> More
          [] l < 3                              -> More
          [] Atoi(Field(td, 1)).err              -> Fail
          [] datalen.err                        -> Fail
          [] datalen.val = 0                    -> Result(advance, tokenStr)
          [] Len(data) < total                  -> More
          [] ~SliceOK(data, 0, total)           -> Panic
          [] OTHER                              -> Result(total, Trim(Slice(data, 0, total)))

RelpSplit(data) ==
    LET td       == TrimLeft(data)
        l        == Cardinality(FieldStarts(td))
        tokenStr == Field(td, 1) \o Sp \o Field(td, 2) \o Sp \o Field(td, 3)
        advance  == Len(data) - Len(td) + Len(tokenStr) + 1
        datalen  == Atoi(Field(td, 3))
        total    == Wrap(Wrap(advance + datalen.val) + 1)
    IN  CASE td = <<>>                          -> More
          [] l < 3                              -> More
          [] l = 3 /\ Len(data) < advance       -> More
          [] Atoi(Field(td, 1)).err              -> Fail
          [] datalen.err                        -> Fail
          [] datalen.val = 0                    -> Result(advance, tokenStr)
          [] Len(data) < total                  -> More
          [] ~SliceOK(data, 0, total)           -> Panic
          [] OTHER                              -> Result(total, Trim(Slice(data, 0, total)))

(* What the handler's scanner makes of data: the tokens it returns, and  *)
(* why it stops: "more" (it waits for bytes), "error" (Scan returns       *)
(* false and the connection ends) or "panic".                            *)
RelpScan[data \in Seq(STRING)] ==
    LET r    == RelpSplit(data)
        step == ScanStep(r, Len(data))
    IN  CASE step = "token" ->
               [RelpScan[SubSeq(data, r.adv + 1, Len(data))] EXCEPT !.toks = <<r.tok>> \o @]
          [] step = "skip"  -> RelpScan[SubSeq(data, r.adv + 1, Len(data))]
          [] OTHER          -> [toks |-> <<>>, stop |-> step]

-----------------------------------------------------------------------------
(* The reference: a RELP frame of txnr t, command c and data d, and the  *)
(* token the handler expects for it, the frame without its trailer LF.   *)
RelpHeader(t, c, d) == Decimal(t) \o Sp \o c \o Sp \o Decimal(Len(d))
RelpToken(t, c, d)  == IF d = <<>> THEN RelpHeader(t, c, d)
                       ELSE RelpHeader(t, c, d) \o Sp \o d
RelpFrame(t, c, d)  == RelpToken(t, c, d) \o <<LF>>

(* Each stream of up to k frames with txnrs from T, commands from C and  *)
(* data from D yields their tokens in order, and every part of it that   *)
(* has arrived so far yields a prefix of them and waits for the rest.    *)
RelpFramingCorrect(T, C, D, k) ==
    \A fs \in BoundedSeq(T \X C \X D, k) :
        \A toks \in {[i \in 1..Len(fs) |-> RelpToken(fs[i][1], fs[i][2], fs[i][3])]} :
        \A data \in {FlattenSeq([i \in 1..Len(fs) |-> toks[i] \o <<LF>>])} :
            /\ RelpScan[data] = [toks |-> toks, stop |-> "more"]
            /\ \A i \in 0..Len(data) : \A p \in {RelpScan[SubSeq(data, 1, i)]} :
                  IsPrefix(p.toks, toks) /\ p.stop = "more"

====
