------------------------------ MODULE TcpSplit ------------------------------
(***************************************************************************)
(* The framing of syslog over TCP (src/services/tcp.go 258-312): TcpSplit, *)
(* the bufio.SplitFunc of the formats rfc5424, rfc3164, json and auto, and *)
(* LFTcpSplit, the one of every other format.  A byte is a one-character  *)
(* string and data is a sequence of bytes.  Go's slices are 0-based and   *)
(* half-open; Slice translates them.  Go's int has IntBits bits and its   *)
(* additions wrap around.                                                  *)
(*                                                                         *)
(* A split result is a record: adv (bytes consumed), tok (the token; the  *)
(* empty sequence stands for nil, and bytes.Trim returns nil for an empty *)
(* result), err (the split failed) and panic (a slice expression was out  *)
(* of range, which panics the goroutine and the process).                 *)
(***************************************************************************)
EXTENDS Integers, Sequences, SequencesExt

CONSTANT IntBits    \* the width of Go's int

LF     == "\n"
Blanks == {" ", "\r", LF}                     \* the cutset " \r\n"
DigitOf == <<"0", "1", "2", "3", "4", "5", "6", "7", "8", "9">>
Digits == ToSet(DigitOf)
DigitVal(d) == CHOOSE v \in 0..9 : DigitOf[v + 1] = d

MinInt == -(2^(IntBits - 1))
MaxInt == 2^(IntBits - 1) - 1
Wrap(x) == ((x - MinInt) % (2 * (MaxInt + 1))) + MinInt

(* data[lo:hi], and whether Go accepts the bounds of the expression.  The *)
(* high bound never exceeds the length where the code slices, so the     *)
(* capacity of the scanner's buffer plays no part.                        *)
Slice(s, lo, hi) == SubSeq(s, lo + 1, hi)
SliceOK(s, lo, hi) == 0 <= lo /\ lo <= hi /\ hi <= Len(s)

(* bytes.IndexByte and bytes.IndexAny: -1 when absent. *)
IndexByte(s, b) == SelectInSeq(s, LAMBDA x : x = b) - 1
IndexAny(s, B)  == SelectInSeq(s, LAMBDA x : x \in B) - 1

(* bytes.TrimLeft(s, " \r\n") and bytes.Trim(s, " \r\n"). *)
TrimLeft(s) ==
    LET i == SelectInSeq(s, LAMBDA x : x \notin Blanks)
    IN  IF i = 0 THEN <<>> ELSE SubSeq(s, i, Len(s))
Trim(s) ==
    LET i == SelectInSeq(s, LAMBDA x : x \notin Blanks)
        j == SelectLastInSeq(s, LAMBDA x : x \notin Blanks)
    IN  IF i = 0 THEN <<>> ELSE SubSeq(s, i, j)

(* strconv.Atoi: an optional sign, then at least one decimal digit, and a *)
(* value that fits in an int; anything else is an error.                  *)
Atoi(s) ==
    LET signed == s # <<>> /\ Head(s) \in {"+", "-"}
        ds     == IF signed THEN Tail(s) ELSE s
        mag    == FoldLeft(LAMBDA acc, d : 10 * acc + DigitVal(d), 0, ds)
        v      == IF signed /\ Head(s) = "-" THEN -mag ELSE mag
    IN  IF ds = <<>> \/ \E i \in 1..Len(ds) : ds[i] \notin Digits
          THEN [err |-> TRUE, val |-> 0]
        ELSE IF v < MinInt \/ v > MaxInt
          THEN [err |-> TRUE, val |-> 0]
        ELSE [err |-> FALSE, val |-> v]

Result(adv, tok) == [adv |-> adv, tok |-> tok, err |-> FALSE, panic |-> FALSE]
More  == Result(0, <<>>)
Fail  == [adv |-> 0, tok |-> <<>>, err |-> TRUE, panic |-> FALSE]
Panic == [adv |-> 0, tok |-> <<>>, err |-> FALSE, panic |-> TRUE]

LFTcpSplit(data) ==
    LET td      == TrimLeft(data)
        trimmed == Len(data) - Len(td)
        lf      == IndexByte(td, LF)
    IN  CASE td = <<>> -> More
          [] lf >= 0   -> Result(trimmed + lf + 1, Trim(Slice(td, 0, lf)))
          [] OTHER     -> More

(* A TcpSplit that waits for one byte more than the frame. *)
TcpSplitWaitExtra(data) ==
    LET td      == TrimLeft(data)
        trimmed == Len(data) - Len(td)
        lf      == IndexByte(td, LF)
        sp      == IndexAny(td, {" ", LF})
        datalen == Atoi(Trim(Slice(td, 0, sp)))
        advance == Wrap(Wrap(Wrap(trimmed + sp) + 1) + datalen.val)
        hi      == Wrap(Wrap(sp + 1) + datalen.val)
    IN  CASE td = <<>>                   -> More
          [] Head(td) = "<" /\ lf >= 0   -> Result(trimmed + lf + 1, Trim(Slice(td, 0, lf)))
          [] Head(td) = "<"              -> More
          [] sp <= 0                     -> More
          [] datalen.err                 -> Fail
          [] Len(data) <= advance        -> More
          [] ~SliceOK(td, sp + 1, hi)    -> Panic
          [] OTHER                       -> Result(advance, Trim(Slice(td, sp + 1, hi)))

(* A frame that starts with '<' ends at LF; any other is octet counted:  *)
(* "LEN SP DATA".                                                        *)
TcpSplit(data) ==
    LET td      == TrimLeft(data)
        trimmed == Len(data) - Len(td)
        lf      == IndexByte(td, LF)
        sp      == IndexAny(td, {" ", LF})
        datalen == Atoi(Trim(Slice(td, 0, sp)))
        advance == Wrap(Wrap(Wrap(trimmed + sp) + 1) + datalen.val)
        hi      == Wrap(Wrap(sp + 1) + datalen.val)
    IN  CASE td = <<>>                   -> More
          [] Head(td) = "<" /\ lf >= 0   -> Result(trimmed + lf + 1, Trim(Slice(td, 0, lf)))
          [] Head(td) = "<"              -> More
          [] sp <= 0                     -> More
          [] datalen.err                 -> Fail
          [] Len(data) < advance         -> More
          [] ~SliceOK(td, sp + 1, hi)    -> Panic
          [] OTHER                       -> Result(advance, Trim(Slice(td, sp + 1, hi)))

(* The split function of a listener's format (HandleConnection's switch). *)
StdFormats == {"rfc5424", "rfc3164", "json", "auto"}
Split(fmt, data) == IF fmt \in StdFormats THEN TcpSplit(data) ELSE LFTcpSplit(data)

(* What bufio.Scanner.Scan makes of a split result on a buffer of n bytes:*)
(* "token" (return true), "skip" (advance and split again), "more" (read *)
(* more, or return false at EOF), "error" (return false: a split error, *)
(* or ErrNegativeAdvance / ErrAdvanceTooFar) or "panic".                  *)
ScanStep(r, n) ==
    CASE r.panic                    -> "panic"
      [] r.err                      -> "error"
      [] r.adv < 0 \/ r.adv > n     -> "error"
      [] r.tok # <<>>               -> "token"
      [] r.adv > 0                  -> "skip"
      [] OTHER                      -> "more"

(* The tokens Scan returns from data, until it needs more bytes. *)
RECURSIVE Tokens(_, _)
Tokens(fmt, data) ==
    LET r == Split(fmt, data)
        rest == SubSeq(data, r.adv + 1, Len(data))
    IN  CASE ScanStep(r, Len(data)) = "token" -> <<r.tok>> \o Tokens(fmt, rest)
          [] ScanStep(r, Len(data)) = "skip"  -> Tokens(fmt, rest)
          [] OTHER                            -> <<>>


-----------------------------------------------------------------------------
(* The reference: the framings of RFC 6587 that the spec's formats use.   *)
(* An octet-counted frame is "LEN SP MSG"; a non-transparent one is MSG   *)
(* LF, and in the standard formats MSG starts with '<' (its PRI).  The    *)
(* messages have no blank at either end, which the scanner trims.         *)
RECURSIVE Decimal(_)
Decimal(n) == IF n < 10 THEN <<DigitOf[n + 1]>>
              ELSE Decimal(n \div 10) \o <<DigitOf[(n % 10) + 1]>>

OctetFrame(m) == Decimal(Len(m)) \o <<" ">> \o m
LFFrame(m)    == m \o <<LF>>

FramesOf(fmt, m) ==
    IF fmt \in StdFormats
      THEN {OctetFrame(m)} \cup (IF Head(m) = "<" /\ LF \notin ToSet(m) THEN {LFFrame(m)} ELSE {})
      ELSE IF LF \notin ToSet(m) THEN {LFFrame(m)} ELSE {}

(* Every way of framing the messages ms one after the other. *)
Framings(fmt, ms) ==
    LET F == [i \in 1..Len(ms) |-> FramesOf(fmt, ms[i])]
    IN  {fs \in [1..Len(ms) -> UNION {F[i] : i \in 1..Len(ms)}] : \A i \in 1..Len(ms) : fs[i] \in F[i]}

(* A stream of up to k framed messages yields exactly those messages, and *)
(* any part of it that has arrived so far yields a prefix of them.        *)
FramingCorrect(fmt, Msgs, k) ==
    \A ms \in BoundedSeq(Msgs, k) : \A fs \in Framings(fmt, ms) :
        LET data == FlattenSeq(fs) IN
        /\ Tokens(fmt, data) = ms
        /\ \A i \in 0..Len(data) : IsPrefix(Tokens(fmt, SubSeq(data, 1, i)), ms)

=============================================================================
