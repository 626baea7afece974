--------------------------- MODULE MC_RelpPipeline ---------------------------
(* Model-checking instance of RelpPipeline: Kafka mode, two parsers.      *)
EXTENDS RelpPipeline, RelpSplit

MCParseOk        == {"ok"}
MCParseAll       == {"ok", "error", "empty"}
MCStashOutcomes  == {"ok", "nonfatal"}
MCFilterOutcomes == {"pass", "fail"}

(* The handler's scanner (RelpSplit) cuts any stream of up to two RELP    *)
(* frames, txnrs of one and two digits, data empty, one byte, or holding *)
(* an LF, into exactly their tokens, and every partial stream into a     *)
(* prefix of them while it waits for the rest, never failing or          *)
(* panicking.  It depends on the split function alone and is checked in  *)
(* the initial state.                                                     *)
RelpSplitMatchesFraming ==
    Init => RelpFramingCorrect({1, 12}, {<<"s">>}, {<<>>, <<"a">>, <<"a", LF, "a">>}, 2)
=============================================================================
