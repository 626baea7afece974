---------------------------- MODULE MC_NetService ----------------------------
EXTENDS NetService

CONSTANTS c1, c2

MCConns == {c1, c2}

(* Messages of the reference framing check: a plain one, one with its    *)
(* PRI, and two with a blank and an LF inside.                           *)
MCRefMsgs == {<<"a">>, <<"<", "a">>, <<"a", " ", "b">>, <<"a", LF, "b">>}

(* A line-framed client: one LF-terminated message fits in two bytes. *)
MCBytes == {"a", LF}

(* An octet-counting client that may send a sign before the length. *)
MCSignedBytes == {"-", "1", " "}
=============================================================================
