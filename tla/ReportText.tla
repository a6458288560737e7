------------------------------ MODULE ReportText ------------------------------
(***************************************************************************)
(* The way of an alert's text from the daemon to the server's database:     *)
(* logmsg() and ac_json_escape() in src/src/anticheat_daemon.c cut it to    *)
(* the size of their buffers and escape it byte by byte; the server decodes *)
(* the body with errors="replace" (_read_json_body() in                     *)
(* src/server/ac_server.py) and parses it.  The text holds names of         *)
(* processes and files, so any character may be in it.                      *)
(*                                                                          *)
(* A character is one byte, or two if it is "wide".  "ctl" stands for the   *)
(* control characters without an escape of their own, "nl" for those that   *)
(* have one, "bad" for bytes that are no character.                         *)
(***************************************************************************)
EXTENDS Integers, Sequences

CONSTANTS
    LOG_LEN,        \* sizeof(buf) in logmsg()
    ESC_LEN,        \* sizeof(detail_esc) in ac_report()
    MaxText         \* bound on the length of the text

ASSUME TextAssumption == LOG_LEN \in Nat \ {0} /\ ESC_LEN \in Nat \ {0} /\ MaxText \in Nat

VARIABLES
    text,           \* what is to be reported, a sequence of characters
    in,             \* bytes that are left to be escaped
    o, out,         \* ac_json_escape(): the index and what it has written
    stage,          \* "log", "escape", "parse", "stored" or "refused"
    stored          \* what the server has parsed, a sequence of characters

textVars == <<text, in, o, out, stage, stored>>

Char == {"plain", "quote", "nl", "ctl", "wide", "bad"}
Texts == UNION {[1 .. n -> Char] : n \in 0 .. MaxText}

\* The bytes of a text: a wide character is the two bytes "w1" and "w2".
Bytes(s) ==
    LET end[k \in 0 .. Len(s)] == IF k = 0 THEN 0 ELSE end[k - 1] + IF s[k] = "wide" THEN 2 ELSE 1
        CharAt(j) == CHOOSE k \in 1 .. Len(s) : end[k - 1] < j /\ j <= end[k]
    IN  [j \in 1 .. end[Len(s)] |->
            CASE s[CharAt(j)] # "wide" -> s[CharAt(j)]
              [] j = end[CharAt(j)] -> "w2"
              [] OTHER -> "w1"]

Cut(s, n) == SubSeq(s, 1, IF Len(s) < n THEN Len(s) ELSE n)

\* What is written for a byte
Escaped(b) ==
    CASE b = "quote" -> <<"\\", "quote">>
      [] b = "nl" -> <<"\\", "n">>
      [] b = "ctl" -> <<"\\", "u", "h", "h", "h", "h">>
      [] OTHER -> <<b>>

-----------------------------------------------------------------------------
\* vsnprintf() into buf
Log ==
    /\ stage = "log"
    /\ in' = Cut(Bytes(text), LOG_LEN - 1)
    /\ stage' = "escape"
    /\ UNCHANGED <<text, o, out, stored>>

RoomForPair == o + 2 < ESC_LEN   \* variant: room for the short escapes only

\* The condition of the loop
RoomForEscape == o + 7 < ESC_LEN

\* One turn of the loop.  snprintf() writes no more than there is room for and
\* returns what it would have written.
Escape ==
    /\ stage = "escape" /\ in # <<>> /\ RoomForEscape
    /\ LET w == Escaped(Head(in))
       IN  /\ o' = o + Len(w)
           /\ out' = out \o (IF Head(in) = "ctl" THEN Cut(w, ESC_LEN - o - 1) ELSE w)
    /\ in' = Tail(in)
    /\ UNCHANGED <<text, stage, stored>>

SendReport ==
    /\ stage = "escape" /\ (in = <<>> \/ ~RoomForEscape)
    /\ stage' = "parse"
    /\ UNCHANGED <<text, in, o, out, stored>>

-----------------------------------------------------------------------------
(* The server: UTF-8 with replacement, then the string of json.loads().       *)
Starts(w) == Cut(out, Len(w)) = w

\* What stands for a character in the string, and the character
Decoded ==
    {<<Escaped(c), c>> : c \in {"plain", "quote", "nl", "ctl"}}
        \cup {<<<<"w1", "w2">>, "wide">>, <<<<"bad">>, "replaced">>}
        \cup (IF Starts(<<"w1", "w2">>) THEN {} ELSE {<<<<"w1">>, "replaced">>})
Readings == {r \in Decoded : Starts(r[1])}

Parse ==
    /\ stage = "parse"
    /\ \E r \in Readings : /\ out' = SubSeq(out, Len(r[1]) + 1, Len(out))
                           /\ stored' = Append(stored, r[2])
    /\ UNCHANGED <<text, in, o, stage>>

\* The rest is no JSON, or there is none.
ParseEnds ==
    /\ stage = "parse" /\ Readings = {}
    /\ stage' = IF out = <<>> THEN "stored" ELSE "refused"
    /\ UNCHANGED <<text, in, o, out, stored>>

-----------------------------------------------------------------------------
TextInit ==
    /\ text \in Texts
    /\ in = <<>> /\ o = 0 /\ out = <<>> /\ stage = "log" /\ stored = <<>>

TextNext == Log \/ Escape \/ SendReport \/ Parse \/ ParseEnds

TextSpec == TextInit /\ [][TextNext]_textVars

-----------------------------------------------------------------------------
\* Every variable keeps its type.
TextTypeOK ==
    /\ text \in Texts /\ o \in Nat
    /\ stage \in {"log", "escape", "parse", "stored", "refused"}
    /\ stored \in Seq(Char \cup {"replaced"})

\* ac_json_escape() never writes past the end of its buffer, the final '\0' included.
WithinBuffer == o \in Nat /\ o < ESC_LEN

Legible(c) == IF c = "bad" THEN "replaced" ELSE c

\* Whatever the text is, ac_json_escape() keeps within its buffer, the server does
\* not refuse the report, and what it stores are the characters of the text, in order,
\* up to where a buffer was full.  Only a character that was cut in two is replaced,
\* and nothing is cut that fits.
TextArrives ==
    /\ TextTypeOK
    /\ WithinBuffer
    /\ stage # "refused"
    /\ stage = "stored" =>
         /\ Len(stored) <= Len(text)
         /\ \A j \in 1 .. Len(stored) :
              \/ stored[j] = Legible(text[j])
              \/ j = Len(stored) /\ stored[j] = "replaced" /\ text[j] = "wide"
         /\ \/ stored = [j \in DOMAIN text |-> Legible(text[j])]
            \/ Len(Bytes(text)) > LOG_LEN - 1
            \/ ~RoomForEscape
=============================================================================
