----------------------------- MODULE SyslogParse ----------------------------
(***************************************************************************)
(* syslog.Parse: what becomes of the parts of a line.  A line is a record  *)
(* of the parts the expressions look for, each present or absent; times    *)
(* are days, and all years have YearLength of them.                        *)
(***************************************************************************)
EXTENDS Integers, Sequences

CONSTANTS
  YearLength,
  None,        \* an absent part: the "-" of RFC 5424, a nil pointer
  Junk         \* a part that looks like a time and is none

(* rfc5424: the version token is there.  day is the time the line carries, *)
(* of which RFC 3164 tells no year.  elements counts the [...] of the      *)
(* structured data; text says that a message is left.                      *)
Lines(Days) ==
  [pri : {None, 14, 999}, rfc5424 : BOOLEAN, day : {None, Junk} \cup Days,
   host : {None, "host"}, tag : {None, "tag"}, elements : 0..2, text : {None, "text"}]

Timed(line) == line.day \notin {None, Junk}
Facility(line) == IF line.pri = None THEN -1 ELSE line.pri \div 8
Severity(line) == IF line.pri = None THEN -1 ELSE line.pri % 8

YearOf(day) == day \div YearLength

(* Mutant: the year of the receipt, whatever comes of it.                  *)
AnchoredAsIs(day, received) == YearOf(received) * YearLength + (day % YearLength)

(* The day of the year goes into the year of the receipt, and back by one  *)
(* year when that is more than a day ahead.                                *)
Anchored(day, received) ==
  LET t == YearOf(received) * YearLength + (day % YearLength)
  IN  IF t > received + 1 THEN t - YearLength ELSE t

(* The body is what is left of the line, or all of it when nothing is.     *)
Body(rest) == IF rest \subseteq {None} THEN {"line"} ELSE rest \ {None}

(* The structured data ends with its first element: further elements are   *)
(* left in front of the message.                                           *)
AfterFirst(line) == IF line.elements > 1 THEN {"element"} ELSE {}

ParseRFC5424(line) ==
  [facility |-> Facility(line), severity |-> Severity(line),
   time |-> IF Timed(line) THEN line.day ELSE None,
   hostname |-> line.host, tag |-> line.tag,
   body |-> Body({line.text} \cup AfterFirst(line))]

(* Mutant: the first word is taken for the host name without a time, too.  *)
NamedAlways(line) == FALSE

(* Without a time in front, the host name is not looked for: the word      *)
(* stays in the text, and hides a tag behind it.                           *)
Unnamed(line) == line.day = None /\ line.host # None

ParseRFC3164(line, received) ==
  [facility |-> Facility(line), severity |-> Severity(line),
   time |-> IF Timed(line) THEN Anchored(line.day, received) ELSE None,
   hostname |-> IF line.day = None THEN None ELSE line.host,
   tag |-> IF Unnamed(line) THEN None ELSE line.tag,
   body |-> Body(IF Unnamed(line) THEN {line.host, line.tag, line.text} ELSE {line.text})]

Parse(line, received) ==
  IF line.rfc5424 THEN ParseRFC5424(line) ELSE ParseRFC3164(line, received)

-----------------------------------------------------------------------------
(* Properties of an answer m = Parse(line, received).                      *)

(* What names the source or says what happened is in a field of the        *)
(* message, in its body, or the body is the whole line.                    *)
EveryPartKept(line, m) ==
  \/ m.body = {"line"}
  \/ /\ line.host \in {m.hostname} \cup m.body \cup {None}
     /\ line.tag \in {m.tag} \cup m.body \cup {None}
     /\ line.text \in m.body \cup {None}

(* A message less than a year old gets the day it was sent on, across the  *)
(* turn of the year as well; its time is never more than a day ahead.      *)
YearRecovered(line, received, m) ==
  ~line.rfc5424 /\ Timed(line) =>
    /\ m.time <= received + 1
    /\ line.day \in (received - YearLength + 2)..received => m.time = line.day
=============================================================================
