---------------------------- MODULE LogFailures ----------------------------
(***************************************************************************)
(* find_fails and find_exceptions_list of src/tiden/apps/ignite/ignite.py: *)
(* the failures that the log of a node tells of, each with its lines and   *)
(* its time.                                                               *)
(*                                                                         *)
(* The log is read line by line.  A line that starts a failure opens a     *)
(* section, which goes on to a line that ends a stack trace, or to a       *)
(* number of lines; a "Caused by" right after it goes on with the same     *)
(* failure, in place of the last line.  Many failures have no time in      *)
(* their lines: it is looked for in the lines above.                       *)
(***************************************************************************)
EXTENDS Integers, Sequences, FiniteSets, FiniteSetsExt, SequencesExt

CONSTANTS
  MaxLines,   \* bound: the lines of a log
  MaxTrace,   \* max_lines_stack_trace
  MaxUp       \* how many lines above a failure are searched for a time

ASSUME FailuresAssumption == MaxLines \in Nat /\ MaxTrace \in Nat /\ MaxUp \in Nat

\* What the two patterns and the one of the times tell apart.
LineKinds == {"other", "class", "failed", "caused by", "more", "info", "info failed", "warning"}
Starting  == {"class", "failed", "caused by", "info failed"}
Ending    == {"more", "info", "info failed"}
Timed     == {"failed", "info", "info failed", "warning"}

VARIABLES
  text,       \* the lines read so far
  inside,     \* in_exception_section
  afterEnd,   \* after_exception_end_line
  startLine,  \* start_line
  trace,      \* exception_lines, as line numbers
  failures,   \* exception_list, and in the end the times
  scanned     \* whether the file is at its end

failuresVars == <<text, inside, afterEnd, startLine, trace, failures, scanned>>

LineNos == 0 .. MaxLines

FailuresTypeOK ==
  /\ text \in Seq(LineKinds) /\ Len(text) <= MaxLines
  /\ inside \in BOOLEAN /\ afterEnd \in BOOLEAN /\ scanned \in BOOLEAN
  /\ startLine \in LineNos /\ trace \in Seq(LineNos)
  /\ \A k \in DOMAIN failures :
       failures[k].line \in LineNos /\ failures[k].lines \in Seq(LineNos) /\ failures[k].time \in LineNos

FailuresInit ==
  /\ text = << >> /\ trace = << >> /\ failures = << >>
  /\ inside = FALSE /\ afterEnd = FALSE /\ scanned = FALSE
  /\ startLine = 0

-----------------------------------------------------------------------------
ReadsLine(kind) ==
  /\ ~scanned /\ Len(text) < MaxLines
  /\ text' = Append(text, kind)
  /\ UNCHANGED scanned
ThisLine == Len(text) + 1

Flushed == IF trace = << >> THEN failures
           ELSE Append(failures, [line |-> startLine, lines |-> trace, time |-> 0])

\* A line of a section; the last one is kept too.
LineInside(kind) ==
  LET last == kind \in Ending \/ Len(text) - startLine > MaxTrace IN
  /\ inside
  /\ ReadsLine(kind)
  /\ trace' = Append(trace, ThisLine)
  /\ inside' = ~last
  /\ afterEnd' = (last \/ afterEnd)
  /\ UNCHANGED <<startLine, failures>>

\* Any cause belongs to the failure before it.
JoinsAny(kind) == kind = "caused by" /\ trace # << >>

Joins(kind) == kind = "caused by" /\ afterEnd

LineStarts(kind) ==
  /\ ~inside /\ kind \in Starting
  /\ ReadsLine(kind)
  /\ inside' = TRUE /\ afterEnd' = FALSE
  /\ IF Joins(kind)
     THEN /\ trace' = Append(Front(trace), ThisLine)
          /\ UNCHANGED <<startLine, failures>>
     ELSE /\ failures' = Flushed
          /\ startLine' = ThisLine
          /\ trace' = <<ThisLine>>

LineBetween(kind) ==
  /\ ~inside /\ kind \notin Starting
  /\ ReadsLine(kind)
  /\ afterEnd' = FALSE
  /\ UNCHANGED <<inside, startLine, trace, failures>>

\* find_fails: the first time in the lines of a failure, or the nearest one above it.  The
\* search does not stop at the first line: the one before it is body[-1], the last one.
HasTime(i)   == text[i] \in Timed
LineAbove(p) == IF p = 0 THEN Len(text) ELSE p
TimeOf(f) ==
  LET own   == {i \in ToSet(f.lines) : HasTime(i)}
      above == {j \in 1 .. MaxUp : j <= f.line /\ HasTime(LineAbove(f.line - j))}
  IN CASE own # {}   -> Min(own)
       [] own = {} /\ above # {} -> LineAbove(f.line - Min(above))
       [] OTHER      -> 0

EndOfFile ==
  /\ ~scanned
  /\ scanned' = TRUE
  /\ failures' = [k \in DOMAIN Flushed |-> [Flushed[k] EXCEPT !.time = TimeOf(Flushed[k])]]
  /\ UNCHANGED <<text, inside, afterEnd, startLine, trace>>

-----------------------------------------------------------------------------
\* The line is in exactly one failure, or was cut off behind one.
FoundOnce(i) ==
  LET of == {k \in DOMAIN failures : i \in ToSet(failures[k].lines)} IN
  \/ Cardinality(of) = 1
  \/ of = {} /\ \E k \in DOMAIN failures : i - failures[k].line > MaxTrace

Follows(lines, j) ==
  \/ lines[j + 1] = lines[j] + 1 /\ (text[lines[j]] \notin Ending \/ j = 1)
  \/ lines[j + 1] = lines[j] + 2 /\ text[lines[j + 1]] = "caused by"

OwnTimes(f)  == {i \in ToSet(f.lines) : HasTime(i)}
TimesNear(f) == {i \in DOMAIN text : HasTime(i) /\ i < f.line /\ f.line - i <= MaxUp}

\* Every line that tells of a failure is in exactly one of the failures that are found; each
\* of them begins with the line it gives, has lines that follow each other (but for the one a
\* "Caused by" replaced) up to the first that ends it, and has the time of the nearest line,
\* of its own or above, that has one.  An [INFO] line may be lost, and so may a line at which
\* a trace was cut for its length.
FailuresAreFound ==
  scanned =>
    /\ \A i \in DOMAIN text : text[i] \in Starting \ {"info failed"} => FoundOnce(i)
    /\ \A k \in DOMAIN failures :
         LET f == failures[k] IN
         /\ f.lines[1] = f.line /\ text[f.line] \in Starting
         /\ \A j \in 1 .. Len(f.lines) - 1 : Follows(f.lines, j)
         /\ OwnTimes(f) # {} => f.time = Min(OwnTimes(f))
         /\ OwnTimes(f) = {} /\ TimesNear(f) # {} => f.time = Max(TimesNear(f))
=============================================================================
