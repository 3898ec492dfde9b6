----------------------------- MODULE StreamSpec -----------------------------
(***************************************************************************)
(* What a QSignalStream promises the coroutine that awaits next() in a     *)
(* loop, with no thread, wake or timer in sight (the class comment,        *)
(* qsignalstream.hpp:53-107): a log of numbered emissions, read in order.  *)
(*   - every emission is read once, unless latestOnly() let a newer one    *)
(*     take its place while it was unread;                                 *)
(*   - the end is reported when everything before it has been read, a stop *)
(*     or the context's destruction at once;                               *)
(*   - a timeout is reported only by a next() whose own timeout has        *)
(*     expired, and only if there is nothing else to report.               *)
(***************************************************************************)
EXTENDS Naturals, Sequences

VARIABLES
  log,         \* the emissions read and to be read
  read,        \* how many of them have been read
  latestOnly,
  timed,       \* does a next() time out?
  over,        \* why the stream is over
  asked,       \* is a next() pending?
  expired,     \* has the timeout of the latest next() expired?
  answer       \* what the last next() came to

source == <<log, latestOnly, timed, over>>
reader == <<read, asked, expired, answer>>
vars == <<source, reader>>

Aborts == {"Stopped", "ContextDestroyed"}

Newest == IF log = <<>> THEN 0 ELSE log[Len(log)]

Init ==
  /\ log = <<>> /\ read = 0
  /\ latestOnly = FALSE /\ timed = FALSE
  /\ over = {}
  /\ asked = FALSE /\ expired = FALSE
  /\ answer = "none"

\* latestOnly() and withTimeout(), before the first next().
Conflate ==
  /\ ~asked /\ answer = "none"
  /\ latestOnly' = TRUE
  /\ log' = IF log = <<>> THEN log ELSE <<Newest>>
  /\ UNCHANGED <<timed, over, reader>>

LimitWaits ==
  /\ ~asked /\ answer = "none"
  /\ timed' = TRUE
  /\ UNCHANGED <<log, latestOnly, over, reader>>

Send ==
  /\ over = {}
  /\ log' = Append(IF latestOnly THEN SubSeq(log, 1, read) ELSE log, Newest + 1)
  /\ UNCHANGED <<latestOnly, timed, over, reader>>

Finish ==
  /\ \E why \in Aborts \cup {"end"} : over' = over \cup {why}
  /\ UNCHANGED <<log, latestOnly, timed, reader>>

Ask ==
  /\ ~asked
  /\ asked' = TRUE /\ expired' = FALSE
  /\ UNCHANGED <<source, read, answer>>

Expire ==
  /\ asked /\ timed
  /\ expired' = TRUE
  /\ UNCHANGED <<source, read, asked, answer>>

Answer ==
  /\ asked /\ asked' = FALSE
  /\ \/ /\ over \cap Aborts # {}
        /\ answer' = IF "Stopped" \in over THEN "Stopped" ELSE "ContextDestroyed"
        /\ UNCHANGED read
     \/ /\ over \cap Aborts = {} /\ read < Len(log)
        /\ answer' = "value" /\ read' = read + 1
     \/ /\ over = {"end"} /\ read = Len(log)
        /\ answer' = "end" /\ UNCHANGED read
     \/ /\ over = {} /\ read = Len(log) /\ expired
        /\ answer' = "Timeout" /\ UNCHANGED read
  /\ UNCHANGED <<source, expired>>

\* The awaiting frame is destroyed.
Leave ==
  /\ asked /\ asked' = FALSE
  /\ UNCHANGED <<source, read, expired, answer>>

Next ==
  \/ Conflate \/ LimitWaits \/ Send \/ Finish
  \/ Ask \/ Expire \/ Answer \/ Leave

Spec == Init /\ [][Next]_vars

=============================================================================
