--------------------------- MODULE TimespanHistory ---------------------------
(***************************************************************************)
(* datetime::TimespanHistory: the spans of time in which a device was on.  *)
(* A span is open, with an end of 0, until the device is clocked out.      *)
(* Clocking in or out at the wrong moment is logged and has no effect.     *)
(***************************************************************************)
EXTENDS Naturals, Sequences, SequencesExt

CONSTANTS Retention   \* core.history.maxdays: what is kept, and read at a start

Open(history) == history # <<>> /\ Last(history).to = 0

\* Neither while a span is open nor before the end of the last one.
ClockedIn(history, ts) ==
  IF Open(history) \/ (history # <<>> /\ Last(history).to > ts)
  THEN history
  ELSE Append(history, [from |-> ts, to |-> 0])

\* The spans that ended too long ago are forgotten.
Purged(history, now) ==
  LET kept[i \in 0..Len(history)] ==
        IF i = 0 THEN <<>>
        ELSE IF now <= history[i].to + Retention THEN Append(kept[i - 1], history[i])
        ELSE kept[i - 1]
  IN kept[Len(history)]

\* Only while a span is open, and not before its beginning.
ClockedOut(history, ts, now) ==
  IF ~ Open(history) \/ Last(history).from > ts
  THEN history
  ELSE Purged([history EXCEPT ![Len(history)].to = ts], now)

\* The seconds of the last n that the spans cover: GetTotalForLast is their
\* number, as spans do not overlap.
CoveredForLast(history, n, now) ==
  {t \in 0..(now - 1) :
     /\ t + n >= now
     /\ \E i \in DOMAIN history :
          t >= history[i].from /\ (history[i].to = 0 \/ t < history[i].to)}

\* What a row of t_log_state, [at, on], adds to what was read before it.  (The rows
\* before the first "on" are skipped: an "off" would end nothing.)
WithRow(history, row, now) ==
  CASE now > row.at + Retention -> history
    [] now <= row.at + Retention /\ row.on -> ClockedIn(history, row.at)
    [] now <= row.at + Retention /\ ~ row.on -> ClockedOut(history, row.at, now)

\* What a start makes of the rows, by date; those of one date, whose order the query
\* leaves open, as they were inserted.
Reloaded(rows, now) ==
  LET read[i \in 0..Len(rows)] ==
        IF i = 0 THEN <<>> ELSE WithRow(read[i - 1], rows[i], now)
  IN read[Len(rows)]

=============================================================================
