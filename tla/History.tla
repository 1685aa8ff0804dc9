------------------------------ MODULE History -------------------------------
(***************************************************************************)
(* stat::History: amounts by period, of which the last ones are in memory  *)
(* and all are rows of a table.  A period is a number, in the order of     *)
(* time; the row of a period is known by the period's name.  An amount of  *)
(* 0 stands for no entry, and for no row: only positive amounts are added. *)
(***************************************************************************)
EXTENDS Naturals

CONSTANTS Periods,   \* a subset of Nat
          Names,     \* of rows
          NameOf,    \* in [Periods -> Names], the row of each period
          Retention  \* in Nat, the periods before the present one that are kept

\* The periods purge takes out of memory at a given time.
Old(now) == {p \in Periods : p + Retention < now}

\* store_entry, in the order of the periods, for the entries of a set of
\* periods: of two periods with the same name the later one's row remains.
Stored(rows, history, set) ==
  [n \in Names |->
     LET entries == {p \in set : NameOf[p] = n /\ history[p] > 0} IN
     IF entries = {} THEN rows[n]
     ELSE history[CHOOSE p \in entries : \A q \in entries : q <= p]]

\* The entries of a set of periods are erased.
Erased(history, set) == [p \in Periods |-> IF p \in set THEN 0 ELSE history[p]]

Added(history, now, amount) == [history EXCEPT ![now] = @ + amount]

\* Stores and erasures go through the periods in order; the database may refuse
\* one, which leaves those from it on.
Upto(set, end) == {p \in set : p < end}

\* Mutant: the row of the present period is not read.
LoadedPast(rows, now) ==
  [p \in Periods |-> IF p \in Old(now) \/ p >= now THEN 0 ELSE rows[NameOf[p]]]

\* The constructor reads the rows of the periods that are not old.
Loaded(rows, now) ==
  [p \in Periods |-> IF p \in Old(now) \/ p > now THEN 0 ELSE rows[NameOf[p]]]

=============================================================================
