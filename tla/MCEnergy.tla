------------------------------ MODULE MCEnergy ------------------------------
(***************************************************************************)
(* Instances of Energy for TLC: days of two quarters of an hour.           *)
(***************************************************************************)
EXTENDS Energy

PairsOfQuarters == [q \in 0..MaxTime |-> q \div 2]
OwnDates == [d \in {PairsOfQuarters[q] : q \in 0..MaxTime} |-> d]

\* A day on which daylight saving time ends or begins is two periods (Date() has
\* the tm_isdst of the moment) with one name: here days 0 and 1, in order.
SameDate == [d \in {PairsOfQuarters[q] : q \in 0..MaxTime} |-> IF d = 0 THEN 1 ELSE d]

=============================================================================
