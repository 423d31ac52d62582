------------------------------ MODULE EventLog ------------------------------
(***************************************************************************)
(* What the ingester promises: an accepted event is settled at most once,  *)
(* and in the step that settles it, it gets its one row or none.           *)
(* No event gets a row before it is accepted, a second row, or a row after *)
(* it was given up.                                                        *)
(***************************************************************************)
EXTENDS Integers

CONSTANT MaxMsgs   \* bound: events accepted

Ids == 1..MaxMsgs

VARIABLES
    accepted,   \* number of events accepted so far
    settled,    \* ids whose fate is decided
    rows        \* rows in the database for each id

logVars == <<accepted, settled, rows>>

LogInit ==
    /\ accepted = 0
    /\ settled = {}
    /\ rows = [id \in Ids |-> 0]

Accept ==
    /\ accepted < MaxMsgs
    /\ accepted' = accepted + 1
    /\ UNCHANGED <<settled, rows>>

\* The events of S are settled, those of R with a row.
Settle ==
    \E S \in SUBSET (1..accepted \ settled) : \E R \in SUBSET S :
        /\ settled' = settled \cup S
        /\ rows' = [id \in Ids |-> IF id \in R THEN 1 ELSE rows[id]]
        /\ UNCHANGED accepted

LogSpec == LogInit /\ [][Accept \/ Settle]_logVars
=============================================================================
