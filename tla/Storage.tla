------------------------------ MODULE Storage ------------------------------
(***************************************************************************)
(* The storage adapters: what one call of Flush(batch) may leave in the    *)
(* database and return.  tools/code_gen.py writes one Flush for MongoDB    *)
(* and one for ClickHouse; both translate a whole batch and then make the  *)
(* only call that writes, so a Flush is one step with one outcome.         *)
(*                                                                         *)
(* Abstraction: a message is an id and what the decoders make of it:       *)
(*   "good"     a generated event whose body decodes                       *)
(*   "unknown"  an event id no case of the switch has                      *)
(*   "bad"      a generated event whose body does not decode               *)
(*   "tiny"     not even an event id (the listener passes none of these)   *)
(* The databases are external: a call that writes may fail, and after a    *)
(* failure the caller does not know what was written.                      *)
(***************************************************************************)
EXTENDS Integers, Sequences

Kinds == {"good", "unknown", "bad", "tiny"}

\* Ids of the rows made from the first n messages of a batch.
RowsButLast(batch, n) ==  \* mutant
    {batch[i].id : i \in {j \in 1..(n - 1) : batch[j].kind = "good"}}
Rows(batch, n) == {batch[i].id : i \in {j \in 1..n : batch[j].kind = "good"}}
AllRows(batch) == Rows(batch, Len(batch))

Has(batch, kinds) == \E i \in 1..Len(batch) : batch[i].kind \in kinds

Outcome(err, rows) == [err |-> err, rows |-> rows]

\* MongoStorage.Flush: any message that does not decode fails the batch before
\* InsertMany is called; InsertMany inserts in order and stops at an error.
MongoOutcomes(batch) ==
    IF Has(batch, {"bad", "tiny"}) THEN {Outcome(TRUE, {})}
    ELSE IF AllRows(batch) = {} THEN {Outcome(FALSE, {})}
    ELSE {Outcome(FALSE, AllRows(batch))}
            \cup {Outcome(TRUE, Rows(batch, n)) : n \in 0..Len(batch)}

\* ClickHouseStorage.Flush: PrepareBatch may fail; a message without an event
\* id is skipped, a body that does not decode ends the call before Send; a
\* failed Append makes Send fail; a failed Send has written all or nothing.
ClickHouseOutcomes(batch) ==
    {Outcome(TRUE, {})} \cup
    IF Has(batch, {"bad"}) THEN {}
    ELSE {Outcome(err, AllRows(batch)) : err \in BOOLEAN}

Outcomes(backend, batch) ==
    IF backend = "mongo" THEN MongoOutcomes(batch) ELSE ClickHouseOutcomes(batch)
=============================================================================
