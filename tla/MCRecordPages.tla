---------------------------- MODULE MCRecordPages ----------------------------
(* Stores of four records: plain, packed, packed but opened without its       *)
(* dictionary, and one whose record is over the size cap.                     *)
EXTENDS RecordPages

CONSTANTS One, Other, c1, c2

Recs == << <<1, 1, 1, 2>>, << >>, <<3, 4>>, <<5, 5>> >>
MCBuilt == { [recs |-> Recs, dict |-> NoDict, with |-> NoDict],
             [recs |-> Recs, dict |-> One, with |-> One],
             [recs |-> Recs, dict |-> One, with |-> NoDict],
             [recs |-> Recs, dict |-> One, with |-> Other],
             [recs |-> << <<7, 7, 7, 7, 7, 7>>, <<8>> >>, dict |-> One, with |-> One] }
MCPages == { <<0, 1, 2, 3>>, <<3, 0, 9>>, <<2, 2, 1>>, << >>, <<1, 3>> }

==============================================================================
