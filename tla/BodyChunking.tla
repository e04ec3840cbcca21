----------------------------- MODULE BodyChunking -----------------------------
(***************************************************************************)
(* chunk_body_data (util.py): how a body is cut into Kinesis records.  A   *)
(* body is its length, a chunk the bytes from offset "from", "size" of     *)
(* them.                                                                   *)
(***************************************************************************)
EXTENDS Integers, Sequences

CONSTANT MaxRecordSize   \* config.kinesis.max_record_size (ge=1000)

ASSUME RecordAssumption == MaxRecordSize \in Nat /\ MaxRecordSize >= 1000

mutated_safe_raw_chunk_size == ((MaxRecordSize - 100) * 3) \div 4

(* The largest multiple of 3 bytes whose base64 form leaves 100 bytes for  *)
(* the rest of the record.                                                 *)
safe_raw_chunk_size == ((MaxRecordSize - 100) \div 4) * 3

(* len(base64.b64encode(b)) for n bytes b.                                 *)
b64len(n) == ((n + 2) \div 3) * 4

(* range(0, n, safe_raw_chunk_size), each offset with its slice.           *)
chunk_body_data(n) ==
    LET step == safe_raw_chunk_size
    IN  [k \in 1 .. ((n + step - 1) \div step) |->
            [from |-> (k - 1) * step,
             size |-> IF n - (k - 1) * step < step THEN n - (k - 1) * step
                                                   ELSE step]]

(* A body endpoint publishes one empty chunk for an empty body.            *)
body_chunks(n) ==
    IF n = 0 THEN <<[from |-> 0, size |-> 0]>> ELSE chunk_body_data(n)
=============================================================================
