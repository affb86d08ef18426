------------------------------- MODULE JobBuf -------------------------------
(***************************************************************************)
(* The layout of a message in its buffer (job_buf.h, job_buf.cpp) and what *)
(* the handlers write there.  A byte is not a value here but the number of *)
(* the message it comes from: what matters is whether a handler reads the  *)
(* message it was given or what an earlier user of the buffer left behind. *)
(***************************************************************************)
EXTENDS Integers

Fields == {"OP", "OP_ID", "TXN", "ACK", "TBL", "TP_KEY", "TUPLE"}

Offset == [OP |-> 0, OP_ID |-> 1, TXN |-> 2, ACK |-> 6,
           TBL |-> 7, TP_KEY |-> 8, TUPLE |-> 9]

\* The tuple is a name of 32 bytes, an age and a checksum.
Width == [OP |-> 1, OP_ID |-> 1, TXN |-> 4, ACK |-> 1,
          TBL |-> 1, TP_KEY |-> 1, TUPLE |-> 37]

\* IMAGE is the StudentTuple object that ADD and UPDATE copy over the start of
\* the buffer; it overlaps all the fields.
Parts == Fields \cup {"IMAGE"}

Fresh == 0    \* bytes nobody has written
Mixed == -1   \* bytes of more than one writer

FreshBuffer == [p \in Parts |-> Fresh]

-----------------------------------------------------------------------------
(* Reading: a field can be read when it ends within the message. *)

parse_field(f, size) == Offset[f] + Width[f] <= size

OpTypes == {"START_TXN", "ADD_TUPLE", "SHARED_READ", "EXCLUSIVE_READ",
            "YIELD_READ", "PROMOTE", "UPDATE", "DELETE", "COMMIT_TXN",
            "ABORT_TXN"}

get_op(d) == parse_field("OP", d.size) /\ d.op \in OpTypes

get_op_id(d) == parse_field("OP_ID", d.size)

get_txn(d) == parse_field("TXN", d.size)

get_tbl(d) == parse_field("TBL", d.size)

get_key(d) == parse_field("TP_KEY", d.size)

-----------------------------------------------------------------------------
(* Writing *)

\* recvfrom writes as many bytes as the message has and leaves the others.
received(buf, m, size) ==
    [p \in Parts |->
       IF p = "IMAGE" THEN Mixed
       ELSE IF parse_field(p, size) THEN m
       ELSE IF Offset[p] < size THEN Mixed
       ELSE buf[p]]

\* set_field writes a field, inside the message or not.
set_field(buf, f, m) == [buf EXCEPT ![f] = m, !.IMAGE = Mixed]

set_ack(buf, m) == set_field(buf, "ACK", m)

set_txn(buf, m) == set_field(buf, "TXN", m)

\* A row is sent back: its key is set and it is serialized.
serialized(buf, m) == set_field(set_field(buf, "TP_KEY", m), "TUPLE", m)

\* The tuple is deserialized, whatever the size of the message, and the object
\* copied to the start of the buffer.
set_image(buf) ==
    [p \in Parts |-> IF p = "IMAGE" THEN buf.TUPLE ELSE Mixed]

-----------------------------------------------------------------------------
(* Replies *)

\* The size up to and including the ack, sent by most handlers
AckSize == 7

\* The size of a reply with a row
RowSize == Offset.TUPLE + Width.TUPLE

\* What a client needs to make sense of a reply
Header == {"OP", "OP_ID", "TXN", "ACK"}

\* The datagram sent from buffer buf in answer to message m
Reply(buf, m, asked, ack, size) ==
    [msg |-> m, asked |-> asked, ack |-> ack, size |-> size,
     from |-> {set_ack(buf, m)[f] : f \in Header}]

\* It tells the client which of its requests is answered, and how.
Readable(r) ==
    r.from = {r.msg} /\ \A f \in Header : parse_field(f, r.size)
=============================================================================
