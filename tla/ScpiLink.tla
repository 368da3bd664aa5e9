------------------------------ MODULE ScpiLink ------------------------------
(***************************************************************************)
(* The replies of one device as the USB transport reads them from the      *)
(* port's byte stream: text up to a delimiter, or a block that gives its   *)
(* own length and may contain any byte.  A read that times out has         *)
(* consumed what had come, and what comes later stays in the stream.       *)
(* Device (external): it answers every query once, sometimes slowly.       *)
(***************************************************************************)
EXTENDS Integers, Sequences, SequencesExt

CONSTANTS Replies,      \* what the device may answer, as sequences of bytes
          Threshold,    \* timeoutDisconnectThreshold
          MaxSends

VARIABLES connected, timeouts,
          pipe,         \* bytes that have come and are not read
          coming,       \* bytes the device has still to send
          intact,       \* no read has ended in the middle since the port was opened
          last,         \* the last exchange: what the device answered, what was delivered
          sends
vars == <<connected, timeouts, pipe, coming, intact, last, sends>>

Delimiter == 10                         \* "\n"
Hash == 35                              \* "#"
Digit == 48..57
ValueOf(b) == b - 48

(* deserialize: how many bytes the reply at the front takes.  TimedOut: it *)
(* is not all there; Invalid: a block header that cannot be read.          *)
TimedOut == -1
Invalid == -2
TextLength(q) == LET ends == {i \in DOMAIN q : q[i] = Delimiter} IN
                 IF ends = {} THEN TimedOut ELSE CHOOSE i \in ends : \A j \in ends : i <= j
ParsePayloadLength(digits) == FoldLeft(LAMBDA n, b : 10 * n + ValueOf(b), 0, digits)
BlockUpToDelimiter(q) == TextLength(q)  \* mutant: a block is read like text
BlockLength(q) ==
  IF Len(q) < 2 THEN TimedOut
  ELSE IF q[2] \notin Digit \ {48} THEN Invalid
  ELSE IF Len(q) < 2 + ValueOf(q[2]) THEN TimedOut
  ELSE LET digits == SubSeq(q, 3, 2 + ValueOf(q[2])) IN
       IF \E i \in DOMAIN digits : digits[i] \notin Digit THEN Invalid
       ELSE LET all == 2 + Len(digits) + ParsePayloadLength(digits) IN
            IF Len(q) < all THEN TimedOut ELSE all
Deserialize(q) == IF q = <<>> THEN TimedOut ELSE IF q[1] = Hash THEN BlockLength(q) ELSE TextLength(q)

-----------------------------------------------------------------------------
Close == connected' = FALSE /\ timeouts' = 0 /\ pipe' = <<>>
Connect ==
  /\ ~connected /\ connected' = TRUE /\ timeouts' = 0
  /\ \E n \in 0..Len(coming) : coming' = SubSeq(coming, n + 1, Len(coming))    \* the rest came while it was closed
  /\ pipe' = <<>> /\ intact' = (coming' = <<>>)
  /\ UNCHANGED <<last, sends>>
ConnectAgain == connected /\ timeouts' = 0 /\ UNCHANGED <<connected, pipe, coming, intact, last, sends>>
Disconnect == connected /\ Close /\ intact' = FALSE /\ UNCHANGED <<coming, last, sends>>

RecordTimeout(before) ==
  /\ IF before + 1 >= Threshold THEN Close
     ELSE timeouts' = before + 1 /\ pipe' = <<>> /\ UNCHANGED connected
  /\ intact' = FALSE /\ UNCHANGED last
Delivered(q, n, answered) ==
  /\ pipe' = SubSeq(q, n + 1, Len(q)) /\ timeouts' = 0
  /\ last' = [answered |-> answered, delivered |-> SubSeq(q, 1, n), intact |-> intact]
  /\ UNCHANGED <<connected, intact>>
Lost == Close /\ intact' = FALSE /\ UNCHANGED last

(* send: a query, of whose reply a part, and what was due before it, comes *)
(* before the read gives up.  A reply that is complete is taken at once.   *)
Query(r) ==
  /\ connected /\ sends < MaxSends /\ sends' = sends + 1
  /\ \E n \in 0..Len(coming \o r) :
       LET due == coming \o r
           q == pipe \o SubSeq(due, 1, n)
           end == Deserialize(q)
       IN /\ coming' = SubSeq(due, n + 1, Len(due))
          /\ IF end = TimedOut THEN RecordTimeout(timeouts)
             ELSE IF end = Invalid THEN Lost ELSE Delivered(q, end, r)

(* A command is not answered; what is in the stream by then is read and    *)
(* reported as its error.                                                  *)
ReadUnexpectedWriteResponse ==
  /\ connected /\ sends < MaxSends /\ sends' = sends + 1
  /\ \E n \in 0..Len(coming) :
       LET q == pipe \o SubSeq(coming, 1, n)
           end == Deserialize(q)
       IN /\ coming' = SubSeq(coming, n + 1, Len(coming))
          /\ IF q = <<>> THEN timeouts' = 0 /\ UNCHANGED <<connected, pipe, intact, last>>
             ELSE IF end = TimedOut THEN RecordTimeout(0)
             ELSE IF end = Invalid THEN Lost
             ELSE pipe' = SubSeq(q, end + 1, Len(q)) /\ timeouts' = 0 /\ UNCHANGED <<connected, intact, last>>

Init ==
  /\ connected = FALSE /\ timeouts = 0 /\ pipe = <<>> /\ coming = <<>> /\ intact = TRUE /\ sends = 0
  /\ last = [answered |-> <<>>, delivered |-> <<>>, intact |-> TRUE]
Next == Connect \/ ConnectAgain \/ Disconnect \/ (\E r \in Replies : Query(r)) \/ ReadUnexpectedWriteResponse
Spec == Init /\ [][Next]_vars

-----------------------------------------------------------------------------
(* While no read has timed out since the port was opened, and nothing late *)
(* was still on its way then, every query is given exactly its own reply,  *)
(* whatever bytes a block contains; and timeouts in a row close the port   *)
(* at the threshold.                                                       *)
RepliesAreOwn ==
  /\ last.intact => last.delivered = last.answered
  /\ intact => pipe = <<>> /\ coming = <<>>
  /\ timeouts < Threshold /\ (timeouts > 0 => connected)
=============================================================================
