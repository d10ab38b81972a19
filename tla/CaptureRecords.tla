---------------------------- MODULE CaptureRecords ----------------------------
(***************************************************************************)
(* The record buffer of advanced_debug.py.  The capture task cuts the bytes *)
(* it reads, in chunks of any length, into records at CR and LF; a line     *)
(* that grows too long is flushed; records live in a ring that services     *)
(* export and clear between any two chunks.  The connection, the lock and   *)
(* the restoration are AdvancedDebug's.                                     *)
(*                                                                         *)
(* Bytes are the text bytes Texts and the two line ends.  Timestamps, the   *)
(* kind and the sanitizing of a record are left out.                        *)
(***************************************************************************)
EXTENDS LogExports, FiniteSets

CONSTANTS
  Texts,         \* bytes of text
  MessageLimit,  \* option: length of the ring
  MaxLine,       \* MAX_LINE_CHARS
  MaxPending,    \* MAX_PENDING_BYTES
  MaxChunk,      \* the 1024 bytes of one read
  MaxBytes       \* bound: bytes that arrive at all

Ends  == {"cr", "lf"}
Bytes == Texts \cup Ends

ASSUME BufferAssumption ==
  /\ {MessageLimit, MaxLine, MaxPending, MaxChunk} \subseteq Nat \ {0}
  /\ MaxLine <= MaxPending /\ MaxBytes \in Nat
ASSUME ByteAssumption == Texts \cap Ends = {}

VARIABLES
  capturing,  \* the capture task runs
  pending,    \* its bytes without a line end yet
  records,    \* _records
  received,   \* _received_total
  discarded,  \* _discarded_total
  stream,     \* history: the bytes of this capture
  torn,       \* history: lengths of the stream at which pending was flushed
  log,        \* history: every record ever appended
  first,      \* history: length of the log when this capture began
  mark,       \* history: length of the log at the last clear
  arrived     \* history: number of bytes of all captures

ring    == <<records, received, discarded>>
history == <<stream, torn, log, first, mark, arrived>>
vars    == <<capturing, pending, ring, history>>

Init ==
  /\ capturing = FALSE /\ pending = <<>>
  /\ records = <<>> /\ received = 0 /\ discarded = 0
  /\ stream = <<>> /\ torn = {} /\ log = <<>> /\ first = 0 /\ mark = 0 /\ arrived = 0

-----------------------------------------------------------------------------
IsEnd(b)  == b \in Ends
IsText(b) == b \in Texts

\* Seeded fault: the line end is taken off, but not those that follow it, and an
\* empty line is a record.
consume_empty[p \in Seq(Bytes)] ==
  LET end == SelectInSeq(p, IsEnd) IN
    IF end = 0
    THEN [lines |-> <<>>, rest |-> p]
    ELSE LET later == consume_empty[SubSeq(p, end + 1, Len(p))] IN
           [lines |-> <<SubSeq(p, 1, end - 1)>> \o later.lines, rest |-> later.rest]

\* Seeded fault: the byte-wise cut that keeps empty lines.
_consume_lines_empty(p) == consume_empty[p]

\* One turn of the loop: the text up to the first line end is a line unless it is
\* empty, and the line ends that follow at once go with it.
consume[p \in Seq(Bytes)] ==
  LET end == SelectInSeq(p, IsEnd) IN
    IF end = 0
    THEN [lines |-> <<>>, rest |-> p]
    ELSE LET after == SubSeq(p, end, Len(p))
             text  == SelectInSeq(after, IsText)
             later == consume[IF text = 0 THEN <<>> ELSE SubSeq(after, text, Len(after))]
             raw   == SubSeq(p, 1, end - 1)
         IN [lines |-> IF raw = <<>> THEN later.lines ELSE <<raw>> \o later.lines,
             rest  |-> later.rest]

_consume_lines(p) == consume[p]

\* Seeded fault: a long record is marked, but not cut.
RecordUncut(raw, truncated) == [text |-> raw, truncated |-> truncated]

Record(raw, truncated) ==
  [text |-> SubSeq(raw, 1, IF Len(raw) < MaxLine THEN Len(raw) ELSE MaxLine),
   truncated |-> truncated]

\* A complete line, or what is pending when the capture ends.
LineRecord(raw) == Record(raw, Len(raw) > MaxLine)

\* Seeded fault: a ring that has just become full counts a discarded record.
_append_records_early(new) ==
  LET all == records \o new IN
    /\ records' = Newest(all, MessageLimit)
    /\ received' = received + Len(new)
    /\ discarded' = discarded + (IF Len(all) >= MessageLimit
                                 THEN Len(all) - MessageLimit + 1 ELSE 0)
    /\ log' = log \o new

\* _append_record for each of the new records: the deque drops its oldest.
_append_records(new) ==
  LET all == records \o new IN
    /\ records' = Newest(all, MessageLimit)
    /\ received' = received + Len(new)
    /\ discarded' = discarded + (IF Len(all) > MessageLimit
                                 THEN Len(all) - MessageLimit ELSE 0)
    /\ log' = log \o new

-----------------------------------------------------------------------------
Chunks == UNION {[1..n -> Bytes] : n \in 1..MaxChunk}

\* The task of a new capture starts with nothing pending; the ring stays.
BeginCapture ==
  /\ ~capturing
  /\ capturing' = TRUE /\ pending' = <<>>
  /\ stream' = <<>> /\ torn' = {} /\ first' = Len(log)
  /\ UNCHANGED <<ring, log, mark, arrived>>

\* Seeded fault: the length is looked at before the lines are taken out.
ReadChunkFlushFirst ==
  /\ capturing
  /\ \E chunk \in Chunks :
       LET all == pending \o chunk IN
         /\ arrived + Len(chunk) <= MaxBytes
         /\ arrived' = arrived + Len(chunk) /\ stream' = stream \o chunk
         /\ IF Len(all) > MaxPending
            THEN /\ _append_records(<<Record(all, TRUE)>>)
                 /\ pending' = <<>> /\ torn' = torn \cup {Len(stream')}
            ELSE LET cut == _consume_lines(all) IN
                   /\ _append_records([i \in DOMAIN cut.lines |-> LineRecord(cut.lines[i])])
                   /\ pending' = cut.rest /\ UNCHANGED torn
  /\ UNCHANGED <<capturing, first, mark>>

\* One read: its lines become records, and a rest that is too long is flushed.
ReadChunk ==
  /\ capturing
  /\ \E chunk \in Chunks :
       LET cut   == _consume_lines(pending \o chunk)
           lines == [i \in DOMAIN cut.lines |-> LineRecord(cut.lines[i])]
       IN
         /\ arrived + Len(chunk) <= MaxBytes
         /\ arrived' = arrived + Len(chunk) /\ stream' = stream \o chunk
         /\ IF Len(cut.rest) > MaxPending
            THEN /\ _append_records(Append(lines, Record(cut.rest, TRUE)))
                 /\ pending' = <<>> /\ torn' = torn \cup {Len(stream')}
            ELSE /\ _append_records(lines)
                 /\ pending' = cut.rest /\ UNCHANGED torn
  /\ UNCHANGED <<capturing, first, mark>>

\* The finally clause, however the capture ended.
EndCapture ==
  /\ capturing
  /\ capturing' = FALSE
  /\ pending' = <<>>
  /\ IF pending = <<>>
     THEN UNCHANGED <<ring, log>>
     ELSE _append_records(<<LineRecord(pending)>>)
  /\ UNCHANGED <<stream, torn, first, mark, arrived>>

\* clear empties the ring; the totals stay.
Clear ==
  /\ records' = <<>>
  /\ mark' = Len(log)
  /\ UNCHANGED <<capturing, pending, received, discarded, stream, torn, log, first,
                 arrived>>

Next == BeginCapture \/ ReadChunk \/ EndCapture \/ Clear

Spec == Init /\ [][Next]_vars

-----------------------------------------------------------------------------
(* A reference definition of the records of a capture, from the positions of *)
(* its stream instead of a loop over chunks.                                 *)

\* Positions at which a line, or the rest of a torn line, begins.
Starts == {i \in DOMAIN stream :
  IsText(stream[i]) /\ (i = 1 \/ (i - 1) \in torn \/ IsEnd(stream[i - 1]))}

\* The last position of the piece that begins at i, of those that are complete.
Stops(i) == {j \in i..Len(stream) :
  /\ \A k \in i..j : IsText(stream[k])
  /\ j \in torn \/ (j < Len(stream) /\ IsEnd(stream[j + 1]))}

Stop(i) == CHOOSE j \in Stops(i) : \A k \in Stops(i) : j <= k

Piece(i) ==
  Record(SubSeq(stream, i, Stop(i)), Stop(i) \in torn \/ Stop(i) - i + 1 > MaxLine)

\* The complete pieces in their order: the n-th has n - 1 before it.
Complete ==
  LET S == {i \in Starts : Stops(i) # {}} IN
    [n \in 1..Cardinality(S) |-> CHOOSE i \in S : Cardinality({k \in S : k <= i}) = n]

\* What follows the last complete piece.
OpenStarts == {i \in Starts : Stops(i) = {}}
Rest == IF OpenStarts = {} THEN <<>>
        ELSE SubSeq(stream, CHOOSE i \in OpenStarts : TRUE, Len(stream))

Reference ==
  [n \in DOMAIN Complete |-> Piece(Complete[n])]
    \o (IF capturing \/ Rest = <<>> THEN <<>> ELSE <<LineRecord(Rest)>>)

-----------------------------------------------------------------------------
(* Properties.                                                              *)

Records == [text : UNION {[1..n -> Texts] : n \in 1..MaxLine}, truncated : BOOLEAN]

\* Every variable keeps its type; in particular no record is empty or longer than
\* a line, and the ring has its length at most.
TypeOK ==
  /\ capturing \in BOOLEAN
  /\ pending \in Seq(Texts) /\ stream \in Seq(Bytes)
  /\ torn \subseteq 1..MaxBytes
  /\ \A i \in DOMAIN records : records[i] \in Records
  /\ Len(records) <= MessageLimit
  /\ {received, discarded, first, mark} \subseteq Nat

\* The records of a capture depend on its bytes and on where it was flushed, not on
\* how the network cut it into chunks: a CR and the LF behind it may be apart.
ChunksDoNotMatter ==
  /\ SubSeq(log, first + 1, Len(log)) = Reference
  /\ pending = IF capturing THEN Rest ELSE <<>>

\* Only a line of more than MAX_PENDING_BYTES is torn, and no more than that is
\* ever kept between two reads.
ShortLinesWhole ==
  /\ Len(pending) <= MaxPending
  /\ \A t \in torn : \E i \in Starts :
       i <= t /\ (\A k \in i..t : IsText(stream[k])) /\ t - i + 1 > MaxPending

\* The ring holds the newest of what came since the last clear, and what was received
\* is kept, discarded, or was cleared by a service in the middle of a capture.
RingIsNewest ==
  LET since == SubSeq(log, mark + 1, Len(log)) IN
    /\ records = Newest(since, MessageLimit)
    /\ received = Len(log)
    /\ discarded <= received - Len(records)
    /\ mark = 0 => discarded = received - Len(records)

\* An export of the capture is an unbroken run that starts with the oldest selected
\* record, within the budget, as long as can be; it says so when the newest records
\* are the ones that are missing.
ExportUnbroken ==
  \A limit \in 1..(MessageLimit + 1) :
    LET e   == capture_export(records, limit, MessageLimit)
        all == Newest(records, limit)
        n   == Len(e.messages)
    IN /\ e.messages = SubSeq(all, 1, n)
       /\ SizeOf(e.messages) <= MaxExport
       /\ e.truncated <=> n < Len(all)
       /\ e.truncated => SizeOf(SubSeq(all, 1, n + 1)) > MaxExport

\* The bus monitor's export, of messages like these, never leaves out a message for
\* the sake of an older one, and accounts for each that it leaves out.
ExportNewest ==
  \A limit \in 1..(MessageLimit + 1) :
    LET e   == bus_export(records, limit)
        all == Newest(records, limit)
    IN /\ SizeOf(e.messages) <= MaxExport
       /\ Len(e.messages) + e.omitted = Len(all)
       /\ \A n \in 0..Len(all) :
            SizeOf(Newest(all, n)) <= MaxExport =>
              Newest(e.messages, n) = Newest(all, n)
=============================================================================
