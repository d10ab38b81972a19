------------------------------ MODULE LogExports ------------------------------
(***************************************************************************)
(* What the two volatile logs disclose: the export of the TCP/PIC capture   *)
(* (advanced_debug.py) fills its byte budget from the oldest selected       *)
(* record on and stops at the first that does not fit; the export of the    *)
(* bus monitor (bus_monitor.py) fills it from the newest on and skips what  *)
(* does not fit.  A record is reduced to its text, and the bytes of its     *)
(* JSON to the length of the text and a constant for all that surrounds it. *)
(***************************************************************************)
EXTENDS Naturals, Sequences, SequencesExt

CONSTANTS
  MaxExport,  \* MAX_EXPORT_BYTES
  Envelope    \* bytes of a record's JSON beside its text

ASSUME ExportAssumption == MaxExport \in Nat /\ Envelope \in Nat \ {0}

ItemSize(r)  == Len(r.text) + Envelope
SizeOf(rs)   == FoldLeft(LAMBDA n, r : n + ItemSize(r), 0, rs)

\* The n newest elements; the callers' schemas keep n at 1 or more.
Newest(rs, n) == SubSeq(rs, (IF Len(rs) > n THEN Len(rs) - n ELSE 0) + 1, Len(rs))

-----------------------------------------------------------------------------
\* Oldest first; the loop ends at the first record over the budget.
Fill(taken, r) ==
  IF taken.full \/ taken.size + ItemSize(r) > MaxExport
  THEN [taken EXCEPT !.full = TRUE]
  ELSE [taken EXCEPT !.messages = Append(@, r), !.size = @ + ItemSize(r)]

\* Seeded fault: a record over the budget is skipped, and the loop goes on.
FillOn(taken, r) ==
  IF taken.size + ItemSize(r) > MaxExport
  THEN [taken EXCEPT !.full = TRUE]
  ELSE [taken EXCEPT !.messages = Append(@, r), !.size = @ + ItemSize(r)]

Selected(rs, limit, ring) == Newest(rs, IF limit < ring THEN limit ELSE ring)

\* Seeded fault: the capture's export goes on after a record over the budget.
capture_export_on(rs, limit, ring) ==
  LET taken == FoldLeft(FillOn, [messages |-> <<>>, size |-> 0, full |-> FALSE],
                        Selected(rs, limit, ring))
  IN [messages |-> taken.messages,
      truncated |-> Len(taken.messages) < Len(Selected(rs, limit, ring))]

\* export of the capture.
capture_export(rs, limit, ring) ==
  LET taken == FoldLeft(Fill, [messages |-> <<>>, size |-> 0, full |-> FALSE],
                        Selected(rs, limit, ring))
  IN [messages |-> taken.messages,
      truncated |-> Len(taken.messages) < Len(Selected(rs, limit, ring))]

-----------------------------------------------------------------------------
\* Newest first; what is over the budget is counted and left out.
Keep(r, kept) ==
  IF kept.size + ItemSize(r) > MaxExport
  THEN [kept EXCEPT !.omitted = @ + 1]
  ELSE [kept EXCEPT !.messages = <<r>> \o @, !.size = @ + ItemSize(r)]

\* Seeded fault: the budget is filled from the oldest message on.
bus_export_oldest(rs, limit) ==
  LET kept == FoldLeft(LAMBDA k, r : Keep(r, k),
                       [messages |-> <<>>, size |-> 0, omitted |-> 0],
                       Newest(rs, limit))
  IN [messages |-> Reverse(kept.messages), omitted |-> kept.omitted]

\* export of the bus monitor.
bus_export(rs, limit) ==
  LET kept == FoldRight(Keep, Newest(rs, limit),
                        [messages |-> <<>>, size |-> 0, omitted |-> 0])
  IN [messages |-> kept.messages, omitted |-> kept.omitted]
=============================================================================
