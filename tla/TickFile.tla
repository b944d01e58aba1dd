------------------------------ MODULE TickFile ------------------------------
(***************************************************************************)
(* A binary tick file and its backtest::BinaryTickWriter.  The stream      *)
(* buffers what is written and passes it on when it likes; a crash of the  *)
(* program loses what it has not passed on.  Ticks are numbered as they    *)
(* are written; a part of a record reads like the end of the file, so the  *)
(* file holds whole records.                                               *)
(***************************************************************************)
EXTENDS Integers, Sequences, SequencesExt

CONSTANTS
    Absent,                \* a header that is not in the file
    MaxWrites, MaxOpens    \* bounds: calls of write and of open

VARIABLES
    disk,      \* the file: its header and its records
    buffer,    \* what the stream has not passed on
    writer,    \* where the writer is: none, fresh, open, closing or closed
    failed,    \* the stream's failbit
    ticks_written,
    saved,     \* history: ticks write() accepted since the file was last cut off
    calls      \* history: calls of write and of open

tapeVars == <<disk, buffer, writer, failed, ticks_written, saved, calls>>

Header(n) == [kind |-> "header", value |-> n]
Record(n) == [kind |-> "tick", value |-> n]

Init ==
    /\ disk = [header |-> Absent, ticks |-> << >>]
    /\ buffer = << >>
    /\ writer = "none" /\ failed = FALSE /\ ticks_written = 0
    /\ saved = << >>
    /\ calls = [write |-> 0, open |-> 0]

\* The file after the items have reached it; a header can only be the first.
Stored(items) ==
    LET first == IF items # << >> /\ items[1].kind = "header" THEN 1 ELSE 0
    IN  [header |-> IF first = 1 THEN items[1].value ELSE disk.header,
         ticks |-> disk.ticks \o [i \in 1..(Len(items) - first) |-> items[i + first].value]]

NewWriter ==
    /\ writer = "none"
    /\ writer' = "fresh" /\ failed' = FALSE /\ ticks_written' = 0
    /\ UNCHANGED <<disk, buffer, saved, calls>>

\* Opening cuts the file off; the count goes on from an earlier file.  On a
\* stream that is open already it fails, which the caller is not told.
Open ==
    /\ writer \in {"fresh", "closed", "open"}
    /\ calls.open < MaxOpens
    /\ calls' = [calls EXCEPT !.open = @ + 1]
    /\ IF writer = "open"
       THEN failed' = TRUE /\ UNCHANGED <<disk, buffer, saved, writer>>
       ELSE /\ disk' = [header |-> Absent, ticks |-> << >>]
            /\ buffer' = <<Header(0)>>
            /\ saved' = << >>
            /\ writer' = "open"
            /\ failed' = FALSE
    /\ UNCHANGED ticks_written

\* A failed stream takes nothing, and write() returns true all the same.
Write ==
    /\ writer = "open"
    /\ calls.write < MaxWrites
    /\ LET tick == calls.write + 1
       IN  /\ calls' = [calls EXCEPT !.write = tick]
           /\ saved' = Append(saved, tick)
           /\ buffer' = IF failed THEN buffer ELSE Append(buffer, Record(tick))
    /\ ticks_written' = ticks_written + 1
    /\ UNCHANGED <<disk, writer, failed>>

\* The stream passes on the oldest part of its buffer.
Flush ==
    /\ writer = "open"
    /\ \E n \in 1..Len(buffer) :
          /\ disk' = Stored(SubSeq(buffer, 1, n))
          /\ buffer' = SubSeq(buffer, n + 1, Len(buffer))
    /\ UNCHANGED <<writer, failed, ticks_written, saved, calls>>

\* close() first goes back to the header, which passes on what is buffered.
\* Variants named ..._ are plausible slips in the definition that follows them;
\* no specification uses them, the mutation checks do.
BeginClose_BuffersHeader ==
    /\ writer = "open"
    /\ writer' = "closing"
    /\ IF failed THEN UNCHANGED <<disk, buffer>>
       ELSE disk' = [disk EXCEPT !.header = ticks_written] /\ UNCHANGED buffer
    /\ UNCHANGED <<failed, ticks_written, saved, calls>>

BeginClose ==
    /\ writer = "open"
    /\ writer' = "closing"
    /\ IF failed THEN UNCHANGED <<disk, buffer>>
       ELSE disk' = Stored(buffer) /\ buffer' = << >>
    /\ UNCHANGED <<failed, ticks_written, saved, calls>>

\* Then it writes the count, unless the stream has failed, and closes.
EndClose ==
    /\ writer = "closing"
    /\ writer' = "closed"
    /\ disk' = IF failed THEN Stored(buffer) ELSE [disk EXCEPT !.header = ticks_written]
    /\ buffer' = << >>
    /\ UNCHANGED <<failed, ticks_written, saved, calls>>

\* The end of a writer, whose destructor closes first.
Discard ==
    /\ writer \in {"fresh", "closed"}
    /\ writer' = "none"
    /\ UNCHANGED <<disk, buffer, failed, ticks_written, saved, calls>>

Crash ==
    /\ writer \in {"open", "closing"}
    /\ writer' = "none"
    /\ buffer' = << >>
    /\ UNCHANGED <<disk, failed, ticks_written, saved, calls>>

Next ==
    \/ NewWriter \/ Open \/ Write \/ Flush \/ BeginClose \/ EndClose \/ Discard
    \/ Crash

-----------------------------------------------------------------------------
\* What the file holds is always a prefix of what write() accepted.
HoldsPrefix ==
    /\ IsPrefix(disk.ticks, saved)
    /\ disk.header \in {Absent} \cup 0..calls.write

\* A writer used once, from open to close, leaves every tick and their number.
ClosedIsComplete ==
    writer = "closed" /\ calls.open = 1 =>
        disk.ticks = saved /\ disk.header = Len(saved)

\* Until close() has finished the header is not the number of ticks but zero,
\* and a count is never smaller than the ticks behind it.
HeaderIsLate ==
    /\ disk.header # Absent /\ disk.header # 0 => disk.header >= Len(disk.ticks)
    /\ writer \in {"open", "closing"} => disk.header \in {Absent, 0}
=============================================================================
