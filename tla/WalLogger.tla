----------------------------- MODULE WalLogger ------------------------------
(***************************************************************************)
(* The write-ahead journal: the file, the index WalLogger keeps of it in   *)
(* memory, the interrupted tail, and the in-place commit marker.           *)
(*                                                                         *)
(* The file is a sequence of cells, one per field: a line is the cells     *)
(* id, state, payload, newline.  Offsets count cells, so a commit marker   *)
(* lands one cell after the offset it is given, wherever that is.  A write *)
(* that stops half-way stops between two fields.                           *)
(*                                                                         *)
(* Faults: "open" is an append that fails before anything is written,      *)
(* "append" one that fails after writing part of its line while the        *)
(* process lives on, "mark" a failed commit marker, "crash" the death of   *)
(* the process at any point, also inside append and mark_committed.  Loss  *)
(* of flushed data by the operating system is outside the model (the       *)
(* code's own TODO on fsync).                                              *)
(***************************************************************************)
EXTENDS Integers, Sequences

CONSTANTS
    TxnId,     \* transaction ids, positive
    MaxCells,  \* bound: length of the file before an append
    Faults     \* subset of {"open", "append", "mark", "crash"}

ASSUME TxnIdAssumption == TxnId \subseteq Nat \ {0}
ASSUME WalBounds ==
    MaxCells \in Nat /\ Faults \subseteq {"open", "append", "mark", "crash"}

VARIABLES
    file,          \* the cells on disk
    open,          \* a WalLogger object exists
    entries,       \* entries_
    next_offset,   \* next_offset_
    drop_tail,     \* drop_tail_
    valid_length   \* valid_length_

vars == <<file, open, entries, next_offset, drop_tail, valid_length>>

-----------------------------------------------------------------------------
(* Cells.  `text' stands for bytes no reader takes for a field.            *)

State == {"Pending", "Validated", "Committed"}

Cell ==
    [kind : {"id"}, id : TxnId \cup {0}]
    \cup [kind : {"state"}, state : State]
    \cup [kind : {"payload"}, record : TxnId]
    \cup [kind : {"newline", "text"}]

IdCell(n) == [kind |-> "id", id |-> n]
StateCell(s) == [kind |-> "state", state |-> s]
PayloadCell(n) == [kind |-> "payload", record |-> n]
Newline == [kind |-> "newline"]
Text == [kind |-> "text"]

LineLength == 4

Line(n, s) == <<IdCell(n), StateCell(s), PayloadCell(n), Newline>>

\* The state byte put over a cell: over a state it sets it, over a digit of an
\* id it makes another id (0 stands for any id no transaction has), over
\* anything else it leaves text.
Overwritten(c) ==
    IF c.kind = "state" THEN StateCell("Committed")
    ELSE IF c.kind = "id" THEN IdCell(0) ELSE Text

\* state_from_byte: the first digit of an id reads as '0', Pending.
HasState(c) == c.kind \in {"state", "id"}
StateOf(c) == IF c.kind = "state" THEN c.state ELSE "Pending"

-----------------------------------------------------------------------------
(* Reading the file: what the constructor puts in entries_.                *)

\* Where the line that ends before position i starts: behind the newline before
\* it.  Offsets count from 0.
LineStart(f, i) ==
    CHOOSE s \in 0..(i - 1) :
        /\ s = 0 \/ f[s] = Newline
        /\ \A j \in (s + 1)..(i - 1) : f[j] # Newline

LineBefore(f, i) ==
    [offset |-> LineStart(f, i), cells |-> SubSeq(f, LineStart(f, i) + 1, i - 1)]

\* The tail starts where the line after the last newline does.
TailStart(f) == LineStart(f, Len(f) + 1)

WellFormed(l) ==
    /\ Len(l.cells) >= 2
    /\ l.cells[1].kind = "id"
    /\ HasState(l.cells[2])

Entry(l) ==
    [id |-> l.cells[1].id, state |-> StateOf(l.cells[2]), offset |-> l.offset,
     payload |-> SubSeq(l.cells, 3, Len(l.cells))]

\* At a newline, the entry of the line before it if its header can be read.
EntryAt(f, i) ==
    IF f[i] = Newline /\ WellFormed(LineBefore(f, i))
    THEN <<Entry(LineBefore(f, i))>> ELSE <<>>

\* The constructor's loop.
Parse(f) ==
    LET upto[i \in 0..Len(f)] ==
            IF i = 0 THEN <<>> ELSE upto[i - 1] \o EntryAt(f, i)
    IN  upto[Len(f)]

\* deserialize_transaction succeeds on an intact payload only.
Readable(e) == Len(e.payload) = 1 /\ e.payload[1].kind = "payload"

\* Records carry the payload's id and the header's state.
Loaded(e) ==
    IF Readable(e) THEN <<[id |-> e.payload[1].record, state |-> e.state]>>
    ELSE <<>>

load_all(es) ==
    LET upto[k \in 0..Len(es)] ==
            IF k = 0 THEN <<>> ELSE upto[k - 1] \o Loaded(es[k])
    IN  upto[Len(es)]

\* replay_from(lsn): the same, from the entry at index lsn (counted from 0).
replay_from(es, lsn) == load_all(SubSeq(es, lsn + 1, Len(es)))

\* What a WalLogger constructed now would report.
Recovered == load_all(Parse(file))

-----------------------------------------------------------------------------
Init ==
    /\ file = <<>>
    /\ open = FALSE
    /\ entries = <<>>
    /\ next_offset = 0
    /\ drop_tail = FALSE
    /\ valid_length = 0

\* The constructor.
Open ==
    /\ ~open
    /\ open' = TRUE
    /\ entries' = Parse(file)
    /\ next_offset' = TailStart(file)
    /\ IF TailStart(file) < Len(file)
       THEN drop_tail' = TRUE /\ valid_length' = TailStart(file)
       ELSE drop_tail' = FALSE /\ valid_length' = 0
    /\ UNCHANGED file

\* Mutant of Truncated: the interrupted tail stays in the file.
Truncated_never == file

\* truncate_interrupted_tail, when an append finds drop_tail_ set.  (When
\* resize_file fails, append throws and nothing changes.)
Truncated == IF drop_tail THEN SubSeq(file, 1, valid_length) ELSE file

\* Mutant of WriteOffset: where the line would start without the truncation.
WriteOffset_file_end == Len(file)

WriteOffset == IF drop_tail THEN valid_length ELSE next_offset

Closed ==
    /\ open' = FALSE
    /\ entries' = <<>>
    /\ next_offset' = 0
    /\ drop_tail' = FALSE
    /\ valid_length' = 0

\* Mutant of AfterLine: the newline is counted twice.
AfterLine_miscounting == WriteOffset + LineLength + 1

\* next_offset_ past the line just written.
AfterLine == WriteOffset + LineLength

append(n) ==
    /\ open
    /\ file' = Truncated \o Line(n, "Validated")
    /\ entries' = Append(entries,
                         [id |-> n, state |-> "Validated", offset |-> WriteOffset,
                          payload |-> <<PayloadCell(n)>>])
    /\ next_offset' = AfterLine
    /\ drop_tail' = FALSE
    /\ UNCHANGED <<open, valid_length>>

\* The stream reports an error after `written' cells: append throws.
append_fails(n, written) ==
    /\ (IF written = 0 THEN "open" ELSE "append") \in Faults
    /\ open
    /\ file' = Truncated \o SubSeq(Line(n, "Validated"), 1, written)
    /\ next_offset' = WriteOffset
    /\ drop_tail' = FALSE
    /\ UNCHANGED <<open, entries, valid_length>>

\* The process dies inside append.
append_crash(n, written) ==
    /\ "crash" \in Faults
    /\ open
    /\ file' = Truncated \o SubSeq(Line(n, "Validated"), 1, written)
    /\ Closed

\* The first entry with this id.
Marks(n, k) ==
    /\ k \in DOMAIN entries
    /\ entries[k].id = n
    /\ \A j \in 1..(k - 1) : entries[j].id # n

\* Mutant of MarkedFile: the marker is written one field too far.
MarkedFile_past_state(k) ==
    [file EXCEPT ![entries[k].offset + 3] = Overwritten(@)]

\* The cell seekp + put overwrites.
MarkedFile(k) ==
    [file EXCEPT ![entries[k].offset + 2] = Overwritten(@)]

\* mark_committed of a known id; it does nothing when already Committed.
mark_committed(n) ==
    \E k \in DOMAIN entries :
        /\ open
        /\ Marks(n, k)
        /\ entries[k].state # "Committed"
        /\ file' = MarkedFile(k)
        /\ entries' = [entries EXCEPT ![k].state = "Committed"]
        /\ UNCHANGED <<open, next_offset, drop_tail, valid_length>>

\* The marker write reports an error; the byte may be in the file.
mark_committed_fails(n) ==
    /\ "mark" \in Faults
    /\ \E k \in DOMAIN entries :
        /\ open
        /\ Marks(n, k)
        /\ entries[k].state # "Committed"
        /\ file' \in {file, MarkedFile(k)}
    /\ UNCHANGED <<open, entries, next_offset, drop_tail, valid_length>>

\* The process dies, possibly right after the marker reached the file.
Crash ==
    /\ "crash" \in Faults
    /\ open
    /\ \/ file' = file
       \/ \E n \in TxnId, k \in DOMAIN entries :
             Marks(n, k) /\ file' = MarkedFile(k)
    /\ Closed

\* The processor appends ids the journal does not hold: next_id_ starts past
\* load_all() and only grows (module Recovery checks that it is so).
Fresh(n) ==
    /\ n \notin {load_all(entries)[k].id : k \in DOMAIN load_all(entries)}
    /\ Len(file) <= MaxCells

Next ==
    \/ Open
    \/ \E n \in TxnId :
          \/ Fresh(n) /\ append(n)
          \/ \E written \in 0..(LineLength - 1) : Fresh(n) /\ append_fails(n, written)
          \/ \E written \in 0..LineLength : Fresh(n) /\ append_crash(n, written)
          \/ mark_committed(n)
          \/ mark_committed_fails(n)
    \/ Crash

Spec == Init /\ [][Next]_vars

-----------------------------------------------------------------------------
(* Properties.                                                             *)

TypeOK ==
    /\ file \in Seq(Cell)
    /\ {open, drop_tail} \subseteq BOOLEAN
    /\ \A k \in DOMAIN entries :
          /\ entries[k].id \in TxnId \cup {0}
          /\ entries[k].state \in State
          /\ entries[k].offset \in 0..Len(file)
          /\ entries[k].payload \in Seq(Cell)
    /\ next_offset \in 0..Len(file)
    /\ valid_length \in 0..Len(file)

\* What the running process reports as Committed is Committed for whoever
\* opens the journal next.
CommittedIsDurable ==
    LET reported == load_all(entries)
        found    == Recovered
    IN  \A k \in DOMAIN reported : reported[k].state = "Committed"
            => \E j \in DOMAIN found : found[j] = reported[k]

\* size() is an LSN a snapshot may be fenced to: a reopened journal has the
\* same lines, with the same ids, at the same positions.
LsnIsDurable ==
    LET found == Parse(file)
    IN  open => /\ Len(found) = Len(entries)
                /\ \A k \in DOMAIN entries :
                      /\ found[k].id = entries[k].id
                      /\ found[k].offset = entries[k].offset
                      /\ found[k].payload = entries[k].payload
=============================================================================
