---------------------------- MODULE SnapshotStore ----------------------------
(***************************************************************************)
(* SnapshotStore: one JSON document, written to a temporary file and moved *)
(* over the last one.  One caller at a time (the class has no mutex); the  *)
(* process may die between any two of its file operations, and a write, a  *)
(* rename or a removal may fail.  Module Recovery says what is stored.     *)
(*                                                                         *)
(* A file is missing, holds a whole snapshot, or holds Part of one, which  *)
(* json::parse rejects (module Codec says which whole ones load rejects).  *)
(* What the operating system loses of flushed data is outside the model.   *)
(***************************************************************************)
CONSTANTS
    NoFile,       \* no such file
    Part,         \* a document cut short
    Nothing,      \* std::nullopt
    Faults        \* subset of {"write", "rename", "remove", "crash"}

VARIABLES
    path,    \* the file path_
    tmp,     \* the file path_.tmp
    pc,      \* where the caller is
    given,   \* the argument of store() while it runs
    kept     \* the last snapshot whose store() returned, or died after its
             \* rename; none after clear()

vars == <<path, tmp, pc, given, kept>>

Init ==
    /\ path = NoFile
    /\ tmp = NoFile
    /\ pc = "idle"
    /\ given = Nothing
    /\ kept = Nothing

\* store() is over.
Leave ==
    /\ pc' = "idle"
    /\ given' = Nothing

\* store opens the temporary file, truncating what an earlier one left.
OpenTmp(s) ==
    /\ pc = "idle"
    /\ pc' = "write"
    /\ given' = s
    /\ tmp' = Part
    /\ UNCHANGED <<path, kept>>

WriteTmp ==
    /\ pc = "write"
    /\ tmp' = given
    /\ pc' = "rename"
    /\ UNCHANGED <<path, given, kept>>

\* Mutant of WriteFails: the state of the stream is not looked at.
WriteFails_unnoticed ==
    /\ "write" \in Faults
    /\ pc = "write"
    /\ pc' = "rename"
    /\ UNCHANGED <<path, tmp, given, kept>>

\* "write failed": the temporary file stays behind.
WriteFails ==
    /\ "write" \in Faults
    /\ pc = "write"
    /\ Leave
    /\ UNCHANGED <<path, tmp, kept>>

Rename ==
    /\ pc = "rename"
    /\ path' = tmp
    /\ tmp' = NoFile
    /\ pc' = "return"
    /\ UNCHANGED <<given, kept>>

\* Mutant of RenameFails: the clean-up removes the last snapshot.
RenameFails_removing_path ==
    /\ "rename" \in Faults
    /\ pc = "rename"
    /\ path' = NoFile
    /\ Leave
    /\ UNCHANGED <<tmp, kept>>

\* "commit rename failed": the temporary file is removed, if it can be.
RenameFails ==
    /\ "rename" \in Faults
    /\ pc = "rename"
    /\ tmp' \in {NoFile} \cup (IF "remove" \in Faults THEN {tmp} ELSE {})
    /\ Leave
    /\ UNCHANGED <<path, kept>>

Return ==
    /\ pc = "return"
    /\ Leave
    /\ kept' = given
    /\ UNCHANGED <<path, tmp>>

\* clear removes the snapshot and ignores a failure.
clear ==
    /\ pc = "idle"
    /\ \/ path' = NoFile /\ kept' = Nothing
       \/ "remove" \in Faults /\ UNCHANGED <<path, kept>>
    /\ UNCHANGED <<tmp, pc, given>>

Crash ==
    /\ "crash" \in Faults
    /\ Leave
    /\ kept' = IF pc = "return" THEN given ELSE kept
    /\ UNCHANGED <<path, tmp>>

Step ==
    \/ WriteTmp
    \/ WriteFails
    \/ Rename
    \/ RenameFails
    \/ Return
    \/ clear

\* load: nothing for a missing or torn document.
load == IF path \in {NoFile, Part} THEN Nothing ELSE path

-----------------------------------------------------------------------------
(* Properties.                                                             *)

\* "A crashed snapshot write can never leave a torn file behind".
NeverTorn == path # Part

\* A checkpoint survives until the next one has taken its place: whatever
\* fails, and wherever the process dies, load() gives back the last snapshot
\* whose store() returned, and the new one once a store() has died past its
\* rename.
CheckpointSurvives == kept # Nothing /\ pc # "return" => load = kept
=============================================================================
