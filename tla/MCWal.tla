------------------------------- MODULE MCWal --------------------------------
(* Instances of the journal for TLC.                                       *)
EXTENDS WalLogger

Journal == INSTANCE AbstractJournal WITH log <- Recovered

\* Whatever the process does and wherever it dies, a reader of the journal
\* file sees an append-only sequence of records with commit flags.
JournalSpec == Journal!Spec
=============================================================================
