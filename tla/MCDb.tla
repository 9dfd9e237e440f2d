-------------------------------- MODULE MCDb --------------------------------
(* The two Dbs on the same keys, callers and clock: a behaviour is of the one *)
(* or of the other, and the purge task of the other has ended before.         *)
EXTENDS Db, CppDb

VARIABLE version

rustOnly == <<pc, wakeAt, signal>>
cppOnly == <<task, expiry>>
dbVars == <<state, now, rustOnly, cppOnly, version>>

RustDb == version = "rust" /\ Init /\ task = "done" /\ expiry = None
TranslatedDb == /\ version = "cpp" /\ CppInit
                /\ pc = "done" /\ wakeAt = None
                /\ permit = FALSE /\ notified = FALSE /\ notifying = {}

NextDb == \/ version = "rust" /\ Next /\ UNCHANGED <<cppOnly, version>>
          \/ version = "cpp" /\ CppNext /\ UNCHANGED <<rustOnly, version>>

SpecDb == (RustDb \/ TranslatedDb) /\ [][NextDb]_dbVars /\ Fairness /\ CppFairness
=============================================================================
