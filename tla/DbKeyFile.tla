----------------------------- MODULE DbKeyFile ------------------------------
(***************************************************************************)
(* The key file beside a database, and the processes that open the         *)
(* database: DbConnection::new with get_or_create_db_key.                  *)
(*                                                                         *)
(* Whoever finds no key file that can be read makes a key, truncates the   *)
(* file, writes the key, and only then touches the database, which takes   *)
(* the key of whoever touches it first and afterwards opens for no other.  *)
(* There is no lock across these steps, and any error of the read counts   *)
(* as a missing file.                                                      *)
(***************************************************************************)
EXTENDS Integers

CONSTANTS
    Processes,
    MaxKeys,    \* bound: the keys ever generated
    MaxFaults   \* bound: the calls cut short, and the reads that fail

ASSUME BoundsAssumption == MaxKeys \in Nat /\ MaxFaults \in Nat

VARIABLES
    keyFile,   \* what the key file holds: NoFile, Short, or a key
    database,  \* the key under which the database is encrypted; 0: still empty
    pc,        \* process -> its next step, or "idle", or "open"
    key,       \* process -> the key it has in memory
    lastKey,   \* history: the number of keys generated
    disturbed, \* history: a key was made while another one was there or coming
    faults     \* history: the faults so far

vars == <<keyFile, database, pc, key, lastKey, disturbed, faults>>

NoFile == -1

\* Created and not yet written, or written in part.
Short == 0

Keys == 1 .. lastKey

Init ==
    /\ keyFile = NoFile
    /\ database = 0
    /\ pc = [p \in Processes |-> "idle"]
    /\ key = [p \in Processes |-> 0]
    /\ lastKey = 0
    /\ disturbed = FALSE
    /\ faults = 0

Go(p, s) == pc[p] # s /\ pc' = [pc EXCEPT ![p] = s]

-----------------------------------------------------------------------------

\* Not the code: read instead of read_exact, which leaves the buffer as it was.
RetrieveWhatIsThere(p) ==
    /\ pc[p] = "idle"
    /\ keyFile # NoFile
    /\ key' = [key EXCEPT ![p] = keyFile]
    /\ Go(p, "unlock")
    /\ UNCHANGED <<keyFile, database, lastKey, disturbed, faults>>

\* retrieve_db_key: the file has to be there, in its full length.
RetrieveKey(p) ==
    /\ pc[p] = "idle"
    /\ keyFile \in Keys
    /\ key' = [key EXCEPT ![p] = keyFile]
    /\ Go(p, "unlock")
    /\ UNCHANGED <<keyFile, database, lastKey, disturbed, faults>>

\* Another process has made a key and not stored it yet.
KeyComing(p) == \E q \in Processes \ {p} : pc[q] \in {"create", "write"}

\* generate_db_key, after retrieve_db_key gave an error: the file is not there or
\* too short, or is there and could not be read.
GenerateKey(p) ==
    /\ pc[p] = "idle"
    /\ lastKey < MaxKeys
    /\ \/ keyFile \notin Keys /\ faults' = faults
       \/ keyFile \in Keys /\ faults < MaxFaults /\ faults' = faults + 1
    /\ lastKey' = lastKey + 1
    /\ key' = [key EXCEPT ![p] = lastKey + 1]
    /\ disturbed' = (disturbed \/ keyFile \in Keys \/ KeyComing(p))
    /\ Go(p, "create")
    /\ UNCHANGED <<keyFile, database>>

\* store_db_key: File::create truncates a file that is there.
CreateKeyFile(p) ==
    /\ pc[p] = "create"
    /\ keyFile' = Short
    /\ Go(p, "write")
    /\ UNCHANGED <<database, key, lastKey, disturbed, faults>>

\* Not the code: a buffered writer that is never flushed.
KeepInBuffer(p) ==
    /\ pc[p] = "write"
    /\ Go(p, "unlock")
    /\ UNCHANGED <<keyFile, database, key, lastKey, disturbed, faults>>

\* store_db_key: write_all
WriteKey(p) ==
    /\ pc[p] = "write"
    /\ keyFile' = key[p]
    /\ Go(p, "unlock")
    /\ UNCHANGED <<database, key, lastKey, disturbed, faults>>

\* PRAGMA journal_mode is the first statement that touches the file: an empty
\* database gets this key; another's key is an error.
Unlock(p) ==
    /\ pc[p] = "unlock"
    /\ \/ database = 0 /\ database' = key[p] /\ Go(p, "open")
       \/ database = key[p] /\ database' = database /\ Go(p, "open")
       \/ database \notin {0, key[p]} /\ database' = database /\ Go(p, "idle")
    /\ UNCHANGED <<keyFile, key, lastKey, disturbed, faults>>

\* The connection is dropped, or its process exits.
Close(p) ==
    /\ pc[p] = "open"
    /\ Go(p, "idle")
    /\ UNCHANGED <<keyFile, database, key, lastKey, disturbed, faults>>

\* The process dies, or the next step fails and the error is passed up.
CutShort(p) ==
    /\ pc[p] \in {"create", "write", "unlock"}
    /\ faults < MaxFaults
    /\ faults' = faults + 1
    /\ Go(p, "idle")
    /\ UNCHANGED <<keyFile, database, key, lastKey, disturbed>>

Next ==
    \E p \in Processes :
       \/ RetrieveKey(p) \/ GenerateKey(p) \/ CreateKeyFile(p) \/ WriteKey(p)
       \/ Unlock(p) \/ Close(p) \/ CutShort(p)

Spec == Init /\ [][Next]_vars

-----------------------------------------------------------------------------
(* Properties.                                                             *)

\* The shape of the state.
TypeOK ==
    /\ lastKey \in 0 .. MaxKeys
    /\ keyFile \in {NoFile, Short} \cup Keys
    /\ database \in {0} \cup Keys
    /\ pc \in [Processes -> {"idle", "create", "write", "unlock", "open"}]
    /\ key \in [Processes -> {0} \cup Keys]
    /\ \A p \in Processes : pc[p] # "idle" => key[p] \in Keys
    /\ disturbed \in BOOLEAN
    /\ faults \in 0 .. MaxFaults

\* A database that has been written can be opened again with the key in its key
\* file, also after crashes at any step and with any number of processes, as long
\* as no key was ever generated while there was one or another process was about to
\* store one (db_encryption.rs:94 does both).
KeyFileOpensDatabase == database # 0 /\ ~ disturbed => keyFile = database
=============================================================================
