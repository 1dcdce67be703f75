------------------------------- MODULE Database -------------------------------
(***************************************************************************)
(* The appliance's database (database/database_manager.cpp): an SQLite     *)
(* table from keys to texts, reached one key at a time.  There is no       *)
(* transaction over several keys anywhere in the program, so every reader  *)
(* and writer above this module is a sequence of single-key steps.         *)
(*                                                                         *)
(* The API daemon, the console and the shell scripts each open the file    *)
(* they name; whether the names are the same file is a question of         *)
(* deployment, so `db' is indexed by Files and every component takes the   *)
(* file it opens as a constant.                                            *)
(***************************************************************************)
CONSTANTS
    Files,            \* the database files of this deployment
    Empty,            \* the empty text
    Missing,          \* std::nullopt: the table has no row for the key
    StoreFaults       \* the statements that may fail: busy, disk full, read-only

ASSUME DatabaseAssumption == Empty # Missing /\ StoreFaults \subseteq {"read", "write"}

VARIABLE db           \* [Files -> [keys -> text]]

\* DatabaseManager::set_config.  Its Boolean result is dropped by every caller
\* in the program, so a failed upsert is a step that leaves the table alone.
SetConfig(file, key, text) ==
    \/ db' = [db EXCEPT ![file][key] = text]
    \/ "write" \in StoreFaults /\ UNCHANGED db

\* DatabaseManager::get_config: what a read may return.  A statement that does
\* not yield a row, for whatever reason, is reported as "no such key".
GetConfig(file, key) ==
    {db[file][key]} \cup (IF "read" \in StoreFaults THEN {Missing} ELSE {})

\* std::optional::value_or
ValueOr(text, default) == IF text = Missing THEN default ELSE text

NoConfig(text) == text \in {Empty, Missing}
================================================================================
