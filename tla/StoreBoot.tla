------------------------------ MODULE StoreBoot ------------------------------
(***************************************************************************)
(* The start of the store (main, Store::load, Store::install): the tables  *)
(* are looked up one by one; if one is missing, the database and the       *)
(* tables are created one by one.  main() looks at no result of install.   *)
(*                                                                         *)
(* The tables in the order of both: main, sets, lists, lists-data, zsets,  *)
(* zsets-data (a head table loads, or creates, its data table last).       *)
(***************************************************************************)
EXTENDS Naturals, Sequences

CONSTANT Tables   \* that order

ASSUME TablesAssumption == Len(Tables) > 0 /\ Tables \in Seq(STRING)
Table == {Tables[i] : i \in DOMAIN Tables}

VARIABLES
    boot,    \* "down", "load", "createDb", "install", "done"
    at,      \* the position of the table that is loaded or created
    disk,    \* the tables that exist
    open,    \* the tables whose m_tid the process knows (the id of a table that
             \* was not committed opens nothing, and is left out)
    half     \* history: an install has left some of the tables and not all

store == <<boot, at, disk, open, half>>

BootInit ==
    /\ boot = "down" /\ at = 1
    /\ disk = {} /\ open = {}
    /\ half = FALSE

Startup ==
    /\ boot = "down"
    /\ boot' = "load" /\ at' = 1
    /\ UNCHANGED <<disk, open, half>>

Some(tables) == tables # {} /\ tables # Table

Last == at = Len(Tables)

\* Mutant of Load: the first table that is there is enough.
LoadAny ==
    /\ boot = "load"
    /\ IF Tables[at] \in disk
       THEN boot' = "done" /\ open' = open \cup {Tables[at]}
       ELSE boot' = "createDb" /\ UNCHANGED open
    /\ UNCHANGED <<at, disk, half>>

\* Table::load of the next table.
Load ==
    /\ boot = "load"
    /\ \/ /\ Tables[at] \in disk
          /\ open' = open \cup {Tables[at]}
          /\ IF Last THEN boot' = "done" /\ UNCHANGED at
             ELSE at' = at + 1 /\ UNCHANGED boot
       \/ /\ Tables[at] \notin disk
          /\ boot' = "createDb"
          /\ at' = 1
          /\ UNCHANGED open
    /\ UNCHANGED <<disk, half>>

\* Store::createDb; the engine may refuse, for a database that is there too.
CreateDb ==
    /\ boot = "createDb"
    /\ boot' \in {"install", "done"}
    /\ UNCHANGED <<at, disk, open, half>>

\* A table is created, and the next one is.
Created ==
    /\ disk' = disk \cup {Tables[at]}
    /\ open' = open \cup {Tables[at]}
    /\ IF Last THEN boot' = "done" /\ UNCHANGED at
       ELSE at' = at + 1 /\ UNCHANGED boot
    /\ UNCHANGED half

\* create() of a table returns false: nothing was created, or a table was
\* and the schema could not be unlocked.
NotCreated ==
    /\ \/ UNCHANGED <<disk, open>>
       \/ /\ Tables[at] \notin disk
          /\ disk' = disk \cup {Tables[at]}
          /\ open' = open \cup {Tables[at]}
    /\ boot' = "done"
    /\ half' = (half \/ Some(disk'))
    /\ UNCHANGED at

\* Mutant of Create: a table that is there is no error.
CreateMissing ==
    /\ boot = "install"
    /\ Created \/ NotCreated

\* create() of the next table; the engine refuses one that is there.
Create ==
    /\ boot = "install"
    /\ \/ Tables[at] \notin disk /\ Created
       \/ NotCreated

Boot == Startup \/ Load \/ CreateDb \/ Create

\* The process ends, with what only its memory holds.
BootDies ==
    /\ boot' = "down" /\ at' = 1 /\ open' = {}
    /\ half' = (half \/ Some(disk))
    /\ UNCHANGED disk

-----------------------------------------------------------------------------
StoreTypeOK ==
    /\ boot \in {"down", "load", "createDb", "install", "done"}
    /\ at \in DOMAIN Tables
    /\ disk \subseteq Table /\ open \subseteq disk
    /\ half \in BOOLEAN
=============================================================================
