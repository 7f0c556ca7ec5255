------------------------------ MODULE Database ------------------------------
(***************************************************************************)
(* The database (MZ_ADOConnect): DBOperation, the one MsvDatabaseSave      *)
(* behind it and the ADO connection and record set it holds. ADO and the   *)
(* server are external: a record set is a cached copy with one record at   *)
(* hand, whose edit reaches the table with Update, if the server answers   *)
(* and nobody has changed the record meanwhile. One field stands for all.  *)
(***************************************************************************)
EXTENDS Integers, Sequences

CONSTANTS FieldValues,   \* what a field can hold beside NULL
          MaxRows        \* bound: records of the table

SqlNull == -1
ASSUME DatabaseAssumption ==
    FieldValues \subseteq Nat /\ 0 \in FieldValues /\ MaxRows \in Nat \ {0}

VARIABLES base,     \* m_dabase is not NULL
          db,       \* m_pDB: none, closed or open
          rs,       \* m_pRS: none, closed or open
          cur,      \* the record at hand, 0 when the record set has none
          seen,     \* its value when it was fetched
          edit,     \* what is being edited: none, a record that exists or a new one
          value,    \* the value set meanwhile
          table,    \* the field in every record of the table
          link,     \* the server answers
          cell,     \* the caller's variable for what it reads
          orphans,  \* open connections of a MsvDatabaseSave that was deleted
          dbDown    \* the process ended by a string given back twice

dbVars == <<base, db, rs, cur, seen, edit, value, table, link, cell, orphans, dbDown>>

Fields == FieldValues \cup {SqlNull}

DbInit ==
    /\ base = FALSE /\ db = "none" /\ rs = "none"
    /\ cur = 0 /\ seen = SqlNull /\ edit = "none" /\ value = SqlNull
    /\ table = <<0>> /\ link = TRUE /\ cell = 0 /\ orphans = FALSE /\ dbDown = FALSE

(* The server comes and goes, and serves other clients (external) *)
Server ==
    /\ \/ link' = ~link /\ UNCHANGED table
       \/ link /\ UNCHANGED link /\ \E v \in Fields : table' = [table EXCEPT ![1] = v]
    /\ UNCHANGED <<base, db, rs, cur, seen, edit, value, cell, orphans, dbDown>>

NothingAtHand == cur' = 0 /\ seen' = SqlNull /\ edit' = "none" /\ value' = SqlNull

(* CADODatabase::Open *)
ConnectionOpens == db' = IF link THEN "open" ELSE "closed"

(* MsvDatabaseSave::ConnectDB: a connection that fails leaves a database object
   and no record set *)
ConnectDB ==
    /\ ConnectionOpens
    /\ rs' = IF db' = "open" THEN "closed" ELSE "none"
    /\ NothingAtHand

(* The old object is deleted without CloseDB *)
Mz_ConnectDB ==
    /\ base' = TRUE
    /\ orphans' = (orphans \/ db = "open")
    /\ ConnectDB
    /\ UNCHANGED <<table, link, cell, dbDown>>

CloseDB == db' = "none" /\ rs' = "none" /\ NothingAtHand

Mz_CloseDB ==
    /\ base
    /\ CloseDB
    /\ UNCHANGED <<base, table, link, cell, orphans, dbDown>>

(* Slip: a record set closes whatever is being edited *)
CloseAnyhow == rs # "none"
(* ADO refuses to close a record set while a record of it is being edited *)
MayClose == rs # "none" /\ edit = "none"

NoRecordset == rs' = "closed" /\ NothingAtHand

(* CADORecordset::Open: an open record set is closed first; if that fails it
   cannot be opened. The query finds every record, the first is at hand. *)
RecordsetOpens ==
    /\ MayClose
    /\ IF link /\ db = "open"
       THEN /\ rs' = "open"
            /\ cur' = 1 /\ seen' = table[1]
            /\ edit' = "none" /\ value' = SqlNull
       ELSE NoRecordset

Mz_OpenRecord ==
    /\ base /\ RecordsetOpens
    /\ UNCHANGED <<base, db, table, link, cell, orphans, dbDown>>

Mz_CloseRecord ==
    /\ base /\ MayClose
    /\ NoRecordset
    /\ UNCHANGED <<base, db, table, link, cell, orphans, dbDown>>

-----------------------------------------------------------------------------
(* Fields of the record at hand *)

AtHand == rs = "open" /\ (cur # 0 \/ edit = "new")
FieldValue == IF edit = "none" THEN seen ELSE value

(* GetFieldValue: what a caller's variable becomes. NULL reads as 0 into a
   double and leaves others alone; a read that fails gives 0. *)
GetDouble == IF AtHand /\ FieldValue # SqlNull THEN FieldValue ELSE 0
GetOther ==
    IF ~AtHand THEN 0 ELSE IF FieldValue # SqlNull THEN FieldValue ELSE cell
(* A time is left alone too when it cannot be read *)
GetTime == IF AtHand /\ FieldValue # SqlNull THEN FieldValue ELSE cell

(* Without a record set nothing is read, and 0, success, is returned *)
GetRecordValue == rs # "none" /\ cell' \in {GetDouble, GetOther, GetTime}

Mz_GetRecordeValue ==
    /\ base /\ GetRecordValue
    /\ UNCHANGED <<base, db, rs, cur, seen, edit, value, table, link, orphans, dbDown>>

(* SetFieldValue of a number or a time *)
SetNumber(v) == value' = v /\ UNCHANGED dbDown
(* Of a text: the string is made of one that is gone, and given back twice *)
SetText == dbDown' \in BOOLEAN /\ value' \in FieldValues

SetRecordValue ==
    /\ AtHand
    /\ SetText \/ \E v \in FieldValues : SetNumber(v)
    /\ edit' = IF edit = "none" THEN "old" ELSE edit

Mz_SetRecordeValue ==
    /\ base /\ SetRecordValue
    /\ UNCHANGED <<base, db, rs, cur, seen, table, link, cell, orphans>>

(* The server takes an edit when the record is as it was fetched *)
Taken == link /\ IF edit = "new" THEN Len(table) < MaxRows ELSE table[cur] = seen

Store ==
    IF edit = "new"
    THEN table' = Append(table, value) /\ cur' = Len(table) + 1
    ELSE table' = [table EXCEPT ![cur] = value] /\ UNCHANGED cur

(* An Update that fails leaves the edit pending *)
Mz_UpdataRecorde ==
    /\ rs = "open" /\ edit # "none" /\ Taken
    /\ Store
    /\ seen' = value /\ edit' = "none" /\ value' = SqlNull
    /\ UNCHANGED <<base, db, rs, link, cell, orphans, dbDown>>

(* ADO updates what is being edited before it adds a record *)
Mz_AddNewRecorde ==
    /\ rs = "open"
    /\ \/ edit = "none" /\ UNCHANGED <<table, cur>>
       \/ edit # "none" /\ Taken /\ Store
    /\ edit' = "new" /\ value' = SqlNull
    /\ UNCHANGED <<base, db, rs, seen, link, cell, orphans, dbDown>>

DbNext ==
    /\ ~dbDown
    /\ \/ Server \/ Mz_ConnectDB \/ Mz_CloseDB \/ Mz_OpenRecord \/ Mz_CloseRecord
       \/ Mz_GetRecordeValue \/ Mz_SetRecordeValue \/ Mz_UpdataRecorde \/ Mz_AddNewRecorde

DbSpec == DbInit /\ [][DbNext]_dbVars

-----------------------------------------------------------------------------
DbTypeOK ==
    /\ base \in BOOLEAN /\ link \in BOOLEAN /\ orphans \in BOOLEAN /\ dbDown \in BOOLEAN
    /\ db \in {"none", "closed", "open"} /\ rs \in {"none", "closed", "open"}
    /\ edit \in {"none", "old", "new"}
    /\ table \in Seq(Fields) /\ Len(table) \in 1 .. MaxRows /\ cur \in 0 .. Len(table)
    /\ seen \in Fields /\ value \in Fields /\ cell \in FieldValues

(* A value that was set is in the table before it ceases to be pending, unless
   the whole connection is closed or made anew: no Update that failed, and no
   closing or reopening of the record set, loses it. *)
EditKeptUntilStored ==
    [][edit # "none" /\ edit' # edit
        => \/ \E i \in DOMAIN table' : table'[i] = value
           \/ Mz_ConnectDB \/ Mz_CloseDB]_dbVars
=============================================================================
