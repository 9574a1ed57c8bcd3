------------------------------- MODULE Tables -------------------------------
(***************************************************************************)
(* The tables of the restaurant (internal/handler/table_handler.go,        *)
(* internal/repository/table_repo.go) and the guests who scan their QR     *)
(* codes (GuestLogin in internal/service/auth_service.go).                 *)
(*                                                                         *)
(* A guest's token names the table and is kept by nobody but the guest: it *)
(* is good for two hours, whatever becomes of the table.                   *)
(***************************************************************************)

CONSTANTS
    Guests,     \* browsers of guests
    TableIds,   \* ids that tables get
    NoTable     \* a guest without a token

ASSUME TablesAssumption == NoTable \notin TableIds

VARIABLES
    table,  \* table[t]: "none" before CreateTable, "open" or "shut": tables.is_active
    token   \* token[g]: the table in the unexpired token of guest g

tableVars == <<table, token>>

\* INSERT INTO tables: is_active = 1.
CreateTable(t) ==
    /\ table[t] = "none"
    /\ table' = [table EXCEPT ![t] = "open"]
    /\ UNCHANGED token

\* PATCH /tables/:id writes all three columns.  A body without is_active means
\* is_active = true, so that renaming a shut table opens it.
UpdateTable(t, isActive) ==
    /\ table[t] # "none"
    /\ table' = [table EXCEPT ![t] = IF isActive = "false" THEN "shut" ELSE "open"]
    /\ UNCHANGED token

\* GetTableByQRToken: WHERE qr_token = ? AND is_active = 1 AND deleted_at IS NULL.
ScanFinds(t) == table[t] = "open"

\* A bug: is_active is left out of the WHERE clause.
Bug_LoginAtAnyTable(g, t) ==
    /\ table[t] # "none"
    /\ token' = [token EXCEPT ![g] = t]
    /\ UNCHANGED table

\* The token is made without another look at the table.  Lookup and token are one step:
\* a table shut in between gives a token like one made just before, which runs out too.
GuestLogin(g, t) ==
    /\ ScanFinds(t)
    /\ token' = [token EXCEPT ![g] = t]
    /\ UNCHANGED table

\* Two hours have passed (GenerateGuestToken).
TokenExpires(g) ==
    /\ token[g] # NoTable
    /\ token' = [token EXCEPT ![g] = NoTable]
    /\ UNCHANGED table

-----------------------------------------------------------------------------
TablesInit ==
    /\ table = [t \in TableIds |-> "none"]
    /\ token = [g \in Guests |-> NoTable]

TablesNext ==
    \/ \E t \in TableIds : CreateTable(t)
    \/ \E t \in TableIds, isActive \in {"true", "false", "omitted"} : UpdateTable(t, isActive)
    \/ \E g \in Guests, t \in TableIds : GuestLogin(g, t)
    \/ \E g \in Guests : TokenExpires(g)

-----------------------------------------------------------------------------
(* Properties.                                                             *)

TablesTypeOK ==
    /\ table \in [TableIds -> {"none", "open", "shut"}]
    /\ token \in [Guests -> TableIds \cup {NoTable}]

\* A table that is shut for good is left by its guests for good: a token runs out, and
\* nobody gets another one without scanning the code, which is not answered.
ShutTableEmpties ==
    \A t \in TableIds :
        <>[](table[t] = "shut") => <>[](\A g \in Guests : token[g] # t)
=============================================================================
