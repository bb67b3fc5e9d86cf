------------------------- MODULE ConversationStore -------------------------
(***************************************************************************)
(* The durable table of conversation turns and the sessions that write it. *)
(* save_turn stamps the turn, inserts it (the database gives it an id) and *)
(* commits it; only a committed row is visible to load_history.  SQLite    *)
(* has one writer at a time; PostgreSQL lets several transactions hold     *)
(* ids at once and commit them in any order.                               *)
(***************************************************************************)
EXTENDS Naturals, FiniteSets

CONSTANTS
    Requests,       \* the chat requests that save turns
    Conversations,
    Tenants,
    DefaultTenant,  \* "tenant-default", what the migration gives old rows
    LegacyRows,     \* rows of a table created before it had tenant_id
    FirstId,        \* the next id of that table
    NoRow,          \* no turn is being saved
    NoRequest       \* the author of a legacy row

Roles == {"user", "assistant"}

ASSUME StoreAssumption ==
    /\ DefaultTenant \in Tenants
    /\ NoRequest \notin Requests
    /\ IsFiniteSet(LegacyRows)
    /\ FirstId \in Nat \ {0}
    /\ LegacyRows \subseteq [id: 1..(FirstId - 1), conv: Conversations, role: Roles]
    /\ \A a, b \in LegacyRows : a.id = b.id => a = b

Row == [ id: Nat, conv: Conversations, tenant: Tenants, role: Roles,
         author: Requests \cup {NoRequest}, ts: Nat ]

ASSUME NoRowAssumption == NoRow \notin Row

VARIABLES
    rows,    \* committed rows
    open,    \* the turn each request is saving; its id is 0 until inserted
    nextId,  \* the id the next insert gets
    clock,   \* created_at of the next turn
    serialWriters  \* the database of the deployment: TRUE, SQLite; FALSE, PostgreSQL

storeVars == <<rows, open, nextId, clock, serialWriters>>

StoreTypeOK ==
    /\ rows \subseteq Row
    /\ open \in [Requests -> Row \cup {NoRow}]
    /\ nextId \in Nat
    /\ clock \in Nat
    /\ serialWriters \in BOOLEAN

-----------------------------------------------------------------------------
\* init_conversation_db: the table is created if absent, and a table without
\* tenant_id gets the column with the default.  Both are idempotent, so a
\* restart changes nothing.
Migrated(legacy) ==
    { [ id |-> l.id, conv |-> l.conv, tenant |-> DefaultTenant,
        role |-> l.role, author |-> NoRequest, ts |-> 0 ] : l \in legacy }

StoreInit ==
    /\ rows = Migrated(LegacyRows)
    /\ open = [r \in Requests |-> NoRow]
    /\ nextId = FirstId
    /\ clock = 1
    /\ serialWriters \in BOOLEAN

-----------------------------------------------------------------------------
(* load_history                                                             *)

ThreadOfAll(conv, tenant) == { row \in rows : row.conv = conv }  \* mutant

Thread(conv, tenant) ==
    { row \in rows : row.conv = conv /\ row.tenant = tenant }

\* Mutant: ORDER BY id ASC.
FirstTurns(conv, tenant, n) ==
    { row \in Thread(conv, tenant) :
        Cardinality({ older \in Thread(conv, tenant) : older.id < row.id }) < n }

\* ORDER BY id DESC LIMIT n: the rows of the thread with fewer than n newer.
LastTurns(conv, tenant, n) ==
    { row \in Thread(conv, tenant) :
        Cardinality({ newer \in Thread(conv, tenant) : newer.id > row.id }) < n }

-----------------------------------------------------------------------------
(* save_turn                                                                *)

Saving(r) == open[r] # NoRow
Inserted(r) == Saving(r) /\ open[r].id # 0

\* The timestamp is taken before the session is opened.
BeginSave(r, conv, tenant, role) ==
    /\ ~Saving(r)
    /\ open' = [open EXCEPT ![r] =
                  [ id |-> 0, conv |-> conv, tenant |-> tenant,
                    role |-> role, author |-> r, ts |-> clock ]]
    /\ clock' = clock + 1
    /\ UNCHANGED <<rows, nextId, serialWriters>>

\* Mutant: two writers at a time in SQLite.
InsertUnlocked(r) ==
    /\ Saving(r) /\ ~Inserted(r)
    /\ open' = [open EXCEPT ![r].id = nextId]
    /\ nextId' = nextId + 1
    /\ UNCHANGED <<rows, clock, serialWriters>>

\* SQLite: the insert takes the write lock, held until commit or rollback.
InsertTurn(r) ==
    /\ Saving(r) /\ ~Inserted(r)
    /\ serialWriters => \A q \in Requests : ~Inserted(q)
    /\ open' = [open EXCEPT ![r].id = nextId]
    /\ nextId' = nextId + 1
    /\ UNCHANGED <<rows, clock, serialWriters>>

\* Mutant: the session is closed without db.commit().
CloseWithoutCommit(r) ==
    /\ Inserted(r)
    /\ open' = [open EXCEPT ![r] = NoRow]
    /\ UNCHANGED <<rows, nextId, clock, serialWriters>>

CommitTurn(r) ==
    /\ Inserted(r)
    /\ rows' = rows \cup {open[r]}
    /\ open' = [open EXCEPT ![r] = NoRow]
    /\ UNCHANGED <<nextId, clock, serialWriters>>

\* The session is closed without a commit: an error or a lost process.  SQLite
\* gives the id back with the rollback, a PostgreSQL sequence does not.
RollBack(r) ==
    /\ open' = [open EXCEPT ![r] = NoRow]
    /\ nextId' = IF serialWriters /\ Inserted(r) THEN open[r].id ELSE nextId
    /\ UNCHANGED <<rows, clock, serialWriters>>
=============================================================================
