------------------------------- MODULE Schema -------------------------------
(***************************************************************************)
(* The read-only fallback's view of a Codex database                       *)
(* (adapters-codex-sqlite/src/lib.rs): which of three readers its tables   *)
(* and columns allow, what an unsupported one is said to lack, and what    *)
(* the queries of two of them return.  The third reader's, for the turns   *)
(* of the thread history, are in module Activity.                          *)
(*                                                                         *)
(* columns maps each table to its set of columns; the spellings without an *)
(* underscore are left out, and names are in lower case.  rows maps each   *)
(* table to its set of rows; a value is an option, {} stands for NULL.  An *)
(* identifier is never NULL and a sum stays within i64.                    *)
(***************************************************************************)
EXTENDS Integers, Sequences, FiniteSets, FiniteSetsExt

\* optional_column, candidate_table: the first of the names that is there.
FirstOf(names, there) ==
    LET found == SelectSeq(names, LAMBDA name : name \in there)
    IN  IF found = <<>> THEN {} ELSE {Head(found)}

Has(columns, table, needed) == table \in DOMAIN columns /\ needed \subseteq columns[table]

StateThreadsSchema(columns) == Has(columns, "threads", {"id", "updated_at_ms", "tokens_used"})

ThreadHistorySchema(columns) == Has(columns, "thread_turns", {"status", "started_at"})

\* The items of the history are read only if they can be matched with their turn.
HistoryItems(columns) ==
    /\ Has(columns, "thread_turns", {"thread_id", "turn_id"})
    /\ Has(columns, "thread_items", {"thread_id", "turn_id", "created_at_ms"})

-----------------------------------------------------------------------------
(* SupportedSchema: tables and columns under several names.                  *)

Table(columns, role) ==
    FirstOf(CASE role = "thread" -> <<"threads", "thread">>
              [] role = "turn" -> <<"turns", "turn">>
              [] role = "token" -> <<"token_usage", "token_usages", "thread_token_usage">>
              [] role = "item" -> <<"items", "item">>, DOMAIN columns)

Recent == <<"updated_at", "created_at", "timestamp">>

\* The names of each column a reader of the table needs.
Required(role) ==
    CASE role = "thread" -> {<<"id", "thread_id">>, Recent}
      [] role = "turn" -> {<<"id", "turn_id">>, <<"thread_id">>, <<"status", "state">>, Recent}
      [] role = "token" -> {<<"thread_id">>}
      [] role = "item" -> {<<"id", "item_id">>, <<"turn_id">>, <<"status", "state">>, Recent}

Counters == {<<"input_tokens">>, <<"output_tokens">>, <<"total_tokens">>,
             <<"cached_input_tokens", "cache_read_tokens">>}

Column(columns, role, names) == UNION {FirstOf(names, columns[t]) : t \in Table(columns, role)}

\* What detect lists as missing: the tables first, and columns once the tables are there.
MissingCapabilities(columns) ==
    LET tables == {role \in {"thread", "turn", "token"} : Table(columns, role) = {}}
        Absent(role) == {<<role, names>> : names \in {n \in Required(role) : Column(columns, role, n) = {}}}
        uncounted == \A names \in Counters : Column(columns, "token", names) = {}
    IN  IF tables # {} THEN {<<role, <<>>>> : role \in tables}
        ELSE UNION {Absent(role) : role \in {"thread", "turn", "token"}}
               \cup {<<"token", names>> : names \in {n \in Counters : uncounted}}

ItemsSupported(columns) ==
    Table(columns, "item") # {} /\ \A names \in Required("item") : Column(columns, "item", names) # {}

\* read_snapshot: the first reader that fits.
Reader(columns) ==
    IF StateThreadsSchema(columns) THEN "StateThreads"
    ELSE IF ThreadHistorySchema(columns) THEN "ThreadHistory"
    ELSE IF MissingCapabilities(columns) = {} THEN "Supported" ELSE "Unsupported"

\* The columns the chosen reader's queries name.
QueriedColumns(columns) ==
    LET Optional(table, names) == IF table \in DOMAIN columns THEN names \cap columns[table] ELSE {}
        Of(table, names) == {<<table, name>> : name \in names}
        Chosen(role) == UNION {Of(t, UNION {Column(columns, role, n) : n \in Required(role)})
                                 : t \in Table(columns, role)}
    IN  CASE Reader(columns) = "StateThreads" ->
               Of("threads", {"id", "updated_at_ms", "tokens_used"} \cup Optional("threads", {"archived"}))
          [] Reader(columns) = "ThreadHistory" ->
               Of("thread_turns", {"status", "started_at"} \cup Optional("thread_turns", {"completed_at"}))
                 \cup (IF ~HistoryItems(columns) THEN {}
                       ELSE Of("thread_turns", {"thread_id", "turn_id"})
                              \cup Of("thread_items", {"thread_id", "turn_id", "created_at_ms"}
                                                        \cup Optional("thread_items", {"item_type"})))
          [] Reader(columns) = "Supported" ->
               UNION {Chosen(role) : role \in {"thread", "turn", "token"}
                                       \cup (IF ItemsSupported(columns) THEN {"item"} ELSE {})}
                 \cup UNION {Of(t, UNION {Column(columns, "token", n) : n \in Counters})
                               : t \in Table(columns, "token")}
          [] OTHER -> {}

-----------------------------------------------------------------------------
(* The queries                                                               *)

Nonnegative(option) == {n \in option : n >= 0}
Coalesced(option) == IF option = {} THEN 0 ELSE CHOOSE n \in option : TRUE
SumOf(options) == FoldSet(LAMBDA row, sum : sum + Coalesced(row.value), 0, options)

\* ORDER BY time DESC LIMIT 1: SQLite puts NULL last and any of equal rows first.
Newest(rows, time) ==
    LET At(row) == IF row[time] = {} THEN -1 ELSE CHOOSE t \in row[time] : TRUE
    IN  {row \in rows : \A other \in rows : At(other) <= At(row)}

Unarchived(db) ==
    {row \in db.rows.threads : "archived" \in db.columns.threads => Coalesced(row.archived) = 0}

\* read_state_thread_token_totals; a total the ledger cannot use is zero.
ThreadTokenTotals(db) ==
    {[thread |-> row.id, tokens |-> Coalesced(Nonnegative(row.tokens_used))] : row \in Unarchived(db)}

(* read_state_threads_snapshot: the newest thread that has a count, and all  *)
(* totals, in two statements without a transaction: Codex may have written   *)
(* in between.                                                               *)
StateThreadsSnapshots(before, after) ==
    LET counted == {row \in Unarchived(before) : row.tokens_used # {}}
        With(thread, used) == [thread |-> thread, used |-> used, totals |-> ThreadTokenTotals(after)]
    IN  IF counted = {} THEN {With({}, {})}
        ELSE {With({row.id}, Nonnegative(row.tokens_used)) : row \in Newest(counted, "updated_at_ms")}

\* activity_from_status, of one name for each state.
ActivityFromStatus(option) ==
    LET status == IF option = {} THEN "" ELSE CHOOSE s \in option : TRUE
    IN  CASE status \in {"failed", "error"} -> "Failed"
          [] status \in {"waiting", "approval_required"} -> "WaitingForUser"
          [] status \in {"running", "in_progress"} -> "Executing"
          [] status \in {"thinking", "active"} -> "Thinking"
          [] status \in {"completed", "succeeded"} -> "Completed"
          [] status = "idle" -> "Idle"
          [] OTHER -> "Unknown"

\* read_token_totals: the sum of a counter over the thread's rows, if it is there.
TokenTotals(db, thread, names) ==
    LET rows == {row \in db.rows.token_usage : row.thread_id = thread}
        Sum(column) == SumOf({[row |-> row, value |-> row[column]] : row \in rows})
    IN  Nonnegative({Sum(column) : column \in {c \in Column(db.columns, "token", names) : rows # {}}})

\* Mutant: the newest item of all turns is taken.
ItemsOfAnyTurn(db, turn) == IF "items" \in DOMAIN db.columns THEN Newest(db.rows.items, "updated_at") ELSE {}

ItemsOfTurn(db, turn) ==
    IF ItemsSupported(db.columns) /\ turn # {}
    THEN Newest({row \in db.rows.items : row.turn_id \in {t.id : t \in turn}}, "updated_at") ELSE {}

\* read_supported_snapshot: the newest thread, its newest turn and that turn's newest item.
SupportedSnapshots(db) ==
    LET None(rows) == IF rows = {} THEN {{}} ELSE {{row} : row \in rows}
        Turns(thread) == None(Newest({row \in db.rows.turns : row.thread_id = thread.id}, "updated_at"))
        Ids(rows) == {row.id : row \in rows}
        Statuses(rows) == {ActivityFromStatus(row.status) : row \in rows}
        Snapshot(thread, turn, item) ==
            [thread |-> {thread.id}, turn |-> Ids(turn), item |-> Ids(item),
             states |-> Statuses(turn) \cup Statuses(item),
             total |-> TokenTotals(db, thread.id, <<"total_tokens">>),
             input |-> TokenTotals(db, thread.id, <<"input_tokens">>)]
        Empty == [thread |-> {}, turn |-> {}, item |-> {}, states |-> {}, total |-> {}, input |-> {}]
        Read(thread, turn) == {Snapshot(thread, turn, item) : item \in None(ItemsOfTurn(db, turn))}
        OfThread(thread) == UNION {Read(thread, turn) : turn \in Turns(thread)}
    IN  IF db.rows.threads = {} THEN {Empty}
        ELSE UNION {OfThread(thread) : thread \in Newest(db.rows.threads, "updated_at")}

-----------------------------------------------------------------------------
(* What must hold of every database, checked in module MCDecisions.          *)

(* A column a query names exists, so an older or newer Codex never makes a   *)
(* read fail half way; what is accepted stays accepted when Codex adds a     *)
(* column (lib.rs:110-162, 300-560).                                         *)
QueriesFit(columns, added) ==
    LET more == [t \in DOMAIN columns |-> columns[t] \cup added]
        names == {c[2] : c \in {q \in QueriedColumns(columns) : q[1] = "threads"}}
    IN  /\ \A q \in QueriedColumns(columns) : q[1] \in DOMAIN columns /\ q[2] \in columns[q[1]]
        /\ Reader(columns) # "Unsupported" => Reader(more) # "Unsupported"
        /\ Reader(columns) \in {"StateThreads", "Supported"} =>
             names \cap {"updated_at_ms", "updated_at", "created_at", "timestamp"} # {}

(* A refusal says what is lacking: the list is never empty, everything in it *)
(* is really absent, and a database that gets the first name of each is      *)
(* accepted, at the latest when the columns of its new tables have come too; *)
(* an accepted one can count tokens (lib.rs:445-530).                        *)
RefusalExplained(columns) ==
    LET missing == MissingCapabilities(columns)
        Name(role) == CASE role = "thread" -> "threads" [] role = "turn" -> "turns" [] OTHER -> "token_usage"
        TableFor(role) == IF Table(columns, role) = {} THEN Name(role) ELSE CHOOSE t \in Table(columns, role) : TRUE
        Gains(table) == {Head(m[2]) : m \in {n \in missing : n[2] # <<>> /\ TableFor(n[1]) = table}}
        tables == DOMAIN columns \cup {TableFor(m[1]) : m \in missing}
        completed == [t \in tables |-> (IF t \in DOMAIN columns THEN columns[t] ELSE {}) \cup Gains(t)]
        tablesMissing == \E m \in missing : m[2] = <<>>
    IN  /\ Reader(columns) = "Unsupported" => missing # {}
        /\ \A m \in missing : m[2] # <<>> => Column(columns, m[1], m[2]) = {}
        /\ IF tablesMissing THEN \A n \in MissingCapabilities(completed) : n[2] # <<>>
           ELSE MissingCapabilities(completed) = {}
        /\ Reader(columns) = "Supported" => \E names \in Counters : Column(columns, "token", names) # {}

(* Threads the user put away are in no total, no total is negative, and the  *)
(* newest thread's figure is its total as well, or less where Codex has      *)
(* counted on between the two statements (lib.rs:626-682).                   *)
TotalsOfLiveThreads(before, after) ==
    LET PutAway(db, id) == \E row \in db.rows.threads : row.id = id /\ row.archived = {1} IN
    \A s \in StateThreadsSnapshots(before, after) :
      /\ \A total \in s.totals : total.tokens >= 0 /\ ~PutAway(after, total.thread)
      /\ \A id \in s.thread : ~PutAway(before, id)
      /\ \A id \in s.thread, used \in s.used : ~PutAway(after, id) =>
           \E total \in s.totals : /\ total.thread = id /\ total.tokens >= used
                                   /\ before = after => total.tokens = used
      /\ \A row \in before.rows.threads : (row.archived = {0} /\ row.tokens_used # {}) => s.thread # {}

(* The turn of a snapshot is of its thread and the item is of its turn, its  *)
(* counts are of the thread and not negative, and without evidence the       *)
(* state is unknown (lib.rs:562-624, 827-853).                               *)
SnapshotIsOneThread(db) ==
    \A s \in SupportedSnapshots(db) :
      /\ \A id \in s.turn : \E row \in db.rows.turns : row.id = id /\ row.thread_id \in s.thread
      /\ \A id \in s.item : \E row \in db.rows.items : row.id = id /\ row.turn_id \in s.turn
      /\ \A n \in s.total \cup s.input : n >= 0
      /\ (s.total \cup s.input # {}) => \E row \in db.rows.token_usage : row.thread_id \in s.thread
      /\ s.turn = {} => s.states = {}
=============================================================================
