----------------------------- MODULE ToolGateway -----------------------------
(***************************************************************************)
(* ToolGateway.call (tool_gateway.py) over the `tool_calls` table, which   *)
(* is both the audit log of every call and the cache that answers repeated *)
(* calls, across runs and processes.                                       *)
(*                                                                         *)
(* A connection is one `with transaction()` block at a time: a node opens  *)
(* it, makes some calls and lets it end.  Between the lookup and the       *)
(* record of a miss the real tool runs, and other connections move.        *)
(* Postgres isolates at READ COMMITTED; now(), and so created_at, is the   *)
(* start of the transaction.                                               *)
(*                                                                         *)
(* Data: an argument record stands for its sanitized hash (calls that      *)
(* differ only in a credential share it); an output stands for the real    *)
(* call that produced it, named by the id of that call's row.  The three   *)
(* early raises of `call` (unknown tool, role not allowed, bad arguments)  *)
(* write nothing and are stuttering steps here.                            *)
(***************************************************************************)
EXTENDS Naturals

CONSTANTS Conns,       \* connections of the pools of all processes
          Tools,       \* registered tool names
          Args,        \* sanitized argument hashes
          Versions,    \* tool_version of the releases that run side by side
          Categories,  \* what classify_exception can answer
          NoCategory,  \* error_category IS NULL
          Cached,      \* tools whose policy is idempotent with a TTL
          TTL,         \* cache_ttl_seconds, in ticks
          MaxTime,     \* bound: the clock stops here
          MaxCalls     \* bound: calls made in all

ASSUME GatewayAssumption == /\ Cached \subseteq Tools
                            /\ TTL \in Nat
                            /\ MaxTime \in Nat
                            /\ MaxCalls \in Nat
                            /\ NoCategory \notin Categories
                            /\ "schema_invalid" \in Categories

VARIABLES now,      \* the server's clock
          table,    \* committed rows of tool_calls
          tx,       \* idle, open, or aborted by a failed statement
          start,    \* transaction start, the DEFAULT now() of created_at
          version,  \* release of the process behind each connection
          call,     \* the call whose implementation is running
          pending,  \* rows inserted by the open transaction
          made,     \* ids of the calls the open transaction has completed
          closed,   \* history: completed calls, and how their transactions ended
          lastId    \* ids handed out so far

txVars == <<tx, start, version, call, pending, made>>
vars   == <<now, table, txVars, closed, lastId>>

NoCall == [tool |-> "none"]
NoOut == 0          \* output IS NULL
Calls == [tool : Tools, args : Args]

Rows == [id : 1..MaxCalls, tool : Tools, args : Args, version : Versions,
         out : 0..MaxCalls, truncated : BOOLEAN, hit : BOOLEAN,
         err : Categories \cup {NoCategory}, created : 0..MaxTime]
-----------------------------------------------------------------------------
Init == /\ now = 0
        /\ table = {}
        /\ tx = [c \in Conns |-> "idle"]
        /\ start = [c \in Conns |-> 0]
        /\ version \in [Conns -> Versions]
        /\ call = [c \in Conns |-> NoCall]
        /\ pending = [c \in Conns |-> {}]
        /\ made = [c \in Conns |-> {}]
        /\ closed = {}
        /\ lastId = 0

Begin(c) == /\ tx[c] = "idle"
            /\ tx' = [tx EXCEPT ![c] = "open"]
            /\ start' = [start EXCEPT ![c] = now]
            /\ UNCHANGED <<now, table, version, call, pending, made, closed, lastId>>

\* READ COMMITTED: committed rows and the transaction's own.
Visible(c) == table \cup pending[c]

\* Mutant: a bumped tool_version does not invalidate.
SameToolArgs(c, t, a, r) == r.tool = t /\ r.args = a

SameKey(c, t, a, r) == /\ r.tool = t
                       /\ r.args = a
                       /\ r.version = version[c]

Sound(r) == /\ ~ r.truncated
            /\ r.err = NoCategory
            /\ r.out # NoOut

\* The WHERE clause of _lookup_cache.  Rows of earlier hits qualify.
Fresh(c, t, a) == {r \in Visible(c) : /\ SameKey(c, t, a, r)
                                      /\ Sound(r)
                                      /\ r.created + TTL >= start[c]}

\* ORDER BY created_at DESC LIMIT 1: any of the newest.
Newest(S) == {r \in S : \A s \in S : s.created <= r.created}

Servable(c, t, a) == IF t \in Cached THEN Newest(Fresh(c, t, a)) ELSE {}

\* _record_call: a row with a fresh id, in the open transaction.
Row(c, t, a, out, trunc, hit, err) ==
  [id |-> lastId + 1, tool |-> t, args |-> a, version |-> version[c],
   out |-> out, truncated |-> trunc, hit |-> hit, err |-> err,
   created |-> start[c]]

\* Mutant: the call completes and nothing is inserted.
RecordNothing(c, row) == /\ UNCHANGED pending
                         /\ made' = [made EXCEPT ![c] = @ \cup {row.id}]
                         /\ lastId' = lastId + 1

Record(c, row) == /\ pending' = [pending EXCEPT ![c] = @ \cup {row}]
                  /\ made' = [made EXCEPT ![c] = @ \cup {row.id}]
                  /\ lastId' = lastId + 1

Ready(c) == /\ tx[c] = "open"
            /\ call[c] = NoCall
            /\ lastId < MaxCalls

\* Lookup, validation of the stored output, audit row with cache_hit = TRUE.
Hit(c) == /\ Ready(c)
          /\ \E t \in Tools, a \in Args : \E r \in Servable(c, t, a) :
                Record(c, Row(c, t, a, r.out, FALSE, TRUE, NoCategory))
          /\ UNCHANGED <<now, table, tx, start, version, call, closed>>

\* Not cacheable or nothing servable: the implementation starts.
Miss(c) == /\ Ready(c)
           /\ \E t \in Tools, a \in Args :
                /\ Servable(c, t, a) = {}
                /\ call' = [call EXCEPT ![c] = [tool |-> t, args |-> a]]
           /\ UNCHANGED <<now, table, tx, start, version, pending, made,
                          closed, lastId>>

Running(c) == /\ tx[c] = "open"
              /\ call[c] # NoCall
              /\ lastId < MaxCalls

EndCall(c) == /\ call' = [call EXCEPT ![c] = NoCall]
              /\ UNCHANGED <<now, table, start, version, closed>>

\* The output validates; over max_result_bytes only a marker is stored.
ImplReturns(c) ==
  /\ Running(c)
  /\ \E trunc \in BOOLEAN :
        Record(c, Row(c, call[c].tool, call[c].args, lastId + 1, trunc, FALSE, NoCategory))
  /\ EndCall(c)
  /\ UNCHANGED tx

\* The implementation raises (any category, or none), or its output fails
\* output_schema: the row has no output, and the exception is re-raised.
ImplFails(c) ==
  /\ Running(c)
  /\ \E e \in Categories \cup {NoCategory} :
        Record(c, Row(c, call[c].tool, call[c].args, NoOut, FALSE, FALSE, e))
  /\ EndCall(c)
  /\ UNCHANGED tx

\* A statement on this connection fails: the write of evidence_store_write, or
\* the INSERT of the row itself.  The transaction is aborted, so `call` raises
\* and no row of it can be recorded.
StatementFails(c) ==
  /\ Running(c)
  /\ tx' = [tx EXCEPT ![c] = "aborted"]
  /\ made' = [made EXCEPT ![c] = @ \cup {lastId + 1}]
  /\ lastId' = lastId + 1
  /\ EndCall(c)
  /\ UNCHANGED pending

Leave(c) == /\ tx' = [tx EXCEPT ![c] = "idle"]
            /\ call' = [call EXCEPT ![c] = NoCall]
            /\ pending' = [pending EXCEPT ![c] = {}]
            /\ made' = [made EXCEPT ![c] = {}]
            /\ start' = [start EXCEPT ![c] = 0]
            /\ UNCHANGED <<now, version>>

\* The block ends with the exception handled, or with none to handle.  COMMIT
\* of an aborted transaction is a ROLLBACK.
End(c) == /\ tx[c] # "idle"
          /\ call[c] = NoCall
          /\ table' = IF tx[c] = "open" THEN table \cup pending[c] ELSE table
          /\ closed' = closed \cup [id : made[c], tx : {tx[c]}]
          /\ Leave(c)
          /\ UNCHANGED lastId

\* The implementation raises and the caller lets the exception out of the
\* block (Deep's evidence writes): the row just recorded, and all others of
\* the transaction, are rolled back.
Propagate(c) ==
  /\ Running(c)
  /\ lastId' = lastId + 1
  /\ closed' = closed \cup [id : made[c] \cup {lastId + 1}, tx : {"aborted"}]
  /\ Leave(c)
  /\ UNCHANGED table

\* The process dies with the transaction open.
Crash(c) == /\ tx[c] # "idle"
            /\ Leave(c)
            /\ UNCHANGED <<table, closed, lastId>>

Tick == /\ now < MaxTime
        /\ now' = now + 1
        /\ UNCHANGED <<table, txVars, closed, lastId>>

Next == \/ \E c \in Conns : \/ Begin(c) \/ Hit(c) \/ Miss(c)
                            \/ ImplReturns(c) \/ ImplFails(c) \/ StatementFails(c)
                            \/ End(c) \/ Propagate(c) \/ Crash(c)
        \/ Tick

Spec == Init /\ [][Next]_vars
-----------------------------------------------------------------------------
TypeOK == /\ now \in 0..MaxTime
          /\ table \subseteq Rows
          /\ tx \in [Conns -> {"idle", "open", "aborted"}]
          /\ start \in [Conns -> 0..MaxTime]
          /\ version \in [Conns -> Versions]
          /\ call \in [Conns -> Calls \cup {NoCall}]
          /\ pending \in [Conns -> SUBSET Rows]
          /\ made \in [Conns -> SUBSET (1..MaxCalls)]
          /\ closed \subseteq [id : 1..MaxCalls, tx : {"open", "aborted"}]
          /\ lastId \in 0..MaxCalls

\* Row s is the real call whose output row r carries.
SourceOf(r, s) == /\ s.id = r.out
                  /\ ~ s.hit
                  /\ s.tool = r.tool
                  /\ s.args = r.args
                  /\ s.version = r.version
                  /\ Sound(s)

\* Whatever chain of hits it went through, a cached answer is the output of a
\* real call of the same tool, version and arguments that succeeded, was not
\* truncated, and whose own row is committed: no error, no marker, no output
\* of another release and nothing from a rolled-back transaction is served.
HitHasSource == \A r \in table : r.hit => \E s \in table : SourceOf(r, s)

\* The audit log is as complete as its transactions: when a block ends clean,
\* every call it completed, whether it hit, missed, raised or drifted, has a
\* row, and otherwise none of them has one.
AuditFollowsTransaction ==
  \A e \in closed : e.tx = "open" <=> \E r \in table : r.id = e.id

\* Doc of tool_gateway.py: calls hit the cache "when idempotent + within TTL":
\* the output served was obtained at most TTL before.
HitWithinTTL == \A r, s \in table : r.hit /\ SourceOf(r, s) => r.created <= s.created + TTL
=============================================================================
