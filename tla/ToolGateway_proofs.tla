------------------------- MODULE ToolGateway_proofs -------------------------
(***************************************************************************)
(* Proofs about ToolGateway, for any number of connections, tools,         *)
(* releases and calls, and any TTL.                                        *)
(*                                                                         *)
(* HitHasSource speaks of committed rows only, but a hit may copy a row of *)
(* its own open transaction: Provenance extends it to what each connection *)
(* can see.  AuditFollowsTransaction needs to know whose ids are whose:    *)
(* Ownership says that every id belongs to one open transaction, or to a   *)
(* closed one, or to a crashed one, and never to two.                      *)
(***************************************************************************)
EXTENDS ToolGateway, TLAPS

\* Row r tells the truth about where its output comes from, given rows S.
Genuine(S, r) == /\ r.hit => \E s \in S : SourceOf(r, s)
                 /\ ~ r.hit /\ r.out # NoOut => r.out = r.id

Provenance == /\ \A r \in table : Genuine(table, r)
              /\ \A c \in Conns : \A r \in pending[c] : Genuine(Visible(c), r)

Ownership ==
  /\ \A r \in table : r.id <= lastId
  /\ \A e \in closed : e.id <= lastId
  /\ \A c \in Conns :
       /\ \A i \in made[c] : /\ i <= lastId
                             /\ \A r \in table : r.id # i
                             /\ \A e \in closed : e.id # i
       /\ \A r \in pending[c] : r.id \in made[c]
       /\ tx[c] = "idle" => made[c] = {}
       /\ tx[c] = "open" => \A i \in made[c] : \E r \in pending[c] : r.id = i
  /\ \A c, d \in Conns : c # d => made[c] \cap made[d] = {}

IInv == /\ TypeOK
        /\ Provenance
        /\ Ownership
        /\ AuditFollowsTransaction

\* A new row in an open transaction, as _record_call makes it.
LEMMA RowType ==
  ASSUME TypeOK, lastId < MaxCalls,
         NEW c \in Conns, NEW t \in Tools, NEW a \in Args, NEW out \in 0..MaxCalls,
         NEW trunc \in BOOLEAN, NEW hit \in BOOLEAN,
         NEW e \in Categories \cup {NoCategory}
  PROVE  Row(c, t, a, out, trunc, hit, e) \in Rows
BY GatewayAssumption DEF Row, Rows, TypeOK

\* Recording it keeps the types of what it touches.
LEMMA RecordType ==
  ASSUME TypeOK, lastId < MaxCalls, NEW c \in Conns, NEW row \in Rows, Record(c, row)
  PROVE  /\ pending' \in [Conns -> SUBSET Rows]
         /\ made' \in [Conns -> SUBSET (1..MaxCalls)]
         /\ lastId' \in 0..MaxCalls
<1>1. row.id \in 1..MaxCalls
  BY DEF Rows
<1> QED
  BY <1>1, GatewayAssumption DEF Record, TypeOK

\* The invariant holds before anything is called.
LEMMA InitIInv == Init => IInv
BY GatewayAssumption
DEF Init, IInv, TypeOK, Provenance, Ownership, AuditFollowsTransaction, Visible

\* What a lookup can serve is a sound row of the same key that the connection
\* sees.
LEMMA ServableSound ==
  ASSUME NEW c \in Conns, NEW t, NEW a, NEW r \in Servable(c, t, a)
  PROVE  r \in Visible(c) /\ SameKey(c, t, a, r) /\ Sound(r)
<1>1. CASE t \in Cached
  BY <1>1 DEF Servable, Newest, Fresh
<1>2. CASE t \notin Cached
  BY <1>2 DEF Servable
<1> QED
  BY <1>1, <1>2

\* Every action keeps every variable in its type.
LEMMA TypeStep == TypeOK /\ [Next]_vars => TypeOK'
<1> SUFFICES ASSUME TypeOK, [Next]_vars PROVE TypeOK'
  OBVIOUS
<1> USE GatewayAssumption
<1>1. ASSUME NEW c \in Conns, Begin(c) PROVE TypeOK'
  BY <1>1 DEF Begin, TypeOK
<1>2. ASSUME NEW c \in Conns, Hit(c) PROVE TypeOK'
  <2>1. PICK t \in Tools, a \in Args :
          \E r \in Servable(c, t, a) :
             Record(c, Row(c, t, a, r.out, FALSE, TRUE, NoCategory))
    BY <1>2 DEF Hit
  <2>2. PICK r \in Servable(c, t, a) :
          Record(c, Row(c, t, a, r.out, FALSE, TRUE, NoCategory))
    BY <2>1
  <2>3. r.out \in 0..MaxCalls
    BY ServableSound DEF TypeOK, Visible, Rows
  <2>4. lastId < MaxCalls
    BY <1>2 DEF Hit, Ready
  <2>5. Row(c, t, a, r.out, FALSE, TRUE, NoCategory) \in Rows
    BY <2>3, <2>4, RowType
  <2> QED
    BY <1>2, <2>2, <2>4, <2>5, RecordType DEF Hit, TypeOK
<1>3. ASSUME NEW c \in Conns, Miss(c) PROVE TypeOK'
  BY <1>3 DEF Miss, TypeOK, Calls
<1>4. ASSUME NEW c \in Conns, Running(c) PROVE call[c] \in Calls /\ lastId < MaxCalls
  BY <1>4 DEF Running, TypeOK
<1>5. ASSUME NEW c \in Conns, ImplReturns(c) PROVE TypeOK'
  <2>1. Running(c) /\ EndCall(c) /\ UNCHANGED tx
    BY <1>5 DEF ImplReturns
  <2>2. PICK trunc \in BOOLEAN :
          Record(c, Row(c, call[c].tool, call[c].args, lastId + 1, trunc, FALSE, NoCategory))
    BY <1>5 DEF ImplReturns
  <2>3. /\ call[c].tool \in Tools
        /\ call[c].args \in Args
        /\ lastId < MaxCalls
        /\ lastId + 1 \in 0..MaxCalls
    BY <2>1, <1>4 DEF Calls, TypeOK
  <2>4. Row(c, call[c].tool, call[c].args, lastId + 1, trunc, FALSE, NoCategory) \in Rows
    BY <2>3, RowType
  <2> QED
    BY <2>1, <2>2, <2>3, <2>4, RecordType DEF EndCall, TypeOK
<1>6. ASSUME NEW c \in Conns, ImplFails(c) PROVE TypeOK'
  <2>1. Running(c) /\ EndCall(c) /\ UNCHANGED tx
    BY <1>6 DEF ImplFails
  <2>2. PICK e \in Categories \cup {NoCategory} :
          Record(c, Row(c, call[c].tool, call[c].args, NoOut, FALSE, FALSE, e))
    BY <1>6 DEF ImplFails
  <2>3. /\ call[c].tool \in Tools
        /\ call[c].args \in Args
        /\ lastId < MaxCalls
        /\ NoOut \in 0..MaxCalls
    BY <2>1, <1>4 DEF Calls, TypeOK, NoOut
  <2>4. Row(c, call[c].tool, call[c].args, NoOut, FALSE, FALSE, e) \in Rows
    BY <2>3, RowType
  <2> QED
    BY <2>1, <2>2, <2>3, <2>4, RecordType DEF EndCall, TypeOK
<1>7. ASSUME NEW c \in Conns, StatementFails(c) PROVE TypeOK'
  <2>1. lastId + 1 \in 1..MaxCalls
    BY <1>4, <1>7 DEF StatementFails, TypeOK
  <2>2. made' \in [Conns -> SUBSET (1..MaxCalls)] /\ lastId' \in 0..MaxCalls
    BY <1>7, <2>1 DEF StatementFails, TypeOK
  <2>3. tx' \in [Conns -> {"idle", "open", "aborted"}]
    BY <1>7 DEF StatementFails, TypeOK
  <2>4. call' \in [Conns -> Calls \cup {NoCall}]
    BY <1>7 DEF StatementFails, EndCall, TypeOK
  <2> QED
    BY <1>7, <2>2, <2>3, <2>4 DEF StatementFails, EndCall, TypeOK
<1>8. ASSUME NEW c \in Conns, End(c) PROVE TypeOK'
  BY <1>8 DEF End, Leave, TypeOK
<1>9. ASSUME NEW c \in Conns, Crash(c) PROVE TypeOK'
  BY <1>9 DEF Crash, Leave, TypeOK
<1>12. ASSUME NEW c \in Conns, Propagate(c) PROVE TypeOK'
  <2>1. lastId + 1 \in 1..MaxCalls
    BY <1>4, <1>12 DEF Propagate, TypeOK
  <2>2. closed' \subseteq [id : 1..MaxCalls, tx : {"open", "aborted"}]
    BY <1>12, <2>1 DEF Propagate, TypeOK
  <2> QED
    BY <1>12, <2>1, <2>2 DEF Propagate, Leave, TypeOK
<1>10. ASSUME Tick PROVE TypeOK'
  BY <1>10 DEF Tick, txVars, TypeOK
<1>11. ASSUME UNCHANGED vars PROVE TypeOK'
  BY <1>11 DEF vars, txVars, TypeOK
<1> QED
  BY <1>1, <1>2, <1>3, <1>5, <1>6, <1>7, <1>8, <1>9, <1>10, <1>11, <1>12
  DEF Next

\* A row recorded in an open transaction keeps Provenance, if it is genuine
\* with respect to what the connection sees.
LEMMA RecordProvenance ==
  ASSUME TypeOK, Provenance, NEW c \in Conns, NEW row,
         Record(c, row), Genuine(Visible(c) \cup {row}, row), table' = table
  PROVE  Provenance'
<1>1. Visible(c)' = Visible(c) \cup {row}
  BY DEF Record, Visible, TypeOK
<1>2. \A r \in pending[c]' : Genuine(Visible(c)', r)
  BY <1>1 DEF Record, Provenance, Genuine, Visible, TypeOK
<1>3. ASSUME NEW d \in Conns, d # c
      PROVE  pending'[d] = pending[d] /\ Visible(d)' = Visible(d)
  BY <1>3 DEF Record, Visible, TypeOK
<1>4. ASSUME NEW d \in Conns PROVE \A r \in pending'[d] : Genuine(Visible(d)', r)
  BY <1>2, <1>3 DEF Provenance
<1>5. \A r \in table' : Genuine(table', r)
  BY DEF Provenance
<1> QED
  BY <1>4, <1>5 DEF Provenance, Genuine, SourceOf, Sound

\* Sources stay visible when a transaction ends, whichever way.
LEMMA LeaveProvenance ==
  ASSUME TypeOK, Provenance, NEW c \in Conns, Leave(c),
         table' = table \/ table' = table \cup pending[c]
  PROVE  Provenance'
<1>1. \A r \in table' : Genuine(table', r)
  BY DEF Provenance, Genuine, Visible
<1>2. ASSUME NEW d \in Conns, NEW r \in pending'[d]
      PROVE  Genuine(Visible(d)', r)
  <2>1. pending'[d] = IF d = c THEN {} ELSE pending[d]
    BY DEF Leave, TypeOK
  <2>2. r \in pending[d] /\ pending'[d] = pending[d]
    BY <1>2, <2>1
  <2>3. Visible(d) \subseteq Visible(d)'
    BY <2>2 DEF Visible
  <2> QED
    BY <2>2, <2>3 DEF Provenance, Genuine
<1> QED
  BY <1>1, <1>2 DEF Provenance, Genuine, SourceOf, Sound

\* No action breaks the provenance of a row.
LEMMA ProvenanceStep == TypeOK /\ Provenance /\ [Next]_vars => Provenance'
<1> SUFFICES ASSUME TypeOK, Provenance, [Next]_vars PROVE Provenance'
  OBVIOUS
<1>1. ASSUME table' = table, pending' = pending PROVE Provenance'
  BY <1>1 DEF Provenance, Visible, Genuine, SourceOf, Sound
<1>2. ASSUME NEW c \in Conns, Hit(c) PROVE Provenance'
  <2>1. PICK t \in Tools, a \in Args :
          \E r \in Servable(c, t, a) :
             Record(c, Row(c, t, a, r.out, FALSE, TRUE, NoCategory))
    BY <1>2 DEF Hit
  <2>2. PICK r \in Servable(c, t, a) :
          Record(c, Row(c, t, a, r.out, FALSE, TRUE, NoCategory))
    BY <2>1
  <2> DEFINE row == Row(c, t, a, r.out, FALSE, TRUE, NoCategory)
  <2>3. r \in Visible(c) /\ SameKey(c, t, a, r) /\ Sound(r)
    BY ServableSound
  <2>4. Genuine(Visible(c), r)
    BY <2>3 DEF Provenance, Visible, Genuine
  <2>5. PICK s \in Visible(c) : SourceOf(r, s)
    <3>1. CASE r.hit
      BY <3>1, <2>4 DEF Genuine
    <3>2. CASE ~ r.hit
      BY <3>2, <2>3, <2>4 DEF Genuine, SourceOf, Sound
    <3> QED
      BY <3>1, <3>2
  <2>6. SourceOf(row, s)
    BY <2>3, <2>5 DEF Row, SourceOf, SameKey
  <2>7. Genuine(Visible(c) \cup {row}, row)
    BY <2>5, <2>6 DEF Genuine, Row
  <2>8. table' = table
    BY <1>2 DEF Hit
  <2>9. Record(c, row)
    BY <2>2
  <2> HIDE DEF row
  <2> QED
    BY <2>7, <2>8, <2>9, RecordProvenance
<1>3. ASSUME NEW c \in Conns, NEW t, NEW a, NEW trunc, NEW e,
             NEW out \in {NoOut, lastId + 1},
             Record(c, Row(c, t, a, out, trunc, FALSE, e)), table' = table
      PROVE  Provenance'
  <2> DEFINE row == Row(c, t, a, out, trunc, FALSE, e)
  <2>1. Genuine(Visible(c) \cup {row}, row)
    BY DEF Genuine, Row
  <2> HIDE DEF row
  <2> QED
    BY <1>3, <2>1, RecordProvenance DEF row
<1>4. ASSUME NEW c \in Conns, ImplReturns(c) PROVE Provenance'
  BY <1>3, <1>4 DEF ImplReturns, EndCall
<1>5. ASSUME NEW c \in Conns, ImplFails(c) PROVE Provenance'
  BY <1>3, <1>5 DEF ImplFails, EndCall
<1>6. ASSUME NEW c \in Conns, End(c) PROVE Provenance'
  BY <1>6, LeaveProvenance DEF End
<1>7. ASSUME NEW c \in Conns, Crash(c) PROVE Provenance'
  BY <1>7, LeaveProvenance DEF Crash
<1>8. ASSUME NEW c \in Conns, Propagate(c) PROVE Provenance'
  BY <1>8, LeaveProvenance DEF Propagate
<1> QED
  BY <1>1, <1>2, <1>4, <1>5, <1>6, <1>7, <1>8
  DEF Next, Begin, Miss, StatementFails, EndCall, Tick, txVars, vars

\* No action breaks the ownership of ids.
LEMMA OwnershipStep == TypeOK /\ Ownership /\ [Next]_vars => Ownership'
<1> SUFFICES ASSUME TypeOK, Ownership, [Next]_vars PROVE Ownership'
  OBVIOUS
<1>1. ASSUME UNCHANGED <<table, closed, pending, made, lastId>>,
             \A c \in Conns : /\ tx'[c] = "idle" => made[c] = {}
                              /\ tx'[c] = "open" => tx[c] = "open" \/ made[c] = {}
      PROVE  Ownership'
  BY <1>1 DEF Ownership, TypeOK
<1>2. ASSUME NEW c \in Conns, NEW row, row.id = lastId + 1, Record(c, row),
             UNCHANGED <<table, closed, tx>>, tx[c] = "open"
      PROVE  Ownership'
  <2>1. /\ lastId \in Nat
        /\ lastId' = lastId + 1
        /\ \A d \in Conns : made'[d] = IF d = c THEN made[c] \cup {lastId + 1} ELSE made[d]
        /\ pending'[c] = pending[c] \cup {row}
        /\ \A d \in Conns : d # c => pending'[d] = pending[d]
        /\ \A d \in Conns : \A i \in made[d] : i \in Nat
        /\ \A r \in table : r.id \in Nat
        /\ \A e \in closed : e.id \in Nat
    BY <1>2, GatewayAssumption DEF Record, TypeOK, Rows
  <2> QED
    BY <1>2, <2>1 DEF Ownership
<1>3. ASSUME NEW c \in Conns, Hit(c) PROVE Ownership'
  BY <1>2, <1>3 DEF Hit, Row, Ready
<1>4. ASSUME NEW c \in Conns, ImplReturns(c) PROVE Ownership'
  BY <1>2, <1>4 DEF ImplReturns, EndCall, Row, Running
<1>5. ASSUME NEW c \in Conns, ImplFails(c) PROVE Ownership'
  BY <1>2, <1>5 DEF ImplFails, EndCall, Row, Running
<1>6. ASSUME NEW c \in Conns, StatementFails(c) PROVE Ownership'
  <2>1. /\ lastId \in Nat
        /\ lastId' = lastId + 1
        /\ \A d \in Conns : made'[d] = IF d = c THEN made[c] \cup {lastId + 1} ELSE made[d]
        /\ \A d \in Conns : tx'[d] = IF d = c THEN "aborted" ELSE tx[d]
        /\ UNCHANGED <<table, closed, pending>>
        /\ \A d \in Conns : \A i \in made[d] : i \in Nat
        /\ \A r \in table : r.id \in Nat
        /\ \A e \in closed : e.id \in Nat
    BY <1>6, GatewayAssumption DEF StatementFails, EndCall, TypeOK, Rows
  <2> QED
    BY <2>1 DEF Ownership
<1>7. ASSUME NEW c \in Conns, End(c) PROVE Ownership'
  <2>1. /\ \A d \in Conns : /\ made'[d] = IF d = c THEN {} ELSE made[d]
                            /\ pending'[d] = IF d = c THEN {} ELSE pending[d]
                            /\ tx'[d] = IF d = c THEN "idle" ELSE tx[d]
        /\ lastId' = lastId
        /\ table' \subseteq table \cup pending[c]
        /\ \A e \in closed' : e \in closed \/ e.id \in made[c]
    BY <1>7 DEF End, Leave, TypeOK
  <2> QED
    BY <2>1 DEF Ownership
<1>8. ASSUME NEW c \in Conns, Crash(c) PROVE Ownership'
  <2>1. /\ \A d \in Conns : /\ made'[d] = IF d = c THEN {} ELSE made[d]
                            /\ pending'[d] = IF d = c THEN {} ELSE pending[d]
                            /\ tx'[d] = IF d = c THEN "idle" ELSE tx[d]
        /\ UNCHANGED <<lastId, table, closed>>
    BY <1>8 DEF Crash, Leave, TypeOK
  <2> QED
    BY <2>1 DEF Ownership
<1>9. ASSUME NEW c \in Conns, Propagate(c) PROVE Ownership'
  <2>1. /\ \A d \in Conns : /\ made'[d] = IF d = c THEN {} ELSE made[d]
                            /\ pending'[d] = IF d = c THEN {} ELSE pending[d]
                            /\ tx'[d] = IF d = c THEN "idle" ELSE tx[d]
        /\ lastId \in Nat
        /\ lastId' = lastId + 1
        /\ table' = table
        /\ \A e \in closed' : e \in closed \/ e.id \in made[c] \cup {lastId + 1}
        /\ \A d \in Conns : \A i \in made[d] : i \in Nat
        /\ \A r \in table : r.id \in Nat
        /\ \A e \in closed : e.id \in Nat
    BY <1>9, GatewayAssumption DEF Propagate, Leave, TypeOK, Rows
  <2> QED
    BY <2>1 DEF Ownership
<1>10. ASSUME NEW c \in Conns, Begin(c) PROVE Ownership'
  BY <1>10, <1>1 DEF Begin, Ownership, TypeOK
<1>11. ASSUME NEW c \in Conns, Miss(c) PROVE Ownership'
  BY <1>11 DEF Miss, Ownership
<1>12. ASSUME Tick \/ UNCHANGED vars PROVE Ownership'
  BY <1>12 DEF Tick, txVars, vars, Ownership
<1> QED
  BY <1>3, <1>4, <1>5, <1>6, <1>7, <1>8, <1>9, <1>10, <1>11, <1>12 DEF Next

\* No action separates the log from its transactions.
LEMMA AuditStep ==
  TypeOK /\ Ownership /\ AuditFollowsTransaction /\ [Next]_vars => AuditFollowsTransaction'
<1> SUFFICES ASSUME TypeOK, Ownership, AuditFollowsTransaction, [Next]_vars
             PROVE  AuditFollowsTransaction'
  OBVIOUS
<1>1. ASSUME NEW c \in Conns, End(c) PROVE AuditFollowsTransaction'
  <2>1. closed' = closed \cup [id : made[c], tx : {tx[c]}]
    BY <1>1 DEF End
  <2>2. CASE tx[c] = "open"
    BY <1>1, <2>1, <2>2 DEF End, AuditFollowsTransaction, Ownership
  <2>3. CASE tx[c] # "open"
    BY <1>1, <2>1, <2>3 DEF End, AuditFollowsTransaction, Ownership
  <2> QED
    BY <2>2, <2>3
<1>2. ASSUME NEW c \in Conns, Propagate(c) PROVE AuditFollowsTransaction'
  <2>1. /\ closed' = closed \cup [id : made[c] \cup {lastId + 1}, tx : {"aborted"}]
        /\ table' = table
    BY <1>2 DEF Propagate
  <2>2. \A r \in table : r.id # lastId + 1
    BY GatewayAssumption DEF Ownership, TypeOK, Rows
  <2> QED
    BY <2>1, <2>2 DEF AuditFollowsTransaction, Ownership
<1>3. ASSUME UNCHANGED <<table, closed>> PROVE AuditFollowsTransaction'
  BY <1>3 DEF AuditFollowsTransaction
<1> QED
  BY <1>1, <1>2, <1>3
  DEF Next, Begin, Hit, Miss, ImplReturns, ImplFails, EndCall, StatementFails,
      Crash, Tick, vars

LEMMA Inductive == Spec => []IInv
<1>1. IInv /\ [Next]_vars => IInv'
  BY TypeStep, ProvenanceStep, OwnershipStep, AuditStep DEF IInv
<1> QED
  BY InitIInv, <1>1, PTL DEF Spec

\* The variables keep their types.
THEOREM TypeCorrect == Spec => []TypeOK
<1>1. IInv => TypeOK
  BY DEF IInv
<1> QED
  BY <1>1, Inductive, PTL

\* A cached answer is the output of a committed, successful, untruncated real
\* call of the same tool, version and arguments, however many hits, releases
\* and rolled-back transactions lie in between.
THEOREM HitsAreGenuine == Spec => []HitHasSource
<1>1. IInv => HitHasSource
  BY DEF IInv, Provenance, Genuine, HitHasSource
<1> QED
  BY <1>1, Inductive, PTL

\* The audit rows of a transaction are all there or all missing.
THEOREM AuditIsAtomic == Spec => []AuditFollowsTransaction
<1>1. IInv => AuditFollowsTransaction
  BY DEF IInv
<1> QED
  BY <1>1, Inductive, PTL
=============================================================================
