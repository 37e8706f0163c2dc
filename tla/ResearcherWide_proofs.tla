------------------------ MODULE ResearcherWide_proofs ------------------------
(***************************************************************************)
(* Proofs about ResearcherWide, for any outlines, turn caps, hand-off caps *)
(* and budgets.                                                            *)
(*                                                                         *)
(* The notes of a section are replaced when it ends, so QueueHasSection    *)
(* and ForcedExitKeepsSeen need to know that an id whose turn has not come *)
(* has no notes yet (Untouched), and all of them where each section stands *)
(* in the outline (Position).                                              *)
(***************************************************************************)
EXTENDS ResearcherWide, FiniteSetTheorems, TLAPS

\* One exit per section gone through.
Position == /\ pc \in {"turn", "calls"} => idx = Len(exits) + 1
            /\ pc \in {"section", "done"} => idx = Len(exits)
            /\ pc = "failed" => idx = Len(exits) \/ idx = Len(exits) + 1

Untouched == \A i \in Ids : notes[i] # {} => \E j \in 1..Len(exits) : outline[j] = i

HandedOff == Cardinality(queue) <= MaxHandoff * Len(exits)

Marked == lastErr # NoCategory <=> ForcedOut # {}

IInv == /\ TypeOK
        /\ Position
        /\ Untouched
        /\ HandedOff
        /\ Marked
        /\ QueueHasSection
        /\ OverrunByOneResponse
        /\ ForcedExitKeepsSeen
        /\ ForcedExitIsNoted

LEMMA OutlineType == ASSUME TypeOK
                     PROVE  /\ outline \in Seq(Ids) /\ Len(outline) \in Nat
                            /\ \A i \in 1..Len(outline) : outline[i] \in Ids
BY WideAssumption DEF TypeOK

\* A cap lets through no more than it should, and nothing else.
LEMMA HandoffsBounded ==
  ASSUME NEW S \in SUBSET Papers, NEW H \in Handoffs(S)
  PROVE  /\ H \subseteq S
         /\ IsFiniteSet(H)
         /\ Cardinality(H) <= MaxHandoff
<1>1. H \subseteq S /\ Cardinality(H) <= MaxHandoff
  BY WideAssumption DEF Handoffs
<1>2. IsFiniteSet(H)
  BY <1>1, WideAssumption, FS_Subset
<1> QED
  BY <1>1, <1>2

\* What the end of a section has in common, whichever way it ends: papers are
\* noted, some of them queued, and an exit is recorded.
EndsSection(papers, H, category) ==
  /\ pc \in {"turn", "calls"}
  /\ notes' = [notes EXCEPT ![outline[idx]] = papers]
  /\ queue' = queue \cup H
  /\ exits' = Append(exits, [category |-> category, seen |-> seen])
  /\ lastErr' = IF category = NoCategory THEN lastErr ELSE category
  /\ category # NoCategory => papers = seen
  /\ pc' = "section"
  /\ seen' = seen
  /\ UNCHANGED <<outline, idx, noted>>

\* The section at idx is there, and the exits are those before it.
LEMMA InSection ==
  ASSUME TypeOK, Position, pc \in {"turn", "calls"}
  PROVE  /\ idx \in 1..Len(outline) /\ outline[idx] \in Ids
         /\ idx = Len(exits) + 1 /\ Len(exits) \in Nat
         /\ \A j \in 1..Len(exits) : j \in 1..Len(outline) /\ j # idx
<1>1. idx \in 0..Len(outline) /\ Len(exits) \in Nat
  BY DEF TypeOK
<1>2. idx = Len(exits) + 1
  BY DEF Position
<1> QED
  BY <1>1, <1>2, OutlineType

LEMMA EndsSectionStep ==
  ASSUME IInv, NEW papers \in SUBSET Papers, NEW H \in SUBSET papers,
         IsFiniteSet(H), Cardinality(H) <= MaxHandoff,
         NEW category \in Categories \cup {NoCategory},
         EndsSection(papers, H, category),
         turn' \in 0..MaxTurns, tokens' \in Nat, tokens' <= Budget + MaxUsage,
         mismatch' \in BOOLEAN, more' \in 0..MaxCalls
  PROVE  IInv'
<1> DEFINE Exit == [category : Categories \cup {NoCategory}, seen : SUBSET Papers]
           x == [category |-> category, seen |-> seen]
           n == Len(exits)
<1>1. /\ idx \in 1..Len(outline) /\ outline[idx] \in Ids
      /\ idx = n + 1 /\ n \in Nat
      /\ \A j \in 1..n : j \in 1..Len(outline) /\ j # idx
  BY InSection DEF IInv, EndsSection
<1>2. /\ exits \in Seq(Exit) /\ x \in Exit
      /\ exits' = Append(exits, x)
  BY DEF IInv, TypeOK, EndsSection
<1>3. /\ exits' \in Seq(Exit) /\ Len(exits') = n + 1
      /\ \A j \in 1..n : exits'[j] = exits[j]
      /\ exits'[n + 1] = x
  BY <1>1, <1>2
<1>4. /\ notes' \in [Ids -> SUBSET Papers]
      /\ notes'[outline[idx]] = papers
      /\ \A i \in Ids : i # outline[idx] => notes'[i] = notes[i]
  BY <1>1 DEF EndsSection, IInv, TypeOK
<1>5. /\ UNCHANGED <<outline, idx, noted, seen>>
      /\ pc' = "section" /\ queue' = queue \cup H
      /\ lastErr' = IF category = NoCategory THEN lastErr ELSE category
      /\ category # NoCategory => papers = seen
  BY DEF EndsSection
<1> HIDE DEF Exit, x, n
<1>6. TypeOK'
  <2>1. exits' \in Seq([category : Categories \cup {NoCategory}, seen : SUBSET Papers])
    BY <1>3 DEF Exit
  <2> QED
    BY <1>4, <1>5, <2>1 DEF IInv, TypeOK
<1>7. Position'
  BY <1>1, <1>3, <1>5 DEF Position
<1>8. Untouched'
  BY <1>1, <1>3, <1>4, <1>5 DEF IInv, Untouched, n
<1>9. HandedOff'
  <2>1. IsFiniteSet(queue) /\ IsFiniteSet(queue \cap H)
    BY WideAssumption, FS_Subset DEF IInv, TypeOK
  <2>2. /\ Cardinality(queue \cup H) = Cardinality(queue) + Cardinality(H)
                                       - Cardinality(queue \cap H)
        /\ Cardinality(queue) \in Nat /\ Cardinality(H) \in Nat
        /\ Cardinality(queue \cap H) \in Nat
    BY <2>1, FS_Union, FS_CardinalityType
  <2>3. Cardinality(queue) <= MaxHandoff * n
    BY DEF IInv, HandedOff, n
  <2>4. MaxHandoff * (n + 1) = MaxHandoff * n + MaxHandoff /\ MaxHandoff * n \in Nat
    BY <1>1, WideAssumption
  <2>5. Cardinality(queue') <= MaxHandoff * (n + 1)
    BY <1>5, <2>2, <2>3, <2>4, WideAssumption
  <2> QED
    BY <1>3, <2>5 DEF HandedOff
<1>10. ForcedOut' = IF category = NoCategory THEN ForcedOut ELSE ForcedOut \cup {n + 1}
  <2>1. x.category = category
    BY DEF x
  <2> QED
    BY <1>1, <1>3, <2>1 DEF ForcedOut, n
<1>11. Marked'
  BY <1>5, <1>10 DEF IInv, Marked
<1>12. ASSUME DistinctIds
       PROVE  notes[outline[idx]] = {} /\ \A j \in 1..n : outline[j] # outline[idx]
  BY <1>1, <1>12 DEF DistinctIds, IInv, Untouched, n
<1>13. QueueHasSection'
  <2>1. ASSUME DistinctIds, NEW p \in queue'
        PROVE  \E i \in Ids : p \in notes'[i]
    BY <1>1, <1>4, <1>5, <1>12, <2>1 DEF IInv, QueueHasSection, Noted
  <2> QED
    BY <1>5, <2>1 DEF QueueHasSection, DistinctIds, Noted
<1>14. ForcedExitKeepsSeen'
  <2>1. ASSUME DistinctIds, NEW i \in ForcedOut'
        PROVE  exits'[i].seen \subseteq notes'[outline[i]]
    <3>1. CASE i \in ForcedOut
      <4>1. i \in 1..n
        BY <3>1 DEF ForcedOut, n
      <4>2. exits[i].seen \subseteq notes[outline[i]]
        BY <2>1, <3>1 DEF IInv, ForcedExitKeepsSeen
      <4>3. outline[i] \in Ids
        BY <4>1, <1>1, OutlineType DEF IInv
      <4> QED
        BY <1>3, <1>4, <1>12, <2>1, <4>1, <4>2, <4>3
    <3>2. CASE i \notin ForcedOut
      <4>1. i = n + 1 /\ category # NoCategory
        BY <1>10, <2>1, <3>2
      <4> QED
        BY <1>1, <1>3, <1>4, <1>5, <4>1 DEF x
    <3> QED
      BY <3>1, <3>2
  <2> QED
    BY <1>5, <2>1 DEF ForcedExitKeepsSeen, DistinctIds
<1> QED
  BY <1>5, <1>6, <1>7, <1>8, <1>9, <1>11, <1>13, <1>14
  DEF IInv, OverrunByOneResponse, ForcedExitIsNoted

\* Both ways for a section to end are such ends.
LEMMA CompleteEnds ==
  ASSUME IInv, pc \in {"turn", "calls"}, seen' = seen,
         NEW C \in SUBSET Papers, NEW F \in SUBSET C, Complete(C, F)
  PROVE  \E papers \in SUBSET Papers : \E H \in SUBSET papers :
            /\ IsFiniteSet(H) /\ Cardinality(H) <= MaxHandoff
            /\ \E category \in Categories \cup {NoCategory} : EndsSection(papers, H, category)
<1>1. PICK H \in Handoffs(F \ queue) : queue' = queue \cup H
  BY DEF Complete
<1>2. H \subseteq F \ queue /\ IsFiniteSet(H) /\ Cardinality(H) <= MaxHandoff
  BY HandoffsBounded
<1>3. EndsSection(C, H, NoCategory)
  BY <1>1 DEF Complete, Note, EndsSection
<1> QED
  BY <1>2, <1>3

LEMMA ForcedExitEnds ==
  ASSUME IInv, pc \in {"turn", "calls"}, seen' = seen,
         NEW category \in Categories, ForcedExit(category)
  PROVE  \E papers \in SUBSET Papers : \E H \in SUBSET papers :
            /\ IsFiniteSet(H) /\ Cardinality(H) <= MaxHandoff
            /\ \E k \in Categories \cup {NoCategory} : EndsSection(papers, H, k)
<1>1. PICK H \in Handoffs(seen) : queue' = queue \cup H
  BY DEF ForcedExit
<1>2. seen \in SUBSET Papers
  BY DEF IInv, TypeOK
<1>3. H \subseteq seen /\ IsFiniteSet(H) /\ Cardinality(H) <= MaxHandoff
  BY <1>2, HandoffsBounded
<1>4. category # NoCategory
  BY WideAssumption DEF Categories
<1>5. EndsSection(seen, H, category)
  <2>1. lastErr' = IF category = NoCategory THEN lastErr ELSE category
    BY <1>4 DEF ForcedExit, Mark
  <2> QED
    BY <1>1, <2>1 DEF ForcedExit, Note, EndsSection
<1> QED
  BY <1>2, <1>3, <1>5

\* Steps that end no section.
LEMMA LoopStep ==
  ASSUME IInv, TypeOK', Position', OverrunByOneResponse', ForcedExitIsNoted',
         UNCHANGED <<outline, notes, queue, lastErr, exits>>
  PROVE  IInv'
BY DEF IInv, Untouched, HandedOff, Marked, QueueHasSection, DistinctIds, Noted,
       ForcedExitKeepsSeen, ForcedOut

\* One response adds what it reports to a section within its budget.
LEMMA InvokeBounds ==
  ASSUME IInv, Invoke
  PROVE  /\ turn' \in 0..MaxTurns
         /\ tokens' \in Nat
         /\ tokens' <= Budget + MaxUsage
<1>1. turn \in 0..MaxTurns /\ tokens \in Nat
  BY DEF IInv, TypeOK
<1> QED
  BY <1>1, WideAssumption DEF Invoke, TurnsLeft, OverBudget

LEMMA InitIInv == Init => IInv
<1> SUFFICES ASSUME Init PROVE IInv
  OBVIOUS
<1>1. TypeOK
  <2>1. idx \in 0..Len(outline)
    BY WideAssumption DEF Init
  <2>2. exits \in Seq([category : Categories \cup {NoCategory}, seen : SUBSET Papers])
    BY DEF Init
  <2>3. turn \in 0..MaxTurns /\ more \in 0..MaxCalls /\ tokens \in Nat
    BY WideAssumption DEF Init
  <2>4. mismatch \in BOOLEAN
    BY DEF Init
  <2> QED
    BY <2>1, <2>2, <2>3, <2>4 DEF Init, TypeOK
<1>2. ForcedOut = {}
  BY DEF Init, ForcedOut
<1>3. HandedOff
  BY FS_EmptySet, WideAssumption DEF Init, HandedOff
<1> QED
  BY <1>1, <1>2, <1>3, WideAssumption
  DEF Init, IInv, Position, Untouched, Marked, QueueHasSection, Noted,
      OverrunByOneResponse, ForcedExitKeepsSeen, ForcedExitIsNoted

LEMMA Inductive == Spec => []IInv
<1>1. IInv /\ [Next]_vars => IInv'
  <2> SUFFICES ASSUME IInv, [Next]_vars PROVE IInv'
    OBVIOUS
  <2> USE DEF loop
  <2>1. ASSUME Refuse PROVE IInv'
    BY <2>1, LoopStep
    DEF Refuse, IInv, TypeOK, Position, OverrunByOneResponse, ForcedExitIsNoted
  <2>2. ASSUME NextSection PROVE IInv'
    <3>1. idx' \in 0..Len(outline')
      BY <2>2, OutlineType DEF NextSection, IInv, TypeOK
    <3>4. turn' \in 0..MaxTurns /\ more' \in 0..MaxCalls /\ tokens' \in Nat
      BY <2>2, WideAssumption DEF NextSection
    <3>5. mismatch' \in BOOLEAN
      BY <2>2 DEF NextSection
    <3>2. TypeOK'
      BY <2>2, <3>1, <3>4, <3>5 DEF NextSection, IInv, TypeOK
    <3>3. Position'
      BY <2>2 DEF NextSection, IInv, TypeOK, Position
    <3> QED
      BY <2>2, <3>2, <3>3, LoopStep, WideAssumption
      DEF NextSection, OverrunByOneResponse, ForcedExitIsNoted
  <2>3. ASSUME TurnCap \/ BudgetExit PROVE IInv'
    <3>1. PICK category \in Categories : ForcedExit(category)
      BY <2>3 DEF TurnCap, BudgetExit, Categories
    <3>2. pc = "turn" /\ UNCHANGED loop
      BY <2>3 DEF TurnCap, BudgetExit, AtTurn
    <3>3. /\ turn' \in 0..MaxTurns /\ tokens' \in Nat /\ tokens' <= Budget + MaxUsage
          /\ mismatch' \in BOOLEAN /\ more' \in 0..MaxCalls
      BY <3>2 DEF IInv, TypeOK, OverrunByOneResponse
    <3> QED
      BY <3>1, <3>2, <3>3, ForcedExitEnds, EndsSectionStep
  <2>4. ASSUME InvokeCalls PROVE IInv'
    <3>1. more' \in 0..MaxCalls
      BY <2>4, WideAssumption DEF InvokeCalls
    <3> QED
      BY <2>4, <3>1, InvokeBounds, LoopStep
      DEF InvokeCalls, Invoke, AtTurn, IInv, TypeOK, Position, OverrunByOneResponse,
          ForcedExitIsNoted
  <2>5. ASSUME InvokeContent PROVE IInv'
    <3>1. PICK C \in SUBSET Papers : \E F \in SUBSET C : Complete(C, F)
      BY <2>5 DEF InvokeContent
    <3>2. pc = "turn" /\ UNCHANGED <<seen, mismatch, more>> /\ Invoke
      BY <2>5 DEF InvokeContent, Invoke, AtTurn
    <3>3. mismatch' \in BOOLEAN /\ more' \in 0..MaxCalls
      BY <3>2 DEF IInv, TypeOK
    <3> QED
      BY <3>1, <3>2, <3>3, InvokeBounds, CompleteEnds, EndsSectionStep
  <2>6. ASSUME InvokeStops PROVE IInv'
    <3>1. PICK category \in Categories : ForcedExit(category)
      BY <2>6 DEF InvokeStops
    <3>2. pc = "turn" /\ UNCHANGED <<seen, mismatch, more>> /\ Invoke
      BY <2>6 DEF InvokeStops, Invoke, AtTurn
    <3>3. mismatch' \in BOOLEAN /\ more' \in 0..MaxCalls
      BY <3>2 DEF IInv, TypeOK
    <3> QED
      BY <3>1, <3>2, <3>3, InvokeBounds, ForcedExitEnds, EndsSectionStep
  <2>7. ASSUME InvokeRaises PROVE IInv'
    BY <2>7, LoopStep
    DEF InvokeRaises, AtTurn, IInv, TypeOK, Position, OverrunByOneResponse, ForcedExitIsNoted
  <2>8. ASSUME SubmitOk PROVE IInv'
    <3>1. PICK C \in SUBSET Papers : \E F \in SUBSET C : Complete(C, F)
      BY <2>8 DEF SubmitOk
    <3>2. pc = "calls" /\ UNCHANGED loop
      BY <2>8 DEF SubmitOk, AtCall
    <3>3. /\ turn' \in 0..MaxTurns /\ tokens' \in Nat /\ tokens' <= Budget + MaxUsage
          /\ mismatch' \in BOOLEAN /\ more' \in 0..MaxCalls
      BY <3>2 DEF IInv, TypeOK, OverrunByOneResponse
    <3> QED
      BY <3>1, <3>2, <3>3, CompleteEnds, EndsSectionStep
  <2>9. ASSUME SubmitMismatch \/ CallFails \/ ToolAnswers PROVE IInv'
    <3>1. /\ AtCall /\ NextCall
          /\ seen' \in SUBSET Papers /\ mismatch' \in BOOLEAN
      BY <2>9 DEF SubmitMismatch, CallFails, ToolAnswers, IInv, TypeOK
    <3>2. more' \in 0..MaxCalls
      BY <3>1, WideAssumption DEF AtCall, NextCall, IInv, TypeOK
    <3> QED
      BY <3>1, <3>2, LoopStep
      DEF AtCall, NextCall, IInv, TypeOK, Position, OverrunByOneResponse, ForcedExitIsNoted
  <2>10. ASSUME EndTurn PROVE IInv'
    BY <2>10, LoopStep
    DEF EndTurn, IInv, TypeOK, Position, OverrunByOneResponse, ForcedExitIsNoted
  <2>11. ASSUME Finish PROVE IInv'
    BY <2>11, LoopStep
    DEF Finish, IInv, TypeOK, Position, OverrunByOneResponse, Marked, ForcedExitIsNoted,
        ForcedOut
  <2>12. ASSUME UNCHANGED vars PROVE IInv'
    BY <2>12, LoopStep
    DEF vars, IInv, TypeOK, Position, OverrunByOneResponse, ForcedExitIsNoted, ForcedOut
  <2> QED
    BY <2>1, <2>2, <2>3, <2>4, <2>5, <2>6, <2>7, <2>8, <2>9, <2>10, <2>11, <2>12
    DEF Next, Step, Done
<1> QED
  BY InitIInv, <1>1, PTL DEF Spec

\* The variables keep their types.
THEOREM TypeCorrect == Spec => []TypeOK
<1>1. IInv => TypeOK
  BY DEF IInv
<1> QED
  BY <1>1, Inductive, PTL

\* With distinct section ids, every queued paper has a section.
THEOREM QueuedPapersHaveSections == Spec => []QueueHasSection
<1>1. IInv => QueueHasSection
  BY DEF IInv
<1> QED
  BY <1>1, Inductive, PTL

\* The queue grows by at most the cap with every section.
THEOREM HandoffIsBounded == Spec => []HandoffBound
<1>1. IInv => HandoffBound
  <2> SUFFICES ASSUME IInv PROVE HandoffBound
    OBVIOUS
  <2>1. /\ Len(exits) \in Nat /\ MaxHandoff \in Nat
        /\ idx = Len(exits) \/ idx = Len(exits) + 1
    BY WideAssumption DEF IInv, TypeOK, Position
  <2>2. MaxHandoff * (Len(exits) + 1) = MaxHandoff * Len(exits) + MaxHandoff
    BY <2>1
  <2>3. Cardinality(queue) \in Nat /\ MaxHandoff * Len(exits) \in Nat
    BY <2>1, WideAssumption, FS_Subset, FS_CardinalityType DEF IInv, TypeOK
  <2> QED
    BY <2>1, <2>2, <2>3 DEF IInv, HandedOff, HandoffBound
<1> QED
  BY <1>1, Inductive, PTL

\* A section overruns its token budget by one response at the most.
THEOREM BudgetOverrunIsBounded == Spec => []OverrunByOneResponse
<1>1. IInv => OverrunByOneResponse
  BY DEF IInv
<1> QED
  BY <1>1, Inductive, PTL

\* With distinct section ids, no section loses what it saw before it was
\* forced out.
THEOREM ForcedExitsKeepSeen == Spec => []ForcedExitKeepsSeen
<1>1. IInv => ForcedExitKeepsSeen
  BY DEF IInv
<1> QED
  BY <1>1, Inductive, PTL

\* The run carries a category if and only if some section was forced out.
THEOREM ForcedExitsAreNoted == Spec => []ForcedExitIsNoted
<1>1. IInv => ForcedExitIsNoted
  BY DEF IInv
<1> QED
  BY <1>1, Inductive, PTL

\* What the node hands to the next ones is what NodeContracts says: notes for
\* planned sections only, no queued paper without one when the section ids are
\* distinct, and a category if and only if a section was forced out.
THEOREM DeliversAsPromised == Spec => []Delivers
<1>1. IInv => Delivers
  <2> SUFFICES ASSUME IInv, pc = "done"
               PROVE  WideDelivers(outline, notes, queue, ForcedOut # {}, noted, NoCategory)
    BY DEF Delivers
  <2>1. /\ Len(outline) \in Nat /\ DOMAIN outline = 1..Len(outline)
        /\ DOMAIN notes = Ids
    BY OutlineType DEF IInv, TypeOK
  <2>2. \A j \in 1..Len(exits) : j \in DOMAIN outline
    BY <2>1 DEF IInv, TypeOK, Position
  <2>3. ASSUME NEW s \in Ids, notes[s] # {} PROVE s \in Planned(outline)
    BY <2>2, <2>3 DEF IInv, Untouched, Planned
  <2>4. ASSUME Distinct(outline) PROVE queue \subseteq NotedUnder(Planned(outline), notes)
    <3>1. queue \subseteq Noted
      BY <2>1, <2>4 DEF Distinct, DistinctIds, IInv, QueueHasSection
    <3> QED
      BY <2>3, <3>1 DEF Noted, NotedUnder
  <2>5. ForcedOut # {} <=> noted # NoCategory
    BY DEF IInv, ForcedExitIsNoted
  <2> QED
    BY <2>1, <2>3, <2>4, <2>5 DEF WideDelivers
<1> QED
  BY <1>1, Inductive, PTL
=============================================================================
