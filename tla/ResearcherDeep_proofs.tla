------------------------ MODULE ResearcherDeep_proofs ------------------------
(***************************************************************************)
(* Proofs about ResearcherDeep, for any finite sets of sections and papers *)
(* and any number of passes and crashes.                                   *)
(*                                                                         *)
(* No safety property is inductive.  AtWork says what the node knows about *)
(* the section in its hands, Backed that the papers taken as done are backed *)
(* by accepted answers, FirstIdTaken that a section with evidence has the row *)
(* numbered 0, which is what makes the second pass over it collide, and Fresh *)
(* that a pass writes no section twice.                                    *)
(***************************************************************************)
EXTENDS ResearcherDeep, FiniteSetTheorems, TLAPS

Causes == {"network", "unclassified", "unique", "database"}

\* The section in hand is known, and its papers are its own, from the queue;
\* the abstracts were fetched for it and the cards are about them.
AtWork ==
  /\ pc \in {"section", "fetch", "persist"} => queue = taken
  /\ pc \in {"fetch", "persist"} =>
       /\ cur \in known
       /\ left \subseteq PapersOf(cur)
       /\ abstracts \subseteq PapersOf(cur)
       /\ \A p \in abstracts : <<cur, p>> \in fetched
  /\ pc = "persist" => \A c \in cards : c.section = cur /\ c.paper \in abstracts

Backed == \A p \in processed : \E s \in Sections : <<s, p>> \in answered

FirstIdTaken == \A e \in evidence : \E f \in evidence : f.section = e.section /\ f.n = 0

Remembered == broken # {} => lastErr # NoCategory

IInv == /\ TypeOK
        /\ AtWork
        /\ Backed
        /\ Remembered
        /\ FirstIdTaken
        /\ LeavesOnlyAnswered
        /\ EvidenceGrounded
        /\ OnePassPerSection
        /\ FailureIsNoted

LEMMA CategoriesAreSome == NoCategory \notin Categories
BY DeepAssumption DEF Categories

\* There are finitely many cards to write, so they can be numbered.
LEMMA CardsFinite == \A batch \in SUBSET Card : IsFiniteSet(batch)
<1> DEFINE fields == [c \in Card |-> <<<<c.section, c.paper>>, c.claim>>]
<1>1. fields \in Injection(Card, (Sections \X Papers) \X Claims)
  BY DEF Injection, IsInjective, Card
<1>2. IsFiniteSet((Sections \X Papers) \X Claims)
  BY DeepAssumption, FS_Product
<1>3. IsFiniteSet(Card)
  BY <1>1, <1>2, FS_Injection
<1> QED
  BY <1>3, FS_Subset

\* A batch that is not empty uses number 0, and numbers are natural.
LEMMA NumberZeroUsed ==
  ASSUME NEW batch \in SUBSET Card, NEW s, NEW f \in Numberings(batch, FirstNumber(s))
  PROVE  /\ \A c \in batch : f[c] \in Nat
         /\ batch # {} => \E c \in batch : f[c] = 0
<1>1. IsFiniteSet(batch) /\ Cardinality(batch) \in Nat
  BY CardsFinite, FS_CardinalityType
<1>2. batch # {} => Cardinality(batch) # 0
  BY <1>1, FS_EmptySet
<1>3. /\ f \in [batch -> 0..(0 + Cardinality(batch) - 1)]
      /\ \A n \in 0..(0 + Cardinality(batch) - 1) : \E c \in batch : f[c] = n
  BY DEF Numberings, FirstNumber
<1>4. batch # {} => 0 \in 0..(0 + Cardinality(batch) - 1)
  BY <1>1, <1>2
<1> QED
  BY <1>1, <1>3, <1>4

\* What Fetch does, lookup by lookup.
LEMMA FetchCases ==
  ASSUME Fetch
  PROVE  \/ /\ pc = "fetch"
            /\ \E p \in left : /\ left' = left \ {p}
                               /\ \/ /\ abstracts' = abstracts \cup {p}
                                     /\ fetched' = fetched \cup {<<cur, p>>}
                                  \/ UNCHANGED <<abstracts, fetched>>
            /\ UNCHANGED <<input, queue, evidence, pc, taken, todo, cur, cards,
                           processed, lastErr, noted, bounds, answered, broken, cause>>
         \/ /\ pc = "fetch"
            /\ \E o \in Categories : DropTransient(o)
         \/ /\ pc = "fetch"
            /\ \E o \in Causes : Raise(o)
<1>1. PICK p \in left : \E o \in Fetched(p) :
        \/ /\ o \in {"abstract", "absent"}
           /\ left' = left \ {p}
           /\ IF o = "abstract"
              THEN /\ abstracts' = abstracts \cup {p}
                   /\ fetched' = fetched \cup {<<cur, p>>}
              ELSE UNCHANGED <<abstracts, fetched>>
           /\ UNCHANGED <<input, queue, evidence, pc, taken, todo, cur, cards,
                          processed, lastErr, noted, bounds, answered, broken, cause>>
        \/ /\ Classified(o)
           /\ DropTransient(o)
        \/ /\ o \in {"network", "unclassified"}
           /\ Raise(o)
  BY DEF Fetch
<1> QED
  BY <1>1 DEF Fetch, Classified, Categories, Causes

\* An accepted answer covers exactly the papers it was asked about.
LEMMA AcceptedAnswer ==
  ASSUME AskAccepted
  PROVE  /\ pc = "fetch"
         /\ cards' \subseteq {c \in Card : c.section = cur /\ c.paper \in abstracts}
         /\ answered' = answered \cup ({cur} \X abstracts)
<1>1. PICK r \in Reports : /\ cards' = r.cards
                           /\ answered' = answered \cup ({cur} \X r.processed)
  BY DEF AskAccepted
<1>2. PICK a \in Answers : /\ Accept(a)
                           /\ r = [processed |-> a.processed, cards |-> Kept(a)]
  BY DEF Reports
<1>3. a.cards \subseteq Card
  BY DEF Answers
<1> QED
  BY <1>1, <1>2, <1>3 DEF AskAccepted, Accept, Kept

\* A commit: its rows, and no row of the section before it unless it is empty.
LEMMA PersistCases ==
  ASSUME Persist, TypeOK, AtWork, FirstIdTaken
  PROVE  \/ \E why \in Causes : Raise(why)
         \/ /\ pc' = "section"
            /\ cur' = None /\ abstracts' = {} /\ cards' = {}
            /\ UNCHANGED <<input, queue, taken, todo, left, processed, lastErr,
                           noted, bounds, history>>
            /\ \E f : /\ \A c \in cards : f[c] \in Nat
                      /\ cards # {} => \E c \in cards : f[c] = 0
                      /\ evidence' = evidence \cup
                           {[section |-> cur, paper |-> c.paper, n |-> f[c],
                             pass |-> pass + restarts] : c \in cards}
            /\ cards # {} => \A e \in evidence : e.section # cur
<1>1. PICK f \in Numberings(cards, FirstNumber(cur)) :
        IF \E c \in cards : Taken(cur, f[c])
        THEN Raise("unique")
        ELSE /\ evidence' = evidence \cup
                  {[section |-> cur, paper |-> c.paper, n |-> f[c],
                    pass |-> pass + restarts] : c \in cards}
             /\ pc' = "section"
             /\ cur' = None /\ abstracts' = {} /\ cards' = {}
             /\ UNCHANGED <<input, queue, taken, todo, left, processed, lastErr,
                            noted, bounds, history>>
  BY DEF Persist
<1>2. CASE \E c \in cards : Taken(cur, f[c])
  BY <1>1, <1>2 DEF Causes
<1>3. CASE ~ \E c \in cards : Taken(cur, f[c])
  <2>1. /\ \A c \in cards : f[c] \in Nat
        /\ cards # {} => \E c \in cards : f[c] = 0
    BY NumberZeroUsed DEF TypeOK
  <2>2. cards # {} => ~ Taken(cur, 0)
    BY <1>3, <2>1
  <2>3. cards # {} => \A e \in evidence : e.section # cur
    BY <2>2 DEF Taken, FirstIdTaken
  <2> QED
    BY <1>1, <1>3, <2>1, <2>3
<1> QED
  BY <1>2, <1>3

\* The invariant holds when the node is first entered.
LEMMA InitIInv == Init => IInv
BY DeepAssumption
DEF Init, IInv, TypeOK, AtWork, Backed, FirstIdTaken, Remembered,
    LeavesOnlyAnswered, EvidenceGrounded, OnePassPerSection, FailureIsNoted

\* The ways out of a section that write nothing.
LEMMA DropStep ==
  ASSUME IInv, pc = "fetch", Drop, broken' = broken, lastErr' = lastErr
  PROVE  IInv'
BY DEF Drop, input, bounds, IInv, TypeOK, AtWork, Backed, FirstIdTaken, Remembered,
       LeavesOnlyAnswered, EvidenceGrounded, OnePassPerSection, FailureIsNoted

LEMMA DropTransientStep ==
  ASSUME IInv, pc = "fetch", NEW category \in Categories, DropTransient(category)
  PROVE  IInv'
<1>1. cur \in Sections
  BY DEF IInv, TypeOK, AtWork
<1> QED
  BY <1>1, CategoriesAreSome
  DEF DropTransient, Drop, input, bounds, IInv, TypeOK, AtWork, Backed, FirstIdTaken,
      Remembered, LeavesOnlyAnswered, EvidenceGrounded, OnePassPerSection, FailureIsNoted

LEMMA RaiseStep == ASSUME IInv, NEW why \in Causes, Raise(why) PROVE IInv'
BY DEF Raise, Forget, Causes, input, bounds, IInv, TypeOK, AtWork, Backed, FirstIdTaken, Remembered,
       LeavesOnlyAnswered, EvidenceGrounded, OnePassPerSection, FailureIsNoted

LEMMA EnterStep == ASSUME IInv, Enter PROVE IInv'
BY DEF Enter, input, bounds, IInv, TypeOK, AtWork, Backed, FirstIdTaken, Remembered,
       LeavesOnlyAnswered, EvidenceGrounded, OnePassPerSection, FailureIsNoted

LEMMA SectionStep == ASSUME IInv, SkipUnknown \/ PickSection PROVE IInv'
<1>1. CASE SkipUnknown
  BY <1>1
  DEF SkipUnknown, input, bounds, history, IInv, TypeOK, AtWork, Backed, FirstIdTaken,
      Remembered, LeavesOnlyAnswered, EvidenceGrounded, OnePassPerSection, FailureIsNoted
<1>2. CASE PickSection
  BY <1>2
  DEF PickSection, PapersOf, input, bounds, history, IInv, TypeOK, AtWork, Backed,
      FirstIdTaken, Remembered, LeavesOnlyAnswered, EvidenceGrounded, OnePassPerSection,
      FailureIsNoted
<1> QED
  BY <1>1, <1>2

LEMMA FetchStep == ASSUME IInv, Fetch PROVE IInv'
<1>1. ASSUME pc = "fetch", NEW p \in left, left' = left \ {p},
             \/ /\ abstracts' = abstracts \cup {p}
                /\ fetched' = fetched \cup {<<cur, p>>}
             \/ UNCHANGED <<abstracts, fetched>>,
             UNCHANGED <<input, queue, evidence, pc, taken, todo, cur, cards,
                         processed, lastErr, noted, bounds, answered, broken, cause>>
      PROVE  IInv'
  <2>1. cur \in Sections /\ p \in Papers
    BY <1>1 DEF IInv, TypeOK, AtWork
  <2>2. UNCHANGED <<known, notes, pass, restarts>>
    BY <1>1 DEF input, bounds
  <2>3. TypeOK'
    BY <1>1, <2>1, <2>2 DEF IInv, TypeOK
  <2>4. AtWork'
    BY <1>1, <2>2 DEF IInv, AtWork, PapersOf
  <2>5. EvidenceGrounded'
    BY <1>1, <2>2 DEF IInv, EvidenceGrounded
  <2> QED
    BY <1>1, <2>2, <2>3, <2>4, <2>5
    DEF IInv, Backed, FirstIdTaken, Remembered, LeavesOnlyAnswered, OnePassPerSection,
        FailureIsNoted
<1> QED
  BY <1>1, FetchCases, DropTransientStep, RaiseStep

LEMMA AskAcceptedStep == ASSUME IInv, AskAccepted PROVE IInv'
<1>1. cur \in Sections /\ pc = "fetch"
  BY AcceptedAnswer DEF IInv, TypeOK, AtWork
<1>2. /\ UNCHANGED <<known, notes, queue, evidence, taken, todo, cur, left, abstracts,
                     lastErr, noted, pass, restarts, fetched, broken, cause>>
      /\ processed' = processed \cup abstracts
      /\ pc' = "persist"
  BY DEF AskAccepted, input, bounds
<1>3. TypeOK'
  BY <1>1, <1>2, AcceptedAnswer DEF IInv, TypeOK
<1>4. AtWork'
  BY <1>1, <1>2, AcceptedAnswer DEF IInv, AtWork, PapersOf
<1>5. Backed'
  BY <1>1, <1>2, AcceptedAnswer DEF IInv, Backed
<1> QED
  BY <1>2, <1>3, <1>4, <1>5
  DEF IInv, FirstIdTaken, Remembered, LeavesOnlyAnswered, EvidenceGrounded,
      OnePassPerSection, FailureIsNoted

LEMMA PersistStep == ASSUME IInv, pc = "persist", Persist PROVE IInv'
<1>1. ASSUME NEW why \in Causes, Raise(why) PROVE IInv'
  BY <1>1, RaiseStep
<1>2. ASSUME pc' = "section", cur' = None, abstracts' = {}, cards' = {},
             UNCHANGED <<input, queue, taken, todo, left, processed, lastErr,
                         noted, bounds, history>>,
             NEW f, \A c \in cards : f[c] \in Nat,
             cards # {} => \E c \in cards : f[c] = 0,
             evidence' = evidence \cup
               {[section |-> cur, paper |-> c.paper, n |-> f[c],
                 pass |-> pass + restarts] : c \in cards},
             cards # {} => \A e \in evidence : e.section # cur
      PROVE  IInv'
  <2>1. /\ UNCHANGED <<known, notes, queue, taken, todo, left, processed, lastErr,
                       noted, pass, restarts, fetched, answered, broken, cause>>
        /\ cur \in Sections /\ cur \in known
        /\ \A c \in cards : /\ c.paper \in Papers
                            /\ c.paper \in notes[cur]
                            /\ <<cur, c.paper>> \in fetched
    BY <1>2 DEF input, bounds, history, IInv, TypeOK, AtWork, PapersOf, Card
  <2>2. ASSUME NEW e \in evidence', e \notin evidence
        PROVE  \E c \in cards : /\ e.section = cur /\ e.paper = c.paper
                                /\ e.n = f[c] /\ e.pass = pass + restarts
                                /\ e = [section |-> cur, paper |-> c.paper, n |-> f[c],
                                        pass |-> pass + restarts]
    BY <1>2, <2>2
  <2>3. \A c \in cards : \E e \in evidence' : e.section = cur /\ e.n = f[c]
    <3> TAKE c \in cards
    <3> DEFINE row == [section |-> cur, paper |-> c.paper, n |-> f[c],
                       pass |-> pass + restarts]
    <3>1. row \in evidence'
      BY <1>2
    <3>2. row.section = cur /\ row.n = f[c]
      OBVIOUS
    <3> QED
      BY <3>1, <3>2
  <2>4. TypeOK'
    <3>1. pass + restarts \in Nat
      BY DEF IInv, TypeOK
    <3>2. \A e \in evidence' : e \in [section : Sections, paper : Papers, n : Nat, pass : Nat]
      <4> SUFFICES ASSUME NEW e \in evidence', e \notin evidence
                   PROVE  e \in [section : Sections, paper : Papers, n : Nat, pass : Nat]
        BY DEF IInv, TypeOK
      <4>1. PICK c \in cards : e = [section |-> cur, paper |-> c.paper, n |-> f[c],
                                   pass |-> pass + restarts]
        BY <2>2
      <4> QED
        BY <1>2, <2>1, <3>1, <4>1
    <3> QED
      BY <1>2, <2>1, <3>2 DEF IInv, TypeOK
  <2>5. AtWork'
    BY <1>2, <2>1 DEF IInv, AtWork
  <2>6. FirstIdTaken'
    <3> SUFFICES ASSUME NEW e \in evidence'
                 PROVE  \E g \in evidence' : g.section = e.section /\ g.n = 0
      BY DEF FirstIdTaken
    <3>1. CASE e \in evidence
      BY <1>2, <3>1 DEF IInv, FirstIdTaken
    <3>2. CASE e \notin evidence
      BY <1>2, <2>2, <2>3, <3>2
    <3> QED
      BY <3>1, <3>2
  <2>7. EvidenceGrounded'
    <3> SUFFICES ASSUME NEW e \in evidence'
                 PROVE  /\ e.section \in known
                        /\ e.paper \in notes[e.section]
                        /\ <<e.section, e.paper>> \in fetched
      BY <2>1 DEF EvidenceGrounded
    <3>1. CASE e \in evidence
      BY <3>1 DEF IInv, EvidenceGrounded
    <3>2. CASE e \notin evidence
      BY <2>1, <2>2, <3>2
    <3> QED
      BY <3>1, <3>2
  <2>8. OnePassPerSection'
    <3> SUFFICES ASSUME NEW e \in evidence', NEW g \in evidence', e.section = g.section
                 PROVE  e.pass = g.pass
      BY DEF OnePassPerSection
    <3> QED
      BY <1>2, <2>2 DEF IInv, OnePassPerSection
  <2> QED
    BY <1>2, <2>1, <2>4, <2>5, <2>6, <2>7, <2>8
    DEF IInv, Backed, Remembered, LeavesOnlyAnswered, FailureIsNoted
<1> QED
  BY <1>1, <1>2, PersistCases DEF IInv

LEMMA FinishStep == ASSUME IInv, Finish PROVE IInv'
<1>1. LeavesOnlyAnswered'
  BY DEF Finish, Remaining, input, local, history, IInv, TypeOK, AtWork, Backed,
         LeavesOnlyAnswered
<1>2. TypeOK'
  BY DEF Finish, Remaining, input, local, bounds, history, IInv, TypeOK
<1> QED
  BY <1>1, <1>2
  DEF Finish, input, local, bounds, history, IInv, AtWork, Backed, FirstIdTaken,
      Remembered, EvidenceGrounded, OnePassPerSection, FailureIsNoted

LEMMA ReentryStep == ASSUME IInv, Reenter \/ Restart PROVE IInv'
<1>1. CASE Reenter
  <2>1. UNCHANGED <<known, notes, queue, evidence, cur, noted, restarts, fetched, cause>>
    BY <1>1 DEF Reenter, input
  <2>2. TypeOK'
    BY <1>1, <2>1 DEF Reenter, Forget, IInv, TypeOK
  <2> QED
    BY <1>1, <2>1, <2>2
    DEF Reenter, Forget, IInv, AtWork, Backed, FirstIdTaken, Remembered, LeavesOnlyAnswered,
        EvidenceGrounded, OnePassPerSection, FailureIsNoted
<1>2. CASE Restart
  <2>1. UNCHANGED <<known, notes, queue, evidence, noted, pass, fetched, cause>>
    BY <1>2 DEF Restart, input
  <2>2. TypeOK'
    BY <1>2, <2>1 DEF Restart, Forget, IInv, TypeOK
  <2> QED
    BY <1>2, <2>1, <2>2
    DEF Restart, Forget, IInv, AtWork, Backed, FirstIdTaken, Remembered,
        LeavesOnlyAnswered, EvidenceGrounded, OnePassPerSection, FailureIsNoted
<1> QED
  BY <1>1, <1>2

LEMMA IdleStep == ASSUME IInv, UNCHANGED vars PROVE IInv'
BY DEF vars, input, local, bounds, history, IInv, TypeOK, AtWork, Backed, FirstIdTaken,
       Remembered, PapersOf, LeavesOnlyAnswered, EvidenceGrounded, OnePassPerSection,
       FailureIsNoted

LEMMA Inductive == Spec => []IInv
<1>1. IInv /\ [Next]_vars => IInv'
  <2> SUFFICES ASSUME IInv, [Next]_vars PROVE IInv'
    OBVIOUS
  <2>1. ASSUME NoAbstracts PROVE IInv'
    BY <2>1, DropStep DEF NoAbstracts
  <2>2. ASSUME AskFails \/ AskRejected PROVE IInv'
    BY <2>2, DropTransientStep DEF AskFails, AskRejected, Categories
  <2>3. ASSUME AskRaises \/ PersistFails PROVE IInv'
    BY <2>3, RaiseStep DEF AskRaises, PersistFails, Causes
  <2>4. ASSUME Persist PROVE IInv'
    BY <2>4, PersistStep DEF Persist
  <2> QED
    BY <2>1, <2>2, <2>3, <2>4, EnterStep, SectionStep, FetchStep, AskAcceptedStep,
       FinishStep, ReentryStep, IdleStep
    DEF Next, Step, Done
<1> QED
  BY InitIInv, <1>1, PTL DEF Spec

\* The variables keep their types.
THEOREM TypeCorrect == Spec => []TypeOK
<1>1. IInv => TypeOK
  BY DEF IInv
<1> QED
  BY <1>1, Inductive, PTL

\* No paper leaves the queue without an accepted answer about it.
THEOREM NoPaperLost == Spec => []LeavesOnlyAnswered
<1>1. IInv => LeavesOnlyAnswered
  BY DEF IInv
<1> QED
  BY <1>1, Inductive, PTL

\* Every committed row is about a paper noted and fetched for its section.
THEOREM EvidenceIsGrounded == Spec => []EvidenceGrounded
<1>1. IInv => EvidenceGrounded
  BY DEF IInv
<1> QED
  BY <1>1, Inductive, PTL

\* No section's evidence comes from two passes, however often the node is
\* entered again or resumed after a crash.
THEOREM EvidenceIsNotDoubled == Spec => []OnePassPerSection
<1>1. IInv => OnePassPerSection
  BY DEF IInv
<1> QED
  BY <1>1, Inductive, PTL

\* A complete pass that gave up a section on a failure left a category.
THEOREM FailuresAreNoted == Spec => []FailureIsNoted
<1>1. IInv => FailureIsNoted
  BY DEF IInv
<1> QED
  BY <1>1, Inductive, PTL

\* What keeps a pass from colliding with itself: its rows are of sections it has
\* left behind, and a node that has not failed has no cause.
Fresh ==
  /\ \A e \in evidence : e.pass <= pass + restarts
  /\ pc = "idle" => \A e \in evidence : e.pass < pass + restarts
  /\ pc \in {"section", "fetch", "persist"} =>
       \A e \in evidence : e.section \in todo => e.pass < pass + restarts
  /\ pc \in {"fetch", "persist"} =>
       cur \notin todo /\ \A e \in evidence : e.section = cur => e.pass < pass + restarts
  /\ cause # None => pc = "failed"

Unmixed == Fresh /\ CollidesOnlyOnRerun

\* Steps on a section, or past it, that write no evidence.
LEMMA QuietStep ==
  ASSUME TypeOK, Unmixed, pc \in {"section", "fetch", "persist"},
         UNCHANGED <<evidence, pass, restarts, cause>>, todo' \subseteq todo,
         \/ pc' \in {"section", "done"}
         \/ pc \in {"fetch", "persist"} /\ pc' \in {"fetch", "persist"} /\ cur' = cur
  PROVE  Unmixed'
<1>1. cause' = None
  BY DEF Unmixed, Fresh
<1>2. CollidesOnlyOnRerun'
  BY <1>1 DEF None, CollidesOnlyOnRerun
<1>3. Fresh'
  BY <1>1 DEF Unmixed, Fresh
<1> QED
  BY <1>2, <1>3 DEF Unmixed

LEMMA OtherRaise ==
  ASSUME Unmixed, NEW why \in Causes \ {"unique"}, Raise(why)
  PROVE  Unmixed'
BY DEF Raise, Causes, bounds, local, Unmixed, Fresh, CollidesOnlyOnRerun

LEMMA FetchUnmixed == ASSUME TypeOK, Unmixed, Fetch PROVE Unmixed'
<1> DEFINE Got == UNCHANGED <<input, queue, evidence, pc, taken, todo, cur, cards,
                              processed, lastErr, noted, bounds, answered, broken, cause>>
<1>1. pc = "fetch" /\ \/ Got
                      \/ \E o \in Categories : DropTransient(o)
                      \/ \E o \in Causes \ {"unique"} : Raise(o)
  <2>1. PICK p \in left : \E o \in Fetched(p) :
          \/ Got
          \/ /\ Classified(o)
             /\ DropTransient(o)
          \/ /\ o \in {"network", "unclassified"}
             /\ Raise(o)
    BY DEF Fetch
  <2> QED
    BY <2>1 DEF Fetch, Classified, Categories, Causes
<1>2. CASE Got
  BY <1>1, <1>2, QuietStep DEF bounds
<1>3. ASSUME NEW o \in Categories, DropTransient(o) PROVE Unmixed'
  BY <1>1, <1>3, QuietStep DEF DropTransient, Drop, bounds
<1> QED
  BY <1>1, <1>2, <1>3, OtherRaise

LEMMA PersistUnmixed == ASSUME TypeOK, AtWork, Unmixed, Persist PROVE Unmixed'
<1>1. PICK f : IF \E c \in cards : Taken(cur, f[c])
               THEN Raise("unique")
               ELSE /\ evidence' = evidence \cup
                         {[section |-> cur, paper |-> c.paper, n |-> f[c],
                           pass |-> pass + restarts] : c \in cards}
                    /\ pc' = "section"
                    /\ UNCHANGED <<todo, bounds, history>>
  BY DEF Persist
<1>2. pc = "persist"
  BY DEF Persist
<1>3. CASE \E c \in cards : Taken(cur, f[c])
  <2>1. PICK e \in evidence : e.section = cur
    BY <1>3 DEF Taken
  <2>2. e.pass < pass + restarts
    BY <1>2, <2>1 DEF Unmixed, Fresh
  <2>3. /\ pc' = "failed"
        /\ UNCHANGED <<evidence, cur, pass, restarts>>
    BY <1>1, <1>3 DEF Raise, local, bounds
  <2>4. CollidesOnlyOnRerun'
    BY <2>1, <2>2, <2>3 DEF CollidesOnlyOnRerun
  <2> QED
    BY <2>3, <2>4 DEF Unmixed, Fresh
<1>4. CASE ~ \E c \in cards : Taken(cur, f[c])
  <2>1. /\ pc' = "section"
        /\ UNCHANGED <<todo, pass, restarts, cause>>
        /\ cause' = None
        /\ pass + restarts \in Nat
        /\ cur \notin todo
    BY <1>1, <1>2, <1>4 DEF bounds, history, Unmixed, Fresh, TypeOK
  <2>2. ASSUME NEW e \in evidence'
        PROVE  /\ e.pass <= pass + restarts
               /\ e.section \in todo => e.pass < pass + restarts
    <3>1. CASE e \in evidence
      BY <1>2, <3>1 DEF Unmixed, Fresh
    <3>2. CASE e \notin evidence
      <4>1. PICK c \in cards : e = [section |-> cur, paper |-> c.paper, n |-> f[c],
                                    pass |-> pass + restarts]
        BY <1>1, <1>4, <3>2
      <4>2. e.section = cur /\ e.pass = pass + restarts
        BY <4>1
      <4> QED
        BY <2>1, <4>2
    <3> QED
      BY <3>1, <3>2
  <2>3. Fresh'
    BY <2>1, <2>2 DEF Fresh
  <2> QED
    BY <2>1, <2>3 DEF None, Unmixed, CollidesOnlyOnRerun
<1> QED
  BY <1>3, <1>4

\* A new entry of the node counts as a pass of its own.
LEMMA ReentryUnmixed == ASSUME TypeOK, Unmixed, Reenter \/ Restart PROVE Unmixed'
<1>1. /\ pass \in Nat /\ restarts \in Nat
      /\ \A e \in evidence : e.pass \in Nat
  BY DEF TypeOK
<1>2. /\ pc' = "idle" /\ pc # "failed"
      /\ pass' + restarts' = pass + restarts + 1
      /\ UNCHANGED <<evidence, cause>>
  BY <1>1 DEF Reenter, Restart, history
<1>3. \A e \in evidence' : e.pass < pass' + restarts'
  BY <1>1, <1>2 DEF Unmixed, Fresh
<1>4. cause' = None
  BY <1>2 DEF Unmixed, Fresh
<1>5. \A e \in evidence' : e.pass <= pass' + restarts'
  BY <1>1, <1>2, <1>3
<1> QED
  BY <1>2, <1>3, <1>4, <1>5 DEF None, Unmixed, Fresh, CollidesOnlyOnRerun

LEMMA EnterUnmixed == ASSUME TypeOK, Unmixed, Enter \/ PickSection PROVE Unmixed'
<1>1. CASE Enter
  BY <1>1 DEF Enter, bounds, None, Unmixed, Fresh, CollidesOnlyOnRerun
<1>2. CASE PickSection
  BY <1>2 DEF PickSection, bounds, history, None, Unmixed, Fresh, CollidesOnlyOnRerun
<1> QED
  BY <1>1, <1>2

LEMMA QuietSteps ==
  ASSUME TypeOK, Unmixed,
         \/ SkipUnknown \/ NoAbstracts \/ AskFails \/ AskRejected \/ AskAccepted
         \/ Finish
  PROVE  Unmixed'
<1>1. CASE SkipUnknown
  BY <1>1, QuietStep DEF SkipUnknown, bounds, history
<1>2. CASE NoAbstracts \/ AskFails \/ AskRejected
  BY <1>2, QuietStep DEF NoAbstracts, AskFails, AskRejected, DropTransient, Drop, bounds
<1>3. CASE AskAccepted
  BY <1>3, QuietStep DEF AskAccepted, bounds
<1>4. CASE Finish
  BY <1>4, QuietStep DEF Finish, local, bounds, history
<1> QED
  BY <1>1, <1>2, <1>3, <1>4

LEMMA AlwaysUnmixed == Spec => []Unmixed
<1>1. Init => Unmixed
  BY DEF Init, None, Unmixed, Fresh, CollidesOnlyOnRerun
<1>2. TypeOK /\ AtWork /\ Unmixed /\ [Next]_vars => Unmixed'
  <2> SUFFICES ASSUME TypeOK, AtWork, Unmixed, [Next]_vars PROVE Unmixed'
    OBVIOUS
  <2>1. ASSUME AskRaises \/ PersistFails PROVE Unmixed'
    BY <2>1, OtherRaise DEF AskRaises, PersistFails, Causes
  <2>2. ASSUME UNCHANGED vars PROVE Unmixed'
    BY <2>2 DEF vars, local, bounds, history, Unmixed, Fresh, CollidesOnlyOnRerun
  <2> QED
    BY <2>1, <2>2, FetchUnmixed, PersistUnmixed, ReentryUnmixed, EnterUnmixed, QuietSteps
    DEF Next, Step, Done
<1>3. IInv => TypeOK /\ AtWork
  BY DEF IInv
<1> QED
  BY <1>1, <1>2, <1>3, Inductive, PTL DEF Spec

\* An evidence id is refused only for the evidence of an earlier entry.
THEOREM CollisionsAreOfReruns == Spec => []CollidesOnlyOnRerun
<1>1. Unmixed => CollidesOnlyOnRerun
  BY DEF Unmixed
<1> QED
  BY <1>1, AlwaysUnmixed, PTL

\* What ties queue, evidence and processed papers together: what is processed was
\* handed over with an abstract to fetch, and the rows of an entry are about the
\* papers it processed.
Handed ==
  /\ \A p \in processed : p \in taken \ Web /\ \E s \in known : p \in notes[s]
  /\ \A p \in abstracts : p \notin Web
  /\ pc = "persist" => abstracts \subseteq processed
  /\ pc = "done" => queue = taken \ (processed \cup Web)
  /\ pc # "failed" => \A e \in Written : e.paper \in processed

\* Steps that process nothing and write nothing.
LEMMA HandedQuiet ==
  ASSUME Handed, pc \notin {"done", "failed"}, pc' \in {"section", "fetch"},
         UNCHANGED <<known, notes, taken, processed, evidence, pass, restarts>>,
         \A p \in abstracts' : p \notin Web
  PROVE  Handed'
BY DEF Handed, Written

LEMMA HandedDrop ==
  ASSUME Handed, pc = "fetch", Drop
  PROVE  Handed'
BY HandedQuiet DEF Drop, input, bounds

LEMMA HandedRaise == ASSUME Handed, NEW why, Raise(why) PROVE Handed'
BY DEF Handed, Written, Raise, Forget, input, bounds

\* No abstract comes for a web: paper.
LEMMA HandedFetch == ASSUME Handed, Fetch PROVE Handed'
<1>1. PICK p \in left : \E o \in Fetched(p) :
        \/ /\ o \in {"abstract", "absent"}
           /\ IF o = "abstract" THEN abstracts' = abstracts \cup {p}
              ELSE UNCHANGED abstracts
           /\ UNCHANGED <<input, evidence, pc, taken, processed, bounds>>
        \/ DropTransient(o)
        \/ Raise(o)
  BY DEF Fetch
<1>2. PICK o \in Fetched(p) :
        \/ /\ o \in {"abstract", "absent"}
           /\ IF o = "abstract" THEN abstracts' = abstracts \cup {p}
              ELSE UNCHANGED abstracts
           /\ UNCHANGED <<input, evidence, pc, taken, processed, bounds>>
        \/ DropTransient(o)
        \/ Raise(o)
  BY <1>1
<1>3. p \in Web => o = "absent"
  BY <1>2 DEF Fetched, FetchAbstract
<1>4. pc = "fetch"
  BY DEF Fetch
<1>5. CASE DropTransient(o)
  BY <1>4, <1>5, HandedDrop DEF DropTransient
<1>6. CASE Raise(o)
  BY <1>6, HandedRaise
<1>7. CASE /\ IF o = "abstract" THEN abstracts' = abstracts \cup {p}
              ELSE UNCHANGED abstracts
           /\ UNCHANGED <<input, evidence, pc, taken, processed, bounds>>
  <2>1. \A q \in abstracts' : q \notin Web
    BY <1>3, <1>7 DEF Handed
  <2> QED
    BY <1>4, <1>7, <2>1, HandedQuiet DEF input, bounds
<1> QED
  BY <1>2, <1>5, <1>6, <1>7

LEMMA HandedAccept == ASSUME IInv, Handed, AskAccepted PROVE Handed'
<1>1. /\ UNCHANGED <<known, notes, evidence, taken, abstracts, pass, restarts>>
      /\ pc = "fetch" /\ pc' = "persist"
      /\ processed' = processed \cup abstracts
  BY DEF AskAccepted, input, bounds
<1>2. /\ cur \in known
      /\ \A p \in abstracts : p \in notes[cur] /\ p \in taken
  BY <1>1 DEF IInv, AtWork, PapersOf
<1>3. \A p \in processed' : p \in taken \ Web /\ \E s \in known : p \in notes[s]
  BY <1>1, <1>2 DEF Handed
<1> QED
  BY <1>1, <1>3 DEF Handed, Written

LEMMA HandedPersist == ASSUME IInv, Handed, Persist PROVE Handed'
<1>1. CASE \E why \in Causes : Raise(why)
  BY <1>1, HandedRaise
<1>2. CASE /\ pc' = "section"
           /\ cur' = None /\ abstracts' = {} /\ cards' = {}
           /\ UNCHANGED <<input, queue, taken, todo, left, processed, lastErr,
                          noted, bounds, history>>
           /\ \E f : evidence' = evidence \cup
                       {[section |-> cur, paper |-> c.paper, n |-> f[c],
                         pass |-> pass + restarts] : c \in cards}
  <2>1. UNCHANGED <<known, notes, taken, processed, pass, restarts>>
    BY <1>2 DEF input, bounds
  <2>2. pc = "persist" /\ \A c \in cards : c.paper \in processed
    BY DEF Persist, IInv, AtWork, Handed
  <2>3. \A e \in Written' : e \in Written \/ e.paper \in processed
    BY <1>2, <2>1, <2>2 DEF Written
  <2> QED
    BY <1>2, <2>1, <2>2, <2>3 DEF Handed
<1> QED
  BY <1>1, <1>2, PersistCases DEF IInv

LEMMA HandedFinish == ASSUME IInv, Handed, Finish PROVE Handed'
<1>1. /\ UNCHANGED <<known, notes, evidence, taken, processed, abstracts, pass, restarts>>
      /\ pc = "section" /\ pc' = "done" /\ queue' = Remaining
  BY DEF Finish, input, local, bounds
<1>2. queue = taken
  BY <1>1 DEF IInv, AtWork
<1> QED
  BY <1>1, <1>2 DEF Handed, Written, Remaining

\* A new entry has written nothing yet: what is there carries earlier numbers.
LEMMA HandedEntry ==
  ASSUME TypeOK, Unmixed, Unmixed', Handed, Enter \/ Reenter \/ Restart
  PROVE  Handed'
<1>1. /\ pass \in Nat /\ restarts \in Nat
      /\ \A e \in evidence : e.pass \in Nat
  BY DEF TypeOK
<1>2. /\ pc' \in {"idle", "section"} /\ processed' = {}
      /\ UNCHANGED <<known, notes, evidence>>
      /\ \A p \in abstracts' : p \in abstracts
  BY DEF Enter, Reenter, Restart, Forget, input
<1>3. \A e \in evidence' : e.pass < pass' + restarts'
  <2>1. CASE Enter
    BY <2>1 DEF Enter, bounds, Unmixed, Fresh
  <2>2. CASE Reenter \/ Restart
    BY <2>2 DEF Reenter, Restart, Unmixed, Fresh
  <2> QED
    BY <2>1, <2>2
<1>4. pass' \in Nat /\ restarts' \in Nat
  BY <1>1 DEF Enter, Reenter, Restart, bounds
<1>5. Written' = {}
  BY <1>1, <1>2, <1>3, <1>4 DEF Written
<1> QED
  BY <1>2, <1>5 DEF Handed

LEMMA AlwaysHanded == Spec => []Handed
<1>1. Init => Handed
  BY DEF Init, Handed, Written
<1>2. IInv /\ Unmixed /\ Unmixed' /\ Handed /\ [Next]_vars => Handed'
  <2> SUFFICES ASSUME IInv, Unmixed, Unmixed', Handed, [Next]_vars PROVE Handed'
    OBVIOUS
  <2>1. ASSUME Enter \/ Reenter \/ Restart PROVE Handed'
    BY <2>1, HandedEntry DEF IInv
  <2>2. ASSUME SkipUnknown \/ PickSection PROVE Handed'
    BY <2>2, HandedQuiet DEF SkipUnknown, PickSection, input, bounds, Handed
  <2>3. ASSUME NoAbstracts \/ AskFails \/ AskRejected PROVE Handed'
    BY <2>3, HandedDrop DEF NoAbstracts, AskFails, AskRejected, DropTransient
  <2>4. ASSUME AskRaises \/ PersistFails PROVE Handed'
    BY <2>4, HandedRaise DEF AskRaises, PersistFails
  <2>5. ASSUME UNCHANGED vars PROVE Handed'
    BY <2>5 DEF vars, input, local, bounds, Handed, Written
  <2> QED
    BY <2>1, <2>2, <2>3, <2>4, <2>5, HandedFetch, HandedAccept, HandedPersist,
       HandedFinish
    DEF Next, Step, Done
<1> QED
  BY <1>1, <1>2, Inductive, AlwaysUnmixed, PTL DEF Spec

\* What an entry hands to the nodes after it is what NodeContracts says:
\* evidence of planned sections, about papers handed over for them that leave the
\* queue, a queue of the others, and a category if a section broke.
THEOREM DeliversAsPromised == Spec => []Delivers
<1>1. IInv /\ Handed => Delivers
  <2> SUFFICES ASSUME IInv, Handed, pc = "done"
               PROVE  DeepDelivers(known, notes, taken, Web, Written, queue,
                                   broken # {}, noted, NoCategory)
    BY DEF Delivers
  <2>1. queue = taken \ (processed \cup Web)
    BY DEF Handed
  <2>2. \A p \in processed : p \in NotedUnder(known, notes)
    BY DEF Handed, NotedUnder
  <2>3. ASSUME NEW r \in Written
        PROVE  /\ r.section \in known
               /\ r.paper \in (notes[r.section] \cap taken) \ (queue \cup Web)
    BY <2>1 DEF IInv, EvidenceGrounded, Handed, Written
  <2>4. broken # {} => noted # NoCategory
    BY DEF IInv, FailureIsNoted
  <2> QED
    BY <2>1, <2>2, <2>3, <2>4 DEF DeepDelivers
<1> QED
  BY <1>1, Inductive, AlwaysHanded, PTL
=============================================================================
