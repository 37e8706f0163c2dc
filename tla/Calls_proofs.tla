---------------------------- MODULE Calls_proofs ----------------------------
(***************************************************************************)
(* Proofs about StructuredCall and Tools, the two modules of what a node   *)
(* calls: for any values, any schema and any checks of the callers, any    *)
(* papers, headers, web contents and number of calls in a turn.            *)
(***************************************************************************)
EXTENDS StructuredCall, Tools, SequenceTheorems, FiniteSetTheorems,
        WellFoundedInduction, TLAPS
-----------------------------------------------------------------------------
(***************************************************************************)
(* StructuredCall.                                                         *)
(*                                                                         *)
(* No caller uses both loops: the planner and Deep let structured_call     *)
(* retry, the synthesizer repairs by itself.  So the calls made are the    *)
(* sum of the two counters, which is what AskCounted says, and there is    *)
(* never more than one complaint to send, which is Telling.                *)
(***************************************************************************)

\* One of the two loops is idle; a call that has returned counts already.
AskCounted ==
  scPc # "done" =>
    asked = round + retries + (IF scPc \in {"judge", "check", "refused"} THEN 1 ELSE 0)

\* The caller's messages, unless the answer to them has been turned down.
Telling ==
  round = 0 \/ scPc \in {"call", "invoke"} =>
    messages = IF round = 0 THEN <<Task>> ELSE <<Task, Repair(rejected)>>

\* What has been settled at each place.
Settled ==
  /\ scPc = "call" => retries = 0
  /\ scPc = "check" => value = Candidate(reply) /\ value \in Conforming
  /\ scPc = "refused" =>
       /\ lastErr = rejected
       /\ \/ retries = MaxRetries(role)
          \/ role = "researcher_deep" /\ Candidate(reply) \in Conforming
  /\ scPc # "done" => outcome = "none"

AskInv == /\ SCTypeOK
        /\ AskCounted
        /\ Telling
        /\ Settled
        /\ QuotesLastRejection
        /\ GivenUpOnlyAfterAll

\* The limits of the three callers.
LEMMA Limits ==
  ASSUME SCTypeOK
  PROVE  /\ MaxRetries(role) \in Nat /\ Repairs(role) \in Nat
         /\ CallLimit(role) = MaxRetries(role) + Repairs(role) + 1
         /\ round \in Nat /\ round <= Repairs(role)
         /\ retries \in Nat /\ retries <= MaxRetries(role)
         /\ MaxRetries(role) = 0 \/ Repairs(role) = 0
         /\ MaxRetries(role) > 0 \/ role = "synthesizer"
<1>1. CASE role = "synthesizer"
  BY <1>1 DEF SCTypeOK, MaxRetries, Repairs, CallLimit
<1>2. CASE role # "synthesizer"
  BY <1>2 DEF SCTypeOK, MaxRetries, Repairs, CallLimit
<1> QED
  BY <1>1, <1>2

\* While the question is open, the calls made are within the limit.
LEMMA WithinLimit ==
  ASSUME SCTypeOK, AskCounted, scPc # "done"
  PROVE  /\ asked \in Nat
         /\ scPc \in {"judge", "check", "refused"} => asked \in 1..CallLimit(role)
         /\ scPc \in {"call", "invoke"} => asked < CallLimit(role)
BY Limits DEF AskCounted, SCTypeOK

LEMMA MessageTypes ==
  /\ Task \in Messages /\ SchemaPrompt \in Messages
  /\ \A d \in Docs \cup {NoDoc} : Corrective(d) \in Messages /\ Repair(d) \in Messages
BY DEF Task, SchemaPrompt, Corrective, Repair, Messages

\* How short sequences are put together.
LEMMA Glued ==
  ASSUME NEW a \in Messages, NEW b \in Messages, NEW c \in Messages
  PROVE  /\ <<>> \o <<b>> = <<b>>
         /\ <<>> \o <<b, c>> = <<b, c>>
         /\ <<a>> \o <<b>> = <<a, b>>
         /\ <<a>> \o <<b, c>> = <<a, b, c>>
         /\ <<a, b>> \o <<c>> = <<a, b, c>>
         /\ Append(<<a>>, b) = <<a, b>>
<1>1. /\ <<a>> \in Seq(Messages) /\ <<b>> \in Seq(Messages) /\ <<c>> \in Seq(Messages)
      /\ <<b, c>> \in Seq(Messages) /\ <<a, b>> \in Seq(Messages) /\ <<a, b, c>> \in Seq(Messages)
  OBVIOUS
<1>2. ASSUME NEW s \in Seq(Messages), Len(s) = 2, s[1] = a, s[2] = b
      PROVE  s = <<a, b>>
  <2>1. \A i \in 1..Len(s) : s[i] = <<a, b>>[i]
    BY <1>2
  <2> QED
    BY <1>1, <1>2, <2>1, SeqEqual
<1>3. ASSUME NEW s \in Seq(Messages), Len(s) = 3, s[1] = a, s[2] = b, s[3] = c
      PROVE  s = <<a, b, c>>
  <2>1. \A i \in 1..Len(s) : s[i] = <<a, b, c>>[i]
    BY <1>3
  <2> QED
    BY <1>1, <1>3, <2>1, SeqEqual
<1>4. /\ <<a>> \o <<b>> \in Seq(Messages) /\ <<a>> \o <<b, c>> \in Seq(Messages)
      /\ <<a, b>> \o <<c>> \in Seq(Messages) /\ Append(<<a>>, b) \in Seq(Messages)
  BY <1>1
<1>5. <<a>> \o <<b>> = <<a, b>>
  <2>1. /\ Len(<<a>> \o <<b>>) = 2
        /\ (<<a>> \o <<b>>)[1] = a /\ (<<a>> \o <<b>>)[2] = b
    BY <1>1
  <2> QED
    BY <1>2, <1>4, <2>1
<1>6. <<a>> \o <<b, c>> = <<a, b, c>>
  <2>1. /\ Len(<<a>> \o <<b, c>>) = 3
        /\ (<<a>> \o <<b, c>>)[1] = a /\ (<<a>> \o <<b, c>>)[2] = b
        /\ (<<a>> \o <<b, c>>)[3] = c
    BY <1>1
  <2> QED
    BY <1>3, <1>4, <2>1
<1>7. <<a, b>> \o <<c>> = <<a, b, c>>
  <2>1. /\ Len(<<a, b>> \o <<c>>) = 3
        /\ (<<a, b>> \o <<c>>)[1] = a /\ (<<a, b>> \o <<c>>)[2] = b
        /\ (<<a, b>> \o <<c>>)[3] = c
    BY <1>1
  <2> QED
    BY <1>3, <1>4, <2>1
<1>8. Append(<<a>>, b) = <<a, b>>
  <2>1. /\ Len(Append(<<a>>, b)) = 2
        /\ Append(<<a>>, b)[1] = a /\ Append(<<a>>, b)[2] = b
    BY <1>1
  <2> QED
    BY <1>2, <1>4, <2>1
<1>9. <<>> \o <<b>> = <<b>> /\ <<>> \o <<b, c>> = <<b, c>>
  BY <1>1, ConcatEmptySeq
<1> QED
  BY <1>5, <1>6, <1>7, <1>8, <1>9

\* An invocation counts one call.
LEMMA OneMoreCall ==
  ASSUME SCTypeOK, AskCounted, scPc = "invoke", CountCall
  PROVE  asked' = asked + 1 /\ asked' \in 1..CallLimit(role)
BY WithinLimit, Limits DEF CountCall

LEMMA CallStep == ASSUME AskInv, Call PROVE AskInv'
<1>1. /\ scPc = "call" /\ scPc' = "invoke" /\ prompt' = FirstPrompt(messages)
      /\ retries' = 0 /\ lastErr' = NoDoc
      /\ UNCHANGED <<role, fc, messages, round, reply, value, asked, rejected, outcome>>
  BY DEF Call, caller, asking
<1>2. FirstPrompt(messages) \in Seq(Messages)
  BY MessageTypes DEF FirstPrompt, AskInv, SCTypeOK
<1>3. 0 \in 0..MaxRetries(role)
  BY Limits DEF AskInv
<1>4. SCTypeOK'
  BY <1>1, <1>2, <1>3 DEF AskInv, SCTypeOK
<1>5. asked = round /\ round \in Nat
  BY <1>1, Limits DEF AskInv, AskCounted, Settled
<1>6. AskCounted'
  BY <1>1, <1>5 DEF AskCounted
<1>7. Telling' /\ Settled' /\ GivenUpOnlyAfterAll'
  BY <1>1 DEF AskInv, Telling, Settled, GivenUpOnlyAfterAll
<1>8. QuotesLastRejection'
  <2>1. CASE round = 0
    <3>1. messages = <<Task>>
      BY <2>1 DEF AskInv, Telling
    <3>2. <<>> \o <<Task>> = <<Task>> /\ <<SchemaPrompt>> \o <<Task>> = <<SchemaPrompt, Task>>
      BY MessageTypes, Glued
    <3>3. prompt' \in {<<Task>>, <<SchemaPrompt, Task>>}
      BY <1>1, <3>1, <3>2 DEF FirstPrompt
    <3> QED
      BY <1>1, <1>5, <2>1, <3>3 DEF QuotesLastRejection
  <2>2. CASE round # 0
    <3>1. messages = <<Task, Repair(rejected)>>
      BY <1>1, <2>2 DEF AskInv, Telling
    <3>2. /\ <<>> \o <<Task, Repair(rejected)>> = <<Task, Repair(rejected)>>
          /\ <<SchemaPrompt>> \o <<Task, Repair(rejected)>>
               = <<SchemaPrompt, Task, Repair(rejected)>>
      <4>1. SchemaPrompt \in Messages /\ Task \in Messages /\ Repair(rejected) \in Messages
        BY MessageTypes DEF AskInv, SCTypeOK
      <4>2. <<>> \o <<Task, Repair(rejected)>> = <<Task, Repair(rejected)>>
        BY <4>1, Glued
      <4>3. <<SchemaPrompt>> \o <<Task, Repair(rejected)>>
              = <<SchemaPrompt, Task, Repair(rejected)>>
        BY <4>1, Glued
      <4> QED
        BY <4>2, <4>3
    <3>3. prompt' \in {<<Task, Repair(rejected)>>, <<SchemaPrompt, Task, Repair(rejected)>>}
      BY <1>1, <3>1, <3>2 DEF FirstPrompt
    <3>4. Repair(rejected) \in Complaint(rejected)
      BY DEF Complaint
    <3> QED
      BY <1>1, <1>5, <2>2, <3>3, <3>4 DEF QuotesLastRejection
  <2> QED
    BY <2>1, <2>2
<1> QED
  BY <1>4, <1>6, <1>7, <1>8 DEF AskInv

LEMMA InvokeStep == ASSUME AskInv, Invoke PROVE AskInv'
<1>1. /\ scPc = "invoke" /\ scPc' = "judge" /\ reply' \in Replies
      /\ UNCHANGED <<role, fc, messages, round, retries, prompt, lastErr, value,
                     rejected, outcome>>
  BY DEF Invoke, caller
<1>2. asked' = asked + 1 /\ asked \in Nat
  BY <1>1, OneMoreCall, WithinLimit DEF Invoke, AskInv
<1>3. SCTypeOK'
  BY <1>1, <1>2 DEF AskInv, SCTypeOK
<1>4. AskCounted'
  BY <1>1, <1>2, Limits DEF AskInv, AskCounted
<1>5. outcome' = "none"
  BY <1>1 DEF AskInv, Settled
<1>6. Telling' /\ Settled' /\ QuotesLastRejection' /\ GivenUpOnlyAfterAll'
  BY <1>1, <1>5 DEF AskInv, Telling, Settled, QuotesLastRejection, GivenUpOnlyAfterAll
<1> QED
  BY <1>3, <1>4, <1>6 DEF AskInv

\* A rejected answer that leads to a retry is quoted in it.
LEMMA AskAgainStep == ASSUME AskInv, AskAgain PROVE AskInv'
<1>1. /\ scPc = "judge" /\ scPc' = "invoke" /\ retries < MaxRetries(role)
      /\ retries' = retries + 1
      /\ lastErr' = Candidate(reply) /\ rejected' = Candidate(reply)
      /\ prompt' = RetryPrompt(lastErr')
      /\ UNCHANGED <<role, fc, messages, round, reply, value, asked, outcome>>
  BY DEF AskAgain, Reject, MayRetry, CountRetry, caller
<1>2. round = 0 /\ retries \in Nat
  BY <1>1, Limits DEF AskInv
<1>3. messages = <<Task>>
  BY <1>2 DEF AskInv, Telling
<1>4. Candidate(reply) \in Docs \cup {NoDoc}
  BY DEF Candidate, Extracted
<1>5. /\ <<SchemaPrompt>> \o <<Task>> = <<SchemaPrompt, Task>>
      /\ <<SchemaPrompt, Task>> \o <<Corrective(Candidate(reply))>>
           = <<SchemaPrompt, Task, Corrective(Candidate(reply))>>
  <2>1. /\ SchemaPrompt \in Messages /\ Task \in Messages
        /\ Corrective(Candidate(reply)) \in Messages
    BY <1>4, MessageTypes
  <2>2. <<SchemaPrompt>> \o <<Task>> = <<SchemaPrompt, Task>>
    BY <2>1, Glued
  <2>3. <<SchemaPrompt, Task>> \o <<Corrective(Candidate(reply))>>
          = <<SchemaPrompt, Task, Corrective(Candidate(reply))>>
    BY <2>1, Glued
  <2> QED
    BY <2>2, <2>3
<1>6. prompt' = <<SchemaPrompt, Task, Corrective(Candidate(reply))>>
  BY <1>1, <1>3, <1>5 DEF RetryPrompt
<1>7. prompt' \in Seq(Messages)
  BY <1>4, <1>6, MessageTypes
<1>8. retries' \in 0..MaxRetries(role)
  BY <1>1, <1>2, Limits DEF AskInv
<1>9. SCTypeOK'
  BY <1>1, <1>4, <1>7, <1>8 DEF AskInv, SCTypeOK
<1>10. AskCounted' /\ asked' # 0
  BY <1>1, <1>2, Limits DEF AskInv, AskCounted
<1>11. Telling'
  BY <1>1, <1>2, <1>3 DEF Telling
<1>12. Settled' /\ GivenUpOnlyAfterAll'
  BY <1>1 DEF AskInv, Settled, GivenUpOnlyAfterAll
<1>13. QuotesLastRejection'
  BY <1>1, <1>6, <1>10 DEF QuotesLastRejection, Complaint
<1> QED
  BY <1>9, <1>10, <1>11, <1>12, <1>13 DEF AskInv

LEMMA ExhaustStep == ASSUME AskInv, Exhaust PROVE AskInv'
<1>1. /\ scPc = "judge" /\ scPc' = "refused" /\ ~ (retries < MaxRetries(role))
      /\ lastErr' = Candidate(reply) /\ rejected' = Candidate(reply)
      /\ UNCHANGED <<role, fc, messages, round, retries, prompt, reply, value, asked, outcome>>
  BY DEF Exhaust, Reject, MayRetry, caller
<1>2. retries = MaxRetries(role)
  BY <1>1, Limits DEF AskInv
<1>3. Candidate(reply) \in Docs \cup {NoDoc}
  BY DEF Candidate, Extracted
<1>4. SCTypeOK'
  BY <1>1, <1>3 DEF AskInv, SCTypeOK
<1>5. AskCounted' /\ Telling' /\ Settled' /\ QuotesLastRejection' /\ GivenUpOnlyAfterAll'
  BY <1>1, <1>2 DEF AskInv, AskCounted, Telling, Settled, QuotesLastRejection, GivenUpOnlyAfterAll
<1> QED
  BY <1>4, <1>5 DEF AskInv

\* Only Deep and the synthesizer check more than the schema, and only Deep has
\* retries left then that it does not use.
LEMMA CheckFailsStep == ASSUME AskInv, CheckFails PROVE AskInv'
<1>1. /\ scPc = "check" /\ scPc' = "refused" /\ value \notin Accepts(role)
      /\ lastErr' = value /\ rejected' = value
      /\ UNCHANGED <<role, fc, messages, round, retries, prompt, reply, value, asked, outcome>>
  BY DEF CheckFails, caller
<1>2. value = Candidate(reply) /\ value \in Conforming
  BY <1>1 DEF AskInv, Settled
<1>3. role \in {"researcher_deep", "synthesizer"}
  BY <1>1, <1>2 DEF Accepts, AskInv, SCTypeOK, Roles
<1>4. role = "synthesizer" => retries = MaxRetries(role)
  BY Limits DEF AskInv, MaxRetries
<1>5. Candidate(reply)' = Candidate(reply)
  BY <1>1 DEF Candidate, Extracted
<1>6. SCTypeOK'
  BY <1>1 DEF AskInv, SCTypeOK
<1>7. Settled'
  BY <1>1, <1>2, <1>3, <1>4, <1>5 DEF AskInv, Settled
<1>8. AskCounted' /\ Telling' /\ QuotesLastRejection' /\ GivenUpOnlyAfterAll'
  BY <1>1, <1>5 DEF AskInv, AskCounted, Telling, Settled, QuotesLastRejection, GivenUpOnlyAfterAll
<1> QED
  BY <1>6, <1>7, <1>8 DEF AskInv

LEMMA RepairStep == ASSUME AskInv, AskRepaired PROVE AskInv'
<1>1. /\ scPc = "refused" /\ scPc' = "call" /\ round < Repairs(role) /\ round' = round + 1
      /\ messages' = Append(messages, Repair(lastErr))
      /\ UNCHANGED <<role, fc, retries, prompt, reply, lastErr, value, asked, rejected, outcome>>
  BY DEF AskRepaired, WithRepair, wrapper, asking
<1>2. /\ retries = 0 /\ round = 0 /\ Repairs(role) = 1
  BY <1>1, Limits DEF AskInv, Repairs
<1>3. messages = <<Task>> /\ lastErr = rejected
  BY <1>1, <1>2 DEF AskInv, Telling, Settled
<1>4. messages' = <<Task, Repair(rejected)>>
  <2>1. Repair(rejected) \in Messages
    BY MessageTypes DEF AskInv, SCTypeOK
  <2> QED
    BY <1>1, <1>3, <2>1, MessageTypes, Glued
<1>5. messages' \in Seq(Messages)
  BY <1>4, MessageTypes DEF AskInv, SCTypeOK
<1>6. round' \in 0..Repairs(role)
  BY <1>1, <1>2
<1>7. SCTypeOK'
  BY <1>1, <1>5, <1>6 DEF AskInv, SCTypeOK
<1>8. AskCounted' /\ Telling' /\ Settled'
  BY <1>1, <1>2, <1>4 DEF AskInv, AskCounted, Telling, Settled
<1>9. QuotesLastRejection' /\ GivenUpOnlyAfterAll'
  BY <1>1 DEF AskInv, Settled, QuotesLastRejection, GivenUpOnlyAfterAll
<1> QED
  BY <1>7, <1>8, <1>9 DEF AskInv

LEMMA ReturnStep == ASSUME AskInv, Return PROVE AskInv'
<1>1. /\ scPc = "judge" /\ scPc' = "check" /\ Candidate(reply) \in Conforming
      /\ value' = Candidate(reply)
      /\ UNCHANGED <<role, fc, messages, round, retries, prompt, reply, lastErr,
                     asked, rejected, outcome>>
  BY DEF Return, caller, asking
<1>2. Candidate(reply)' = Candidate(reply)
  BY <1>1 DEF Candidate, Extracted
<1>3. SCTypeOK'
  BY <1>1, StructuredAssumption DEF AskInv, SCTypeOK
<1>4. AskCounted' /\ Telling' /\ Settled' /\ QuotesLastRejection' /\ GivenUpOnlyAfterAll'
  BY <1>1, <1>2 DEF AskInv, AskCounted, Telling, Settled, QuotesLastRejection, GivenUpOnlyAfterAll
<1> QED
  BY <1>3, <1>4 DEF AskInv

\* The ways to decide: a provider error, an answer that is taken, or giving up.
LEMMA DecideStep == ASSUME AskInv, InvokeRaises \/ CheckPasses \/ GiveUp PROVE AskInv'
<1>1. /\ scPc' = "done" /\ scPc \in {"invoke", "check", "refused"}
      /\ outcome' \in {"answer", "rejected", "failed", "raised"}
      /\ UNCHANGED <<role, fc, messages, round, retries, prompt, reply, lastErr, value, rejected>>
  BY DEF InvokeRaises, CheckPasses, GiveUp, Decide, caller, wrapper
<1>2. asked' \in Nat
  BY OneMoreCall, WithinLimit DEF InvokeRaises, CheckPasses, GiveUp, AskInv
<1>3. SCTypeOK'
  BY <1>1, <1>2 DEF AskInv, SCTypeOK
<1>4. Telling' /\ AskCounted' /\ Settled' /\ QuotesLastRejection'
  BY <1>1 DEF AskInv, Telling, AskCounted, Settled, QuotesLastRejection
<1>5. Candidate(reply)' = Candidate(reply)
  BY <1>1 DEF Candidate, Extracted
<1>6. GivenUpOnlyAfterAll'
  <2>1. CASE outcome' = "rejected"
    <3>1. scPc = "refused" /\ round = Repairs(role) /\ asked' = asked
      BY <2>1 DEF InvokeRaises, CheckPasses, GiveUp, Decide
    <3>2. retries = MaxRetries(role) => asked = CallLimit(role)
      BY <3>1, Limits DEF AskInv, AskCounted
    <3> QED
      BY <1>1, <1>5, <3>1, <3>2 DEF AskInv, Settled, GivenUpOnlyAfterAll
  <2>2. CASE outcome' # "rejected"
    BY <2>2 DEF GivenUpOnlyAfterAll
  <2> QED
    BY <2>1, <2>2
<1> QED
  BY <1>3, <1>4, <1>6 DEF AskInv

LEMMA AskInvInit == SCInit => AskInv
<1> SUFFICES ASSUME SCInit PROVE AskInv
  OBVIOUS
<1>1. 0 \in 0..Repairs(role) /\ 0 \in 0..MaxRetries(role)
  BY DEF Repairs, MaxRetries
<1>2. messages \in Seq(Messages) /\ prompt \in Seq(Messages)
  BY MessageTypes DEF SCInit
<1>3. SCTypeOK
  BY <1>1, <1>2 DEF SCInit, SCTypeOK
<1>4. AskCounted /\ Telling /\ Settled /\ QuotesLastRejection /\ GivenUpOnlyAfterAll
  BY DEF SCInit, AskCounted, Telling, Settled, QuotesLastRejection, GivenUpOnlyAfterAll
<1> QED
  BY <1>3, <1>4 DEF AskInv

LEMMA AskInvInductive == SCSpec => []AskInv
<1>1. AskInv /\ [SCNext]_scVars => AskInv'
  <2> SUFFICES ASSUME AskInv, [SCNext]_scVars PROVE AskInv'
    OBVIOUS
  <2>1. CASE UNCHANGED scVars
    <3>1. Candidate(reply)' = Candidate(reply)
      BY <2>1 DEF scVars, caller, wrapper, Candidate, Extracted
    <3> QED
      BY <2>1, <3>1 DEF scVars, caller, wrapper, asking, AskInv, SCTypeOK, AskCounted, Telling, Settled,
                        QuotesLastRejection, GivenUpOnlyAfterAll
  <2> QED
    BY <2>1, CallStep, InvokeStep, AskAgainStep, ExhaustStep, CheckFailsStep, RepairStep,
       ReturnStep, DecideStep
    DEF SCNext, SCStep, SCDone
<1> QED
  BY AskInvInit, <1>1, PTL DEF SCSpec

\* The variables keep their types.
THEOREM AskTypeCorrect == SCSpec => []SCTypeOK
<1>1. AskInv => SCTypeOK
  BY DEF AskInv
<1> QED
  BY <1>1, AskInvInductive, PTL

\* A request never carries more than one complaint, and it is about the answer that
\* was turned down last.
THEOREM RequestsQuoteLastRejection == SCSpec => []QuotesLastRejection
<1>1. AskInv => QuotesLastRejection
  BY DEF AskInv
<1> QED
  BY <1>1, AskInvInductive, PTL

\* A question is given up only after every call it may cost, but for an answer of
\* Deep's that satisfies the schema.
THEOREM GivingUpComesLast == SCSpec => []GivenUpOnlyAfterAll
<1>1. AskInv => GivenUpOnlyAfterAll
  BY DEF AskInv
<1> QED
  BY <1>1, AskInvInductive, PTL

\* Retries and repair together keep to AskContract: no more calls than were bounded
\* from the start, one decision, and no call after it.
THEOREM Implements == SCSpec => ImplementsContract
<1>1. SCInit => Contract!Init
  <2> SUFFICES ASSUME SCInit PROVE Contract!Init
    OBVIOUS
  <2>1. CallLimit(role) \in Nat \ {0}
    BY DEF CallLimit, MaxRetries, Repairs
  <2> QED
    BY <2>1 DEF SCInit, Contract!Init
<1>2. AskInv /\ [SCNext]_scVars => [Contract!Next]_Contract!vars
  <2> SUFFICES ASSUME AskInv, [SCNext]_scVars PROVE [Contract!Next]_Contract!vars
    OBVIOUS
  <2>1. UNCHANGED role
    BY DEF SCNext, SCStep, SCDone, Call, Invoke, InvokeRaises, Return, AskAgain, Reject, Exhaust,
           CheckPasses, CheckFails, AskRepaired, GiveUp, scVars, caller
  <2>2. CallLimit(role)' = CallLimit(role)
    BY <2>1 DEF CallLimit, MaxRetries, Repairs
  <2>3. CASE Invoke
    <3>1. outcome = "none" /\ outcome' = outcome /\ scPc = "invoke"
      BY <2>3 DEF Invoke, AskInv, Settled
    <3>2. asked' = asked + 1 /\ asked < CallLimit(role)
      BY <2>3, <3>1, OneMoreCall, WithinLimit DEF Invoke, AskInv
    <3> QED
      BY <2>2, <3>1, <3>2 DEF Contract!Next, Contract!Ask
  <2>4. CASE InvokeRaises \/ CheckPasses \/ GiveUp
    <3>1. /\ scPc \in {"invoke", "check", "refused"} /\ outcome = "none"
          /\ outcome' \in {"answer", "rejected", "failed", "raised"}
      BY <2>4 DEF InvokeRaises, CheckPasses, GiveUp, Decide, AskInv, Settled
    <3>2. asked' \in {asked, asked + 1} /\ asked' \in 1..CallLimit(role)
      <4>1. CASE InvokeRaises
        BY <4>1, OneMoreCall DEF InvokeRaises, AskInv
      <4>2. CASE CheckPasses \/ GiveUp
        BY <4>2, WithinLimit DEF CheckPasses, GiveUp, AskInv
      <4> QED
        BY <2>4, <4>1, <4>2
    <3> QED
      BY <2>2, <3>1, <3>2 DEF Contract!Next, Contract!Decide, Contract!Decisions
  <2>5. CASE \/ Call \/ Return \/ AskAgain \/ Exhaust \/ CheckFails \/ AskRepaired
             \/ UNCHANGED scVars
    <3>1. UNCHANGED <<asked, outcome>>
      BY <2>5 DEF Call, Return, AskAgain, Reject, Exhaust, CheckFails, AskRepaired, scVars, asking
    <3> QED
      BY <2>2, <3>1 DEF Contract!vars
  <2> QED
    BY <2>3, <2>4, <2>5 DEF SCNext, SCStep, SCDone
<1> QED
  BY <1>1, <1>2, AskInvInductive, PTL DEF SCSpec, ImplementsContract, Contract!Spec
-----------------------------------------------------------------------------
(***************************************************************************)
(* Texts.  FlattenSeq is a recursive function on the positions of its      *)
(* argument: that it goes member by member is proved by induction, and     *)
(* induction is the well-foundedness of < on Nat, applied to a set.        *)
(***************************************************************************)
\* Induction over the natural numbers, for a set.
LEMMA NatSet ==
  ASSUME NEW S, 0 \in S, \A n \in Nat : n \in S => n + 1 \in S
  PROVE  Nat \subseteq S
<1> DEFINE R == OpToRel(<, Nat)
           T == Nat \ S
<1> SUFFICES ASSUME T # {} PROVE FALSE
  OBVIOUS
<1>1. PICK x \in T : \A y \in T : <<y, x>> \notin R
  <2> HIDE DEF R, T
  <2>1. IsWellFoundedOn(R, Nat)
    BY ONLY NatLessThanWellFounded, Zenon DEF R
  <2>2. T \subseteq Nat
    BY DEF T
  <2> QED
    BY <2>1, <2>2, WFMin
<1>2. x # 0 /\ x - 1 \in Nat /\ x - 1 < x
  OBVIOUS
<1>3. <<x - 1, x>> \in R
  BY <1>2 DEF OpToRel
<1>4. x - 1 \notin T
  BY <1>1, <1>3
<1> QED
  BY <1>2, <1>4

\* g flattens the first n members of s, one after the other.
Flattens(g, s, n) == g = [i \in 1..n |-> IF i = 1 THEN s[i] ELSE g[i - 1] \o s[i]]

LEMMA FlattenSeqDef ==
  ASSUME NEW s, Len(s) # 0
  PROVE  FlattenSeq(s) = (CHOOSE g : Flattens(g, s, Len(s)))[Len(s)]
BY DEF FlattenSeq, Flattens

LEMMA FlattensExists ==
  ASSUME NEW s, NEW n \in Nat
  PROVE  \E g : Flattens(g, s, n)
<1> DEFINE S == {m \in Nat : \E g : Flattens(g, s, m)}
<1>1. 0 \in S
  <2> DEFINE g == [i \in 1..0 |-> s[i]]
  <2>1. Flattens(g, s, 0)
    BY DEF Flattens
  <2> QED
    BY <2>1
<1>2. ASSUME NEW m \in Nat, m \in S PROVE m + 1 \in S
  <2>1. PICK g : Flattens(g, s, m)
    BY <1>2
  <2> DEFINE h == [i \in 1..(m + 1) |-> IF i \in 1..m THEN g[i]
                                        ELSE IF i = 1 THEN s[i] ELSE g[i - 1] \o s[i]]
  <2>2. ASSUME NEW i \in 1..(m + 1)
        PROVE  h[i] = IF i = 1 THEN s[i] ELSE h[i - 1] \o s[i]
    <3>1. CASE i \in 1..m
      <4>1. g[i] = IF i = 1 THEN s[i] ELSE g[i - 1] \o s[i]
        BY <2>1, <3>1 DEF Flattens
      <4>2. i # 1 => i - 1 \in 1..m /\ i - 1 \in 1..(m + 1)
        BY <3>1
      <4> QED
        BY <3>1, <4>1, <4>2
    <3>2. CASE i = m + 1
      <4>1. i \notin 1..m
        BY <3>2
      <4>2. i # 1 => i - 1 \in 1..m /\ i - 1 \in 1..(m + 1)
        BY <3>2
      <4> QED
        BY <4>1, <4>2
    <3> QED
      BY <3>1, <3>2
  <2>3. Flattens(h, s, m + 1)
    <3> HIDE DEF h
    <3>1. h = [i \in 1..(m + 1) |-> h[i]]
      BY DEF h
    <3> QED
      BY <2>2, <3>1 DEF Flattens
  <2> QED
    BY <2>3
<1> HIDE DEF S
<1>3. Nat \subseteq S
  BY <1>1, <1>2, NatSet
<1> QED
  BY <1>3 DEF S

LEMMA FlattensTypes ==
  ASSUME NEW X, NEW s \in Seq(Seq(X)), NEW g, Flattens(g, s, Len(s))
  PROVE  \A i \in 1..Len(s) : g[i] \in Seq(X)
<1> DEFINE S == {k \in Nat : k \in 1..Len(s) => g[k] \in Seq(X)}
<1>1. 0 \in S
  OBVIOUS
<1>2. ASSUME NEW k \in Nat, k \in S PROVE k + 1 \in S
  <2> SUFFICES ASSUME k + 1 \in 1..Len(s) PROVE g[k + 1] \in Seq(X)
    OBVIOUS
  <2>1. s[k + 1] \in Seq(X)
    BY ElementOfSeq
  <2>2. g[k + 1] = IF k + 1 = 1 THEN s[k + 1] ELSE g[(k + 1) - 1] \o s[k + 1]
    BY DEF Flattens
  <2>3. k + 1 # 1 => g[k] \in Seq(X) /\ (k + 1) - 1 = k
    BY <1>2
  <2> QED
    BY <2>1, <2>2, <2>3, ConcatProperties
<1> HIDE DEF S
<1>3. Nat \subseteq S
  BY <1>1, <1>2, NatSet
<1> QED
  BY <1>3 DEF S

\* Flattening goes member by member.
LEMMA FlattenSeqStep ==
  ASSUME NEW X, NEW u \in Seq(Seq(X)), NEW v \in Seq(Seq(X)), Len(v) = Len(u) + 1,
         \A i \in 1..Len(u) : v[i] = u[i]
  PROVE  FlattenSeq(v) = FlattenSeq(u) \o v[Len(v)] /\ FlattenSeq(u) \in Seq(X)
<1> DEFINE n == Len(u)
<1>1. /\ n \in Nat /\ n + 1 \in Nat /\ n <= n + 1 /\ n + 1 \in 1..(n + 1)
      /\ Len(v) = n + 1 /\ v[n + 1] \in Seq(X)
  BY LenProperties, ElementOfSeq
<1>2. PICK h : Flattens(h, v, n + 1) /\ FlattenSeq(v) = h[n + 1]
  <2>1. \E h : Flattens(h, v, n + 1)
    <3> HIDE DEF n
    <3> QED
      BY <1>1, FlattensExists
  <2> QED
    BY <1>1, <2>1, FlattenSeqDef
<1>3. h[n + 1] = IF n + 1 = 1 THEN v[n + 1] ELSE h[(n + 1) - 1] \o v[n + 1]
  BY <1>1, <1>2 DEF Flattens
<1>4. CASE n = 0
  <2>1. u = <<>>
    BY <1>4, EmptySeq
  <2>2. FlattenSeq(u) = <<>>
    BY <1>4, <2>1 DEF FlattenSeq
  <2> QED
    BY <1>1, <1>2, <1>3, <1>4, <2>2, ConcatEmptySeq, EmptySeq
<1>5. CASE n # 0
  <2>1. PICK g : Flattens(g, u, n) /\ FlattenSeq(u) = g[n]
    <3>1. \E g : Flattens(g, u, n)
      BY <1>1, FlattensExists
    <3> QED
      BY <1>1, <1>5, <3>1, FlattenSeqDef
  <2>2. \A i \in 1..n : g[i] = h[i]
    <3> DEFINE S == {k \in Nat : k \in 1..n => g[k] = h[k]}
    <3>1. 0 \in S
      OBVIOUS
    <3>2. ASSUME NEW k \in Nat, k \in S PROVE k + 1 \in S
      <4> SUFFICES ASSUME k + 1 \in 1..n PROVE g[k + 1] = h[k + 1]
        OBVIOUS
      <4>1. k + 1 \in 1..(n + 1) /\ u[k + 1] = v[k + 1]
        OBVIOUS
      <4>2. g[k + 1] = IF k + 1 = 1 THEN u[k + 1] ELSE g[(k + 1) - 1] \o u[k + 1]
        BY <2>1 DEF Flattens
      <4>3. h[k + 1] = IF k + 1 = 1 THEN v[k + 1] ELSE h[(k + 1) - 1] \o v[k + 1]
        BY <1>2, <4>1 DEF Flattens
      <4>4. k + 1 # 1 => g[(k + 1) - 1] = h[(k + 1) - 1]
        BY <3>2
      <4> QED
        BY <4>1, <4>2, <4>3, <4>4
    <3> HIDE DEF S
    <3>3. Nat \subseteq S
      BY <3>1, <3>2, NatSet
    <3> QED
      BY <3>3 DEF S
  <2>3. g[n] = h[n] /\ g[n] \in Seq(X)
    BY <1>1, <1>5, <2>1, <2>2, FlattensTypes
  <2>4. (n + 1) - 1 = n /\ n + 1 # 1
    BY <1>1, <1>5
  <2> QED
    BY <1>1, <1>2, <1>3, <2>1, <2>3, <2>4
<1> QED
  BY <1>4, <1>5

\* Induction over the sequences on X, for a set.
LEMMA SeqSet ==
  ASSUME NEW X, NEW S, <<>> \in S, \A s \in Seq(X), x \in X : s \in S => Append(s, x) \in S
  PROVE  Seq(X) \subseteq S
<1> DEFINE N == {n \in Nat : \A s \in Seq(X) : Len(s) = n => s \in S}
<1>1. 0 \in N
  BY EmptySeq
<1>2. ASSUME NEW n \in Nat, n \in N PROVE n + 1 \in N
  <2> SUFFICES ASSUME NEW s \in Seq(X), Len(s) = n + 1 PROVE s \in S
    OBVIOUS
  <2>1. PICK t \in Seq(X), x \in X : s = Append(t, x)
    BY SequenceEmptyOrAppend, EmptySeq
  <2>2. Len(t) = n
    BY <2>1, AppendProperties, LenProperties
  <2> QED
    BY <1>2, <2>1, <2>2
<1> HIDE DEF N
<1>3. Nat \subseteq N
  BY <1>1, <1>2, NatSet
<1> QED
  BY <1>3, LenProperties DEF N

-----------------------------------------------------------------------------
(***************************************************************************)
(* Trust.  Both tables of entities escape the ampersand, and escape to     *)
(* names that are no such token: so an escaped text holds no token of the  *)
(* table but ampersands, each with a name after it, and one pass takes     *)
(* them back.  A block of escaped parts is then read where it was laid.    *)
(***************************************************************************)
\* Everything a block can consist of.
Alphabet == Tokens \cup {"lt", "gt", "amp", "quote", "lt;", "gt;", "amp;", "quot;",
                         "evidence_id=", "source_tool=", "/evidence", "web_search"}

Table(entity) == /\ DOMAIN entity \subseteq DOMAIN AttrEntity
                 /\ "amp" \in DOMAIN entity
                 /\ \A x \in DOMAIN entity : entity[x] = AttrEntity[x]

LEMMA Entities ==
  /\ DOMAIN AttrEntity = {"lt", "gt", "amp", "quote"}
  /\ DOMAIN BodyEntity = {"lt", "gt", "amp"}
  /\ \A x \in DOMAIN AttrEntity :
       /\ x \in Alphabet /\ AttrEntity[x] \in Alphabet
       /\ AttrEntity[x] \notin DOMAIN AttrEntity
  /\ \A x, y \in DOMAIN AttrEntity : AttrEntity[x] = AttrEntity[y] => x = y
<1>1. DOMAIN AttrEntity = {"lt", "gt", "amp", "quote"}
  BY DEF AttrEntity
<1>2. DOMAIN BodyEntity = {"lt", "gt", "amp"}
  BY DEF BodyEntity
<1>3. /\ AttrEntity["lt"] = "lt;" /\ AttrEntity["gt"] = "gt;"
      /\ AttrEntity["amp"] = "amp;" /\ AttrEntity["quote"] = "quot;"
  BY DEF AttrEntity
<1> QED
  BY <1>1, <1>2, <1>3 DEF Alphabet

LEMMA Tables == Table(BodyEntity) /\ Table(AttrEntity)
<1>1. /\ AttrEntity["lt"] = "lt;" /\ AttrEntity["gt"] = "gt;" /\ AttrEntity["amp"] = "amp;"
      /\ BodyEntity["lt"] = "lt;" /\ BodyEntity["gt"] = "gt;" /\ BodyEntity["amp"] = "amp;"
  BY DEF BodyEntity, AttrEntity
<1> QED
  BY <1>1, Entities DEF Table

EscapedTo(x, entity) == IF x \in DOMAIN entity THEN <<"amp", entity[x]>> ELSE <<x>>

LEMMA EscapeDef ==
  ASSUME NEW entity, NEW t
  PROVE  Escape(t, entity) = FlattenSeq([i \in DOMAIN t |-> EscapedTo(t[i], entity)])
BY DEF Escape, EscapedTo

LEMMA EscapedToTypes ==
  ASSUME NEW entity, Table(entity), NEW x \in Alphabet
  PROVE  EscapedTo(x, entity) \in Seq(Alphabet)
<1>1. CASE x \in DOMAIN entity
  <2>1. "amp" \in Alphabet /\ entity[x] \in Alphabet
    BY <1>1, Entities DEF Table
  <2> QED
    BY <1>1, <2>1 DEF EscapedTo
<1>2. CASE x \notin DOMAIN entity
  BY <1>2 DEF EscapedTo
<1> QED
  BY <1>1, <1>2

\* Escaping goes token by token.
LEMMA EscapeStep ==
  ASSUME NEW entity, Table(entity), NEW t \in Seq(Alphabet), NEW x \in Alphabet
  PROVE  /\ Escape(<<>>, entity) = <<>>
         /\ Escape(t, entity) \in Seq(Alphabet)
         /\ Escape(Append(t, x), entity) = Escape(t, entity) \o EscapedTo(x, entity)
<1> DEFINE s == Append(t, x)
           u == [i \in DOMAIN t |-> EscapedTo(t[i], entity)]
           v == [i \in DOMAIN s |-> EscapedTo(s[i], entity)]
<1>1. Escape(<<>>, entity) = <<>>
  <2>1. [i \in DOMAIN <<>> |-> EscapedTo(<<>>[i], entity)] = <<>>
    BY EmptySeq, LenProperties
  <2> QED
    BY <2>1, EscapeDef, EmptySeq DEF FlattenSeq
<1>2. /\ Len(t) \in Nat /\ DOMAIN t = 1..Len(t)
      /\ s \in Seq(Alphabet) /\ Len(s) = Len(t) + 1 /\ DOMAIN s = 1..(Len(t) + 1)
      /\ \A i \in 1..Len(t) : s[i] = t[i]
      /\ s[Len(t) + 1] = x
  BY LenProperties, AppendProperties
<1> HIDE DEF s
<1>3. /\ u \in [1..Len(t) -> Seq(Alphabet)]
      /\ v \in [1..(Len(t) + 1) -> Seq(Alphabet)]
  BY <1>2, ElementOfSeq, EscapedToTypes
<1>4. u \in Seq(Seq(Alphabet)) /\ Len(u) = Len(t)
  BY <1>2, <1>3
<1>5. v \in Seq(Seq(Alphabet)) /\ Len(v) = Len(t) + 1
  BY <1>2, <1>3
<1>6. \A i \in 1..Len(u) : v[i] = u[i]
  BY <1>2, <1>4
<1>7. v[Len(v)] = EscapedTo(x, entity)
  BY <1>2, <1>5
<1> HIDE DEF u, v
<1>8. FlattenSeq(v) = FlattenSeq(u) \o EscapedTo(x, entity) /\ FlattenSeq(u) \in Seq(Alphabet)
  BY <1>4, <1>5, <1>6, <1>7, FlattenSeqStep
<1>9. Escape(t, entity) = FlattenSeq(u) /\ Escape(s, entity) = FlattenSeq(v)
  BY EscapeDef DEF u, v
<1> QED
  BY <1>1, <1>8, <1>9 DEF s

Names(w) == {c \in DOMAIN AttrEntity : AttrEntity[c] = w}
Refers(t, i) == i \in 1..(Len(t) - 1) /\ t[i] = "amp" /\ Names(t[i + 1]) # {}
Piece(t, i) == IF Refers(t, i) THEN SetToSeq(Names(t[i + 1]))
               ELSE IF Refers(t, i - 1) THEN <<>>
               ELSE <<t[i]>>

LEMMA UnescapeDef ==
  ASSUME NEW t PROVE Unescape(t) = FlattenSeq([i \in DOMAIN t |-> Piece(t, i)])
BY DEF Unescape, Piece, Refers, Names

\* An entity has one name.
LEMMA OneName ==
  ASSUME NEW c \in DOMAIN AttrEntity
  PROVE  Names(AttrEntity[c]) = {c} /\ SetToSeq({c}) = <<c>>
<1>1. Names(AttrEntity[c]) = {c}
  BY Entities DEF Names
<1>2. Cardinality({c}) = 1
  BY FS_Singleton
<1>3. <<c>> \in [1..1 -> {c}] /\ IsInjective(<<c>>)
  BY DEF IsInjective
<1>4. ASSUME NEW f \in [1..1 -> {c}] PROVE f = <<c>>
  BY SeqEqual
<1>5. SetToSeq({c}) \in [1..1 -> {c}]
  BY <1>2, <1>3 DEF SetToSeq
<1> QED
  BY <1>1, <1>4, <1>5

LEMMA PieceTypes ==
  ASSUME NEW t \in Seq(Alphabet), NEW i \in 1..Len(t)
  PROVE  Piece(t, i) \in Seq(Alphabet)
<1>1. t[i] \in Alphabet
  BY ElementOfSeq
<1>2. CASE Refers(t, i)
  <2>1. PICK c \in DOMAIN AttrEntity : AttrEntity[c] = t[i + 1]
    BY <1>2 DEF Refers, Names
  <2>2. Piece(t, i) = <<c>>
    BY <1>2, <2>1, OneName DEF Piece
  <2>3. c \in Alphabet
    BY Entities
  <2> QED
    BY <2>2, <2>3
<1>3. CASE ~ Refers(t, i)
  BY <1>1, <1>3 DEF Piece
<1> QED
  BY <1>2, <1>3

\* The pieces of a text that does not end in an ampersand stay as they are when
\* more follows.
LEMMA PiecesStay ==
  ASSUME NEW t \in Seq(Alphabet), Len(t) > 0 => t[Len(t)] # "amp",
         NEW w \in Seq(Alphabet), NEW i \in 1..Len(t)
  PROVE  Piece(t \o w, i) = Piece(t, i)
<1>1. /\ Len(t) \in Nat /\ Len(w) \in Nat /\ Len(t \o w) = Len(t) + Len(w)
      /\ \A j \in 1..Len(t) : (t \o w)[j] = t[j]
  BY LenProperties, ConcatProperties
<1>2. ASSUME NEW j \in {i - 1, i} PROVE Refers(t \o w, j) <=> Refers(t, j)
  <2>1. CASE j = Len(t)
    BY <1>1, <2>1 DEF Refers
  <2>2. CASE j < Len(t) /\ j > 0
    BY <1>1, <2>2 DEF Refers
  <2>3. CASE j <= 0
    BY <1>1, <2>3 DEF Refers
  <2> QED
    BY <1>1, <2>1, <2>2, <2>3
<1>3. CASE Refers(t, i)
  <2>1. i + 1 \in 1..Len(t)
    BY <1>1, <1>3 DEF Refers
  <2> QED
    BY <1>1, <1>2, <1>3, <2>1 DEF Piece
<1>4. CASE ~ Refers(t, i)
  BY <1>1, <1>2, <1>4 DEF Piece
<1> QED
  BY <1>3, <1>4

\* Unescaping an ordinary token, and an entity, after such a text.
LEMMA UnescapeToken ==
  ASSUME NEW t \in Seq(Alphabet), Len(t) > 0 => t[Len(t)] # "amp", NEW x \in Alphabet
  PROVE  Unescape(t \o <<x>>) = Unescape(t) \o <<x>> /\ Unescape(t) \in Seq(Alphabet)
<1> DEFINE s == t \o <<x>>
           u == [i \in DOMAIN t |-> Piece(t, i)]
           v == [i \in DOMAIN s |-> Piece(s, i)]
<1>1. <<x>> \in Seq(Alphabet) /\ Len(<<x>>) = 1 /\ <<x>>[1] = x
  OBVIOUS
<1>2. /\ Len(t) \in Nat /\ DOMAIN t = 1..Len(t)
      /\ s \in Seq(Alphabet) /\ Len(s) = Len(t) + 1 /\ DOMAIN s = 1..(Len(t) + 1)
      /\ \A i \in 1..Len(t) : s[i] = t[i]
      /\ s[Len(t) + 1] = x
  BY <1>1, LenProperties, ConcatProperties
<1>3. \A i \in 1..Len(t) : Piece(s, i) = Piece(t, i)
  BY <1>1, PiecesStay
<1>4. Piece(s, Len(t) + 1) = <<x>>
  <2>1. ~ Refers(s, Len(t) + 1)
    BY <1>2 DEF Refers
  <2>2. ~ Refers(s, (Len(t) + 1) - 1)
    BY <1>2 DEF Refers
  <2> QED
    BY <1>2, <2>1, <2>2 DEF Piece
<1> HIDE DEF s
<1>5. /\ u \in [1..Len(t) -> Seq(Alphabet)]
      /\ v \in [1..(Len(t) + 1) -> Seq(Alphabet)]
  BY <1>2, PieceTypes
<1>6. /\ u \in Seq(Seq(Alphabet)) /\ Len(u) = Len(t)
      /\ v \in Seq(Seq(Alphabet)) /\ Len(v) = Len(t) + 1
  BY <1>2, <1>5
<1>7. (\A i \in 1..Len(u) : v[i] = u[i]) /\ v[Len(v)] = <<x>>
  BY <1>2, <1>3, <1>4, <1>6
<1> HIDE DEF u, v
<1>8. FlattenSeq(v) = FlattenSeq(u) \o <<x>> /\ FlattenSeq(u) \in Seq(Alphabet)
  BY <1>6, <1>7, FlattenSeqStep
<1>9. Unescape(t) = FlattenSeq(u) /\ Unescape(s) = FlattenSeq(v)
  BY UnescapeDef DEF u, v
<1> QED
  BY <1>8, <1>9 DEF s

LEMMA UnescapeEntity ==
  ASSUME NEW t \in Seq(Alphabet), Len(t) > 0 => t[Len(t)] # "amp",
         NEW c \in DOMAIN AttrEntity
  PROVE  Unescape(t \o <<"amp", AttrEntity[c]>>) = Unescape(t) \o <<c>>
<1> DEFINE w == <<"amp", AttrEntity[c]>>
           s == t \o w
           n == Len(t)
           u == [i \in DOMAIN t |-> Piece(t, i)]
           m == [i \in 1..(n + 1) |-> Piece(s, i)]
           v == [i \in DOMAIN s |-> Piece(s, i)]
<1>1. w \in Seq(Alphabet) /\ Len(w) = 2 /\ w[1] = "amp" /\ w[2] = AttrEntity[c]
  BY Entities
<1>2. /\ n \in Nat /\ DOMAIN t = 1..n
      /\ s \in Seq(Alphabet) /\ Len(s) = n + 2 /\ DOMAIN s = 1..(n + 2)
      /\ \A i \in 1..n : s[i] = t[i]
      /\ s[n + 1] = "amp" /\ s[n + 2] = AttrEntity[c]
  <2>1. n \in Nat /\ DOMAIN t = 1..n
    BY LenProperties
  <2> HIDE DEF w, n
  <2>2. /\ s \in Seq(Alphabet) /\ Len(s) = Len(t) + 2
        /\ \A i \in 1..(Len(t) + 2) : s[i] = IF i <= Len(t) THEN t[i] ELSE w[i - Len(t)]
    <3>1. /\ s \in Seq(Alphabet) /\ Len(s) = Len(t) + Len(w)
          /\ \A i \in 1..(Len(t) + Len(w)) : s[i] = IF i <= Len(t) THEN t[i]
                                                   ELSE w[i - Len(t)]
      BY <1>1, ConcatProperties
    <3> QED
      BY <1>1, <3>1
  <2>3. DOMAIN s = 1..(n + 2)
    BY <2>2, LenProperties DEF n
  <2> HIDE DEF s
  <2>4. s[n + 1] = w[1] /\ s[n + 2] = w[2]
    <3>1. n + 1 \in 1..(n + 2) /\ (n + 1) - n = 1 /\ n + 2 \in 1..(n + 2) /\ (n + 2) - n = 2
          /\ ~ (n + 1 <= n) /\ ~ (n + 2 <= n)
      BY <2>1
    <3> QED
      BY <2>2, <3>1 DEF n
  <2>5. \A i \in 1..n : s[i] = t[i]
    BY <2>1, <2>2 DEF n
  <2>6. s \in Seq(Alphabet) /\ Len(s) = n + 2
    BY <2>2 DEF n
  <2> QED
    BY <1>1, <2>1, <2>3, <2>4, <2>5, <2>6
<1>3. \A i \in 1..n : Piece(s, i) = Piece(t, i)
  BY <1>1, PiecesStay
<1> HIDE DEF s, w, n
<1>4. Refers(s, n + 1) /\ Names(s[(n + 1) + 1]) = {c}
  <2>1. n + 1 \in 1..(Len(s) - 1) /\ s[(n + 1) + 1] = AttrEntity[c]
    BY <1>2
  <2> QED
    BY <1>2, <2>1, OneName DEF Refers
<1>5. Piece(s, n + 1) = <<c>>
  BY <1>4, OneName DEF Piece
<1>6. Piece(s, n + 2) = <<>>
  <2>1. ~ Refers(s, n + 2)
    BY <1>2 DEF Refers
  <2>2. Refers(s, (n + 2) - 1)
    BY <1>2, <1>4
  <2> QED
    BY <2>1, <2>2 DEF Piece
<1>7. /\ u \in [1..n -> Seq(Alphabet)]
      /\ m \in [1..(n + 1) -> Seq(Alphabet)]
      /\ v \in [1..(n + 2) -> Seq(Alphabet)]
  <2>1. \A i \in 1..n : Piece(t, i) \in Seq(Alphabet)
    BY PieceTypes DEF n
  <2>2. \A i \in 1..(n + 2) : Piece(s, i) \in Seq(Alphabet)
    BY <1>2, PieceTypes
  <2> QED
    BY <1>2, <2>1, <2>2
<1>8. /\ u \in Seq(Seq(Alphabet)) /\ Len(u) = n
      /\ m \in Seq(Seq(Alphabet)) /\ Len(m) = n + 1
      /\ v \in Seq(Seq(Alphabet)) /\ Len(v) = n + 2
  <2> HIDE DEF u, m, v
  <2>1. n \in Nat /\ n + 1 \in Nat /\ n + 2 \in Nat
    BY <1>2
  <2> QED
    BY <1>7, <2>1
<1>9. (\A i \in 1..Len(u) : m[i] = u[i]) /\ m[Len(m)] = <<c>>
  BY <1>2, <1>3, <1>5, <1>8
<1>10. (\A i \in 1..Len(m) : v[i] = m[i]) /\ v[Len(v)] = <<>>
  BY <1>2, <1>6, <1>8
<1> HIDE DEF u, v, m
<1>11. FlattenSeq(m) = FlattenSeq(u) \o <<c>>
  BY <1>8, <1>9, FlattenSeqStep
<1>12. Len(v) = Len(m) + 1
  BY <1>2, <1>8
<1>13. FlattenSeq(v) = FlattenSeq(m) \o <<>> /\ FlattenSeq(m) \in Seq(Alphabet)
  BY <1>8, <1>10, <1>12, FlattenSeqStep
<1>14. FlattenSeq(v) = FlattenSeq(m)
  BY <1>13, ConcatEmptySeq
<1>15. Unescape(t) = FlattenSeq(u) /\ Unescape(s) = FlattenSeq(v)
  BY UnescapeDef DEF u, v
<1> QED
  BY <1>11, <1>14, <1>15 DEF s, w

\* What escaping promises of a text.
Escaped(t, entity) ==
  LET e == Escape(t, entity)
  IN /\ e \in Seq(Alphabet)
     /\ \A i \in 1..Len(e) : e[i] \notin DOMAIN entity \ {"amp"}
     /\ Len(e) > 0 => e[Len(e)] # "amp"
     /\ Unescape(e) = t

LEMMA EscapedStep ==
  ASSUME NEW entity, Table(entity), NEW t \in Seq(Alphabet), NEW x \in Alphabet,
         Escaped(t, entity)
  PROVE  Escaped(Append(t, x), entity)
<1> DEFINE e == Escape(t, entity)
           w == EscapedTo(x, entity)
           f == Escape(Append(t, x), entity)
<1>1. /\ e \in Seq(Alphabet)
      /\ \A i \in 1..Len(e) : e[i] \notin DOMAIN entity \ {"amp"}
      /\ Len(e) > 0 => e[Len(e)] # "amp"
      /\ Unescape(e) = t
  BY DEF Escaped
<1>2. w \in Seq(Alphabet) /\ f = e \o w
  BY EscapeStep, EscapedToTypes
<1>3. /\ Len(w) \in Nat /\ Len(w) > 0 /\ w[Len(w)] # "amp"
      /\ \A i \in 1..Len(w) : w[i] \notin DOMAIN entity \ {"amp"}
      /\ Unescape(e \o w) = Unescape(e) \o <<x>>
  <2>1. CASE x \in DOMAIN entity
    <3>1. /\ x \in DOMAIN AttrEntity /\ w = <<"amp", AttrEntity[x]>>
          /\ AttrEntity[x] \notin DOMAIN entity /\ "amp" \in DOMAIN entity
      BY <2>1, Entities DEF EscapedTo, Table
    <3>2. Unescape(e \o <<"amp", AttrEntity[x]>>) = Unescape(e) \o <<x>>
      <4> HIDE DEF e
      <4> QED
        BY <1>1, <3>1, UnescapeEntity
    <3>3. Len(w) = 2 /\ w[1] = "amp" /\ w[2] = AttrEntity[x]
      BY <3>1
    <3> HIDE DEF e, w
    <3>4. Unescape(e \o w) = Unescape(e) \o <<x>>
      BY <3>1, <3>2
    <3>5. \A i \in 1..Len(w) : w[i] \notin DOMAIN entity \ {"amp"}
      <4>1. \A i \in 1..Len(w) : i = 1 \/ i = 2
        BY <3>3
      <4> QED
        BY <3>1, <3>3, <4>1
    <3>6. Len(w) \in Nat /\ Len(w) > 0
      BY <3>3
    <3>7. w[Len(w)] # "amp"
      BY <3>1, <3>3
    <3> QED
      BY <3>4, <3>5, <3>6, <3>7
  <2>2. CASE x \notin DOMAIN entity
    <3>1. w = <<x>> /\ x # "amp"
      BY <2>2 DEF EscapedTo, Table
    <3>2. Unescape(e \o <<x>>) = Unescape(e) \o <<x>>
      <4> HIDE DEF e
      <4> QED
        BY <1>1, UnescapeToken
    <3>3. Len(w) = 1 /\ w[1] = x
      BY <3>1
    <3> HIDE DEF e, w
    <3>4. Unescape(e \o w) = Unescape(e) \o <<x>>
      BY <3>1, <3>2
    <3> QED
      BY <2>2, <3>1, <3>3, <3>4
  <2> QED
    BY <2>1, <2>2
<1> HIDE DEF e, w, f
<1>4. /\ f \in Seq(Alphabet) /\ Len(f) = Len(e) + Len(w) /\ Len(e) \in Nat
      /\ \A i \in 1..(Len(e) + Len(w)) : f[i] = IF i <= Len(e) THEN e[i] ELSE w[i - Len(e)]
  BY <1>1, <1>2, ConcatProperties, LenProperties
<1>5. \A i \in 1..Len(f) : f[i] \notin DOMAIN entity \ {"amp"}
  <2> SUFFICES ASSUME NEW i \in 1..Len(f) PROVE f[i] \notin DOMAIN entity \ {"amp"}
    OBVIOUS
  <2>1. i \in 1..(Len(e) + Len(w)) /\ Len(w) \in Nat
    BY <1>3, <1>4
  <2>2. CASE i <= Len(e)
    <3>1. i \in 1..Len(e) /\ f[i] = e[i]
      BY <1>4, <2>1, <2>2
    <3> QED
      BY <1>1, <3>1
  <2>3. CASE ~ (i <= Len(e))
    <3>1. i - Len(e) \in 1..Len(w) /\ f[i] = w[i - Len(e)]
      BY <1>4, <2>1, <2>3
    <3> QED
      BY <1>3, <3>1
  <2> QED
    BY <2>2, <2>3
<1>6. f[Len(f)] # "amp"
  <2>1. Len(w) \in Nat /\ Len(w) > 0 /\ Len(e) \in Nat
    BY <1>3, <1>4, Zenon
  <2>2. f[Len(e) + Len(w)] = w[(Len(e) + Len(w)) - Len(e)]
    BY <1>4, <2>1
  <2>3. (Len(e) + Len(w)) - Len(e) = Len(w)
    BY <2>1
  <2> QED
    BY <1>3, <1>4, <2>2, <2>3
<1>7. Unescape(f) = Append(t, x)
  BY <1>1, <1>2, <1>3, AppendIsConcat
<1> QED
  BY <1>4, <1>5, <1>6, <1>7 DEF Escaped, f

\* Escaping takes out every token it has an entity for, and unescaping takes it back.
LEMMA EscapedAll ==
  ASSUME NEW entity, Table(entity), NEW t \in Seq(Alphabet)
  PROVE  Escaped(t, entity)
<1> DEFINE S == {s \in Seq(Alphabet) : Escaped(s, entity)}
<1>1. <<>> \in S
  <2>1. <<>> \in Seq(Alphabet) /\ Len(<<>>) = 0
    BY EmptySeq
  <2>2. Escape(<<>>, entity) = <<>>
    BY <2>1, EscapeStep, Entities
  <2>3. Unescape(<<>>) = <<>>
    <3>1. [i \in DOMAIN <<>> |-> Piece(<<>>, i)] = <<>>
      BY EmptySeq, LenProperties
    <3> QED
      BY <2>1, <3>1, UnescapeDef DEF FlattenSeq
  <2> DEFINE e == Escape(<<>>, entity)
  <2>4. e \in Seq(Alphabet) /\ Len(e) = 0 /\ Unescape(e) = <<>>
    BY <2>1, <2>2, <2>3
  <2>5. Escaped(<<>>, entity)
    <3> HIDE DEF e
    <3>1. /\ \A i \in 1..Len(e) : e[i] \notin DOMAIN entity \ {"amp"}
          /\ Len(e) > 0 => e[Len(e)] # "amp"
      BY <2>4
    <3> QED
      BY <2>4, <3>1 DEF Escaped, e
  <2> QED
    BY <2>1, <2>5
<1>2. ASSUME NEW s \in Seq(Alphabet), NEW x \in Alphabet, s \in S
      PROVE  Append(s, x) \in S
  BY <1>2, EscapedStep, AppendProperties
<1> HIDE DEF S
<1>3. Seq(Alphabet) \subseteq S
  BY <1>1, <1>2, SeqSet
<1> QED
  BY <1>3 DEF S

LEMMA Joined ==
  ASSUME NEW p \in Seq(Alphabet), NEW q \in Seq(Alphabet)
  PROVE  /\ p \o q \in Seq(Alphabet) /\ Len(p \o q) = Len(p) + Len(q)
         /\ \A i \in 1..Len(p) : (p \o q)[i] = p[i]
         /\ \A i \in 1..Len(q) : (p \o q)[Len(p) + i] = q[i]
<1>1. /\ p \o q \in Seq(Alphabet) /\ Len(p \o q) = Len(p) + Len(q)
      /\ \A i \in 1..(Len(p) + Len(q)) : (p \o q)[i] = IF i <= Len(p) THEN p[i]
                                                       ELSE q[i - Len(p)]
  BY ConcatProperties
<1>2. Len(p) \in Nat /\ Len(q) \in Nat
  BY LenProperties
<1>3. ASSUME NEW i \in 1..Len(q) PROVE (p \o q)[Len(p) + i] = q[i]
  <2>1. /\ Len(p) + i \in 1..(Len(p) + Len(q)) /\ ~ (Len(p) + i <= Len(p))
        /\ (Len(p) + i) - Len(p) = i
    BY <1>2
  <2> QED
    BY <1>1, <2>1
<1>4. \A i \in 1..Len(p) : (p \o q)[i] = p[i]
  BY <1>1, <1>2
<1> QED
  BY <1>1, <1>3, <1>4

LEMMA FirstOf ==
  ASSUME NEW S, S \subseteq Int, NEW k \in S, \A i \in S : k <= i
  PROVE  First(S) = k
<1>1. /\ First(S) \in S
      /\ \A i \in S : First(S) <= i
  BY DEF First
<1>2. First(S) \in Int /\ k \in Int /\ First(S) <= k /\ k <= First(S)
  BY <1>1
<1> QED
  BY <1>2

\* Where everything is in a block around a and b.
Laid(a, b) == Open \o a \o Between \o <<"web_search">> \o OpenEnd \o b \o Close

LEMMA Pieces ==
  /\ Open \in Seq(Alphabet) /\ Len(Open) = 3
  /\ Between \in Seq(Alphabet) /\ Len(Between) = 3
  /\ Between[1] = "quote" /\ Between[2] = "source_tool=" /\ Between[3] = "quote"
  /\ <<"web_search">> \in Seq(Alphabet) /\ Len(<<"web_search">>) = 1
  /\ <<"web_search">>[1] = "web_search"
  /\ OpenEnd \in Seq(Alphabet) /\ Len(OpenEnd) = 2
  /\ OpenEnd[1] = "quote" /\ OpenEnd[2] = "gt"
  /\ Close \in Seq(Alphabet) /\ Len(Close) = 3
  /\ Close[1] = "lt" /\ Close[2] = "/evidence" /\ Close[3] = "gt"
<1>1. /\ "lt" \in Alphabet /\ "gt" \in Alphabet /\ "quote" \in Alphabet
      /\ "evidence_id=" \in Alphabet /\ "source_tool=" \in Alphabet
      /\ "/evidence" \in Alphabet /\ "web_search" \in Alphabet
  BY DEF Alphabet
<1>2. Open \in Seq(Alphabet) /\ Len(Open) = 3
  BY <1>1 DEF Open
<1>3. /\ Between \in Seq(Alphabet) /\ Len(Between) = 3
      /\ Between[1] = "quote" /\ Between[2] = "source_tool=" /\ Between[3] = "quote"
  BY <1>1 DEF Between
<1>4. /\ <<"web_search">> \in Seq(Alphabet) /\ Len(<<"web_search">>) = 1
      /\ <<"web_search">>[1] = "web_search"
  BY <1>1
<1>5. /\ OpenEnd \in Seq(Alphabet) /\ Len(OpenEnd) = 2
      /\ OpenEnd[1] = "quote" /\ OpenEnd[2] = "gt"
  BY <1>1 DEF OpenEnd
<1>6. /\ Close \in Seq(Alphabet) /\ Len(Close) = 3
      /\ Close[1] = "lt" /\ Close[2] = "/evidence" /\ Close[3] = "gt"
  BY <1>1 DEF Close
<1> QED
  BY <1>2, <1>3, <1>4, <1>5, <1>6

LEMMA Layout ==
  ASSUME NEW a \in Seq(Alphabet), NEW b \in Seq(Alphabet)
  PROVE  LET A == Len(a)
             B == Len(b)
             t == Laid(a, b)
         IN /\ A \in Nat /\ B \in Nat
            /\ t \in Seq(Alphabet) /\ Len(t) = A + B + 12
            /\ \A i \in 1..A : t[3 + i] = a[i]
            /\ t[A + 4] = "quote" /\ t[A + 5] = "source_tool=" /\ t[A + 6] = "quote"
            /\ t[A + 7] = "web_search" /\ t[A + 8] = "quote" /\ t[A + 9] = "gt"
            /\ \A i \in 1..B : t[A + 9 + i] = b[i]
            /\ t[A + B + 10] = "lt" /\ t[A + B + 11] = "/evidence" /\ t[A + B + 12] = "gt"
<1> DEFINE A == Len(a)
           B == Len(b)
           w == <<"web_search">>
           t1 == Open \o a
           t2 == t1 \o Between
           t3 == t2 \o w
           t4 == t3 \o OpenEnd
           t5 == t4 \o b
           t6 == t5 \o Close
<1> HIDE DEF A, B, w, t1, t2, t3, t4, t5, t6
<1>1. A \in Nat /\ B \in Nat
  BY LenProperties DEF A, B
<1>2. /\ t1 \in Seq(Alphabet) /\ Len(t1) = Len(Open) + Len(a)
      /\ \A i \in 1..Len(a) : t1[Len(Open) + i] = a[i]
  BY Pieces, Joined, Zenon DEF t1
<1>3. /\ t2 \in Seq(Alphabet) /\ Len(t2) = Len(t1) + Len(Between)
      /\ \A i \in 1..Len(t1) : t2[i] = t1[i]
      /\ \A i \in 1..Len(Between) : t2[Len(t1) + i] = Between[i]
  BY <1>2, Pieces, Joined, Zenon DEF t2
<1>4. /\ t3 \in Seq(Alphabet) /\ Len(t3) = Len(t2) + Len(w)
      /\ \A i \in 1..Len(t2) : t3[i] = t2[i]
      /\ \A i \in 1..Len(w) : t3[Len(t2) + i] = w[i]
  <2>1. w \in Seq(Alphabet)
    BY Pieces DEF w
  <2> QED
    BY <1>3, <2>1, Joined, Zenon DEF t3
<1>5. /\ t4 \in Seq(Alphabet) /\ Len(t4) = Len(t3) + Len(OpenEnd)
      /\ \A i \in 1..Len(t3) : t4[i] = t3[i]
      /\ \A i \in 1..Len(OpenEnd) : t4[Len(t3) + i] = OpenEnd[i]
  BY <1>4, Pieces, Joined, Zenon DEF t4
<1>6. /\ t5 \in Seq(Alphabet) /\ Len(t5) = Len(t4) + Len(b)
      /\ \A i \in 1..Len(t4) : t5[i] = t4[i]
      /\ \A i \in 1..Len(b) : t5[Len(t4) + i] = b[i]
  BY <1>5, Joined, Zenon DEF t5
<1>7. /\ t6 \in Seq(Alphabet) /\ Len(t6) = Len(t5) + Len(Close)
      /\ \A i \in 1..Len(t5) : t6[i] = t5[i]
      /\ \A i \in 1..Len(Close) : t6[Len(t5) + i] = Close[i]
  BY <1>6, Pieces, Joined, Zenon DEF t6
<1>8. /\ Len(t1) = A + 3 /\ Len(t2) = A + 6 /\ Len(t3) = A + 7 /\ Len(t4) = A + 9
      /\ Len(t5) = A + B + 9 /\ Len(t6) = A + B + 12
  <2>1. /\ Len(Open) = 3 /\ Len(Between) = 3 /\ Len(w) = 1 /\ Len(OpenEnd) = 2
        /\ Len(Close) = 3 /\ Len(a) = A /\ Len(b) = B
    BY Pieces DEF w, A, B
  <2>2. /\ Len(t1) = Len(Open) + Len(a) /\ Len(t2) = Len(t1) + Len(Between)
        /\ Len(t3) = Len(t2) + Len(w) /\ Len(t4) = Len(t3) + Len(OpenEnd)
        /\ Len(t5) = Len(t4) + Len(b) /\ Len(t6) = Len(t5) + Len(Close)
    BY <1>2, <1>3, <1>4, <1>5, <1>6, <1>7
  <2> QED
    BY <1>1, <2>1, <2>2
\* What is laid stays where it is.
<1>9. /\ \A i \in 1..(A + B + 9) : t6[i] = t5[i]
      /\ \A i \in 1..(A + 9) : t6[i] = t4[i]
      /\ \A i \in 1..(A + 7) : t6[i] = t3[i]
      /\ \A i \in 1..(A + 6) : t6[i] = t2[i]
      /\ \A i \in 1..(A + 3) : t6[i] = t1[i]
  <2>1. \A i \in 1..(A + B + 9) : t6[i] = t5[i]
    BY <1>7, <1>8
  <2>2. \A i \in 1..(A + 9) : t5[i] = t4[i] /\ i \in 1..(A + B + 9)
    BY <1>1, <1>6, <1>8
  <2>3. \A i \in 1..(A + 7) : t4[i] = t3[i] /\ i \in 1..(A + 9)
    <3>1. \A i \in 1..(A + 7) : t4[i] = t3[i]
      BY <1>5, <1>8
    <3>2. \A i \in 1..(A + 7) : i \in 1..(A + 9)
      BY <1>1
    <3> QED
      BY <3>1, <3>2
  <2>4. \A i \in 1..(A + 6) : t3[i] = t2[i] /\ i \in 1..(A + 7)
    BY <1>1, <1>4, <1>8
  <2>5. \A i \in 1..(A + 3) : t2[i] = t1[i] /\ i \in 1..(A + 6)
    BY <1>1, <1>3, <1>8
  <2> QED
    BY <2>1, <2>2, <2>3, <2>4, <2>5, Zenon
<1>10. \A i \in 1..A : t6[3 + i] = a[i]
  <2>1. \A i \in 1..A : t1[3 + i] = a[i]
    BY <1>2, Pieces DEF A
  <2>2. \A i \in 1..A : 3 + i \in 1..(A + 3)
    BY <1>1
  <2> QED
    BY <1>9, <2>1, <2>2
<1>11. t6[A + 4] = "quote" /\ t6[A + 5] = "source_tool=" /\ t6[A + 6] = "quote"
  <2>1. \A i \in 1..3 : t2[(A + 3) + i] = Between[i]
    BY <1>3, <1>8, Pieces
  <2>2. t2[(A + 3) + 1] = Between[1] /\ t2[(A + 3) + 2] = Between[2] /\ t2[(A + 3) + 3] = Between[3]
    BY <2>1
  <2>3. (A + 3) + 1 = A + 4 /\ (A + 3) + 2 = A + 5 /\ (A + 3) + 3 = A + 6
    BY <1>1
  <2>4. A + 4 \in 1..(A + 6) /\ A + 5 \in 1..(A + 6) /\ A + 6 \in 1..(A + 6)
    BY <1>1
  <2> QED
    BY <1>9, Pieces, <2>2, <2>3, <2>4
<1>12. t6[A + 7] = "web_search"
  <2>1. \A i \in 1..1 : t3[(A + 6) + i] = w[i]
    BY <1>4, <1>8, Pieces DEF w
  <2>2. t3[(A + 6) + 1] = "web_search"
    BY <2>1, Pieces DEF w
  <2>3. (A + 6) + 1 = A + 7 /\ A + 7 \in 1..(A + 7)
    BY <1>1
  <2> QED
    BY <1>9, <2>2, <2>3
<1>13. t6[A + 8] = "quote" /\ t6[A + 9] = "gt"
  <2>1. \A i \in 1..2 : t4[(A + 7) + i] = OpenEnd[i]
    BY <1>5, <1>8, Pieces
  <2>2. t4[(A + 7) + 1] = OpenEnd[1] /\ t4[(A + 7) + 2] = OpenEnd[2]
    BY <2>1
  <2>3. /\ (A + 7) + 1 = A + 8 /\ (A + 7) + 2 = A + 9
        /\ A + 8 \in 1..(A + 9) /\ A + 9 \in 1..(A + 9)
    BY <1>1
  <2> QED
    BY <1>9, Pieces, <2>2, <2>3
<1>14. \A i \in 1..B : t6[A + 9 + i] = b[i]
  <2>1. \A i \in 1..B : t5[(A + 9) + i] = b[i]
    BY <1>6, <1>8 DEF B
  <2>2. \A i \in 1..B : (A + 9) + i \in 1..(A + B + 9)
    BY <1>1
  <2> QED
    BY <1>9, <2>1, <2>2
<1>15. t6[A + B + 10] = "lt" /\ t6[A + B + 11] = "/evidence" /\ t6[A + B + 12] = "gt"
  <2>1. \A i \in 1..3 : t6[(A + B + 9) + i] = Close[i]
    BY <1>7, <1>8, Pieces
  <2>2. /\ t6[(A + B + 9) + 1] = Close[1] /\ t6[(A + B + 9) + 2] = Close[2]
        /\ t6[(A + B + 9) + 3] = Close[3]
    BY <2>1
  <2>3. /\ (A + B + 9) + 1 = A + B + 10 /\ (A + B + 9) + 2 = A + B + 11
        /\ (A + B + 9) + 3 = A + B + 12
    BY <1>1
  <2> QED
    BY Pieces, <2>2, <2>3
<1>16. Laid(a, b) = t6
  BY DEF Laid, t1, t2, t3, t4, t5, t6, w
<1> QED
  BY <1>1, <1>7, <1>8, <1>10, <1>11, <1>12, <1>13, <1>14, <1>15, <1>16 DEF A, B

\* One token of a text, as a sub-sequence.
LEMMA OneToken ==
  ASSUME NEW t \in Seq(Alphabet), NEW x \in Alphabet
  PROVE  Occurs(<<x>>, t) = {i \in 1..Len(t) : t[i] = x}
<1>1. Len(t) \in Nat /\ Len(<<x>>) = 1
  BY LenProperties
<1>2. ASSUME NEW i \in 1..Len(t)
      PROVE  SubSeq(t, i, i) = <<x>> <=> t[i] = x
  <2>1. \A j \in i..i : t[j] \in Alphabet
    BY ElementOfSeq
  <2>2. /\ SubSeq(t, i, i) \in Seq(Alphabet) /\ Len(SubSeq(t, i, i)) = 1
        /\ SubSeq(t, i, i)[1] = t[i]
    <3>1. /\ SubSeq(t, i, i) \in Seq(Alphabet)
          /\ Len(SubSeq(t, i, i)) = IF i <= i THEN i - i + 1 ELSE 0
          /\ \A j \in 1..(i - i + 1) : SubSeq(t, i, i)[j] = t[i + j - 1]
      BY <2>1, SubSeqProperties
    <3> QED
      BY <1>1, <3>1
  <2>3. <<x>> \in Seq(Alphabet) /\ <<x>>[1] = x
    OBVIOUS
  <2>4. t[i] = x => SubSeq(t, i, i) = <<x>>
    <3> SUFFICES ASSUME t[i] = x PROVE SubSeq(t, i, i) = <<x>>
      OBVIOUS
    <3>1. \A j \in 1..Len(SubSeq(t, i, i)) : SubSeq(t, i, i)[j] = <<x>>[j]
      BY <2>2, <2>3
    <3> QED
      BY <1>1, <2>2, <2>3, <3>1, SeqEqual
  <2> QED
    BY <2>2, <2>3, <2>4
<1>3. \A i \in 1..(Len(t) - Len(<<x>>) + 1) : i + Len(<<x>>) - 1 = i
  BY <1>1
<1>4. Len(t) - Len(<<x>>) + 1 = Len(t)
  BY <1>1
<1> QED
  BY <1>2, <1>3, <1>4 DEF Occurs

\* A closing tag begins with a bracket, and there is one where its tokens are.
LEMMA CloseTags ==
  ASSUME NEW t \in Seq(Alphabet)
  PROVE  /\ \A i \in Occurs(Close, t) : i \in 1..(Len(t) - 2) /\ t[i] = "lt"
         /\ \A i \in 1..(Len(t) - 2) :
              t[i] = "lt" /\ t[i + 1] = "/evidence" /\ t[i + 2] = "gt" => i \in Occurs(Close, t)
<1>1. Len(t) \in Nat /\ Len(Close) = 3 /\ Close \in Seq(Alphabet)
  BY LenProperties, Pieces
<1>2. Occurs(Close, t) = {i \in 1..(Len(t) - 2) : SubSeq(t, i, i + 2) = Close}
  <2>1. Len(t) - Len(Close) + 1 = Len(t) - 2
    BY <1>1
  <2>2. \A i \in 1..(Len(t) - 2) : i + Len(Close) - 1 = i + 2
    BY <1>1
  <2> QED
    BY <2>1, <2>2 DEF Occurs
<1>3. ASSUME NEW i \in 1..(Len(t) - 2)
      PROVE  /\ SubSeq(t, i, i + 2) \in Seq(Alphabet) /\ Len(SubSeq(t, i, i + 2)) = 3
             /\ SubSeq(t, i, i + 2)[1] = t[i]
             /\ SubSeq(t, i, i + 2)[2] = t[i + 1]
             /\ SubSeq(t, i, i + 2)[3] = t[i + 2]
  <2>1. i \in Int /\ i + 2 \in Int /\ \A j \in i..(i + 2) : t[j] \in Alphabet
    BY <1>1, ElementOfSeq
  <2> DEFINE s == SubSeq(t, i, i + 2)
  <2>2. /\ s \in Seq(Alphabet)
        /\ Len(s) = IF i <= i + 2 THEN (i + 2) - i + 1 ELSE 0
        /\ \A j \in 1..((i + 2) - i + 1) : s[j] = t[i + j - 1]
    BY <2>1, SubSeqProperties
  <2> HIDE DEF s
  <2>3. (i + 2) - i + 1 = 3 /\ i <= i + 2
    OBVIOUS
  <2>4. \A j \in 1..3 : s[j] = t[i + j - 1]
    BY <2>2, <2>3
  <2>5. s[1] = t[i + 1 - 1] /\ s[2] = t[i + 2 - 1] /\ s[3] = t[i + 3 - 1]
    BY <2>4
  <2>6. i + 1 - 1 = i /\ i + 2 - 1 = i + 1 /\ i + 3 - 1 = i + 2
    OBVIOUS
  <2> QED
    BY <2>2, <2>3, <2>5, <2>6 DEF s
<1>4. ASSUME NEW i \in Occurs(Close, t) PROVE i \in 1..(Len(t) - 2) /\ t[i] = "lt"
  BY <1>2, <1>3, Pieces
<1>5. ASSUME NEW i \in 1..(Len(t) - 2),
             t[i] = "lt", t[i + 1] = "/evidence", t[i + 2] = "gt"
      PROVE  i \in Occurs(Close, t)
  <2> DEFINE s == SubSeq(t, i, i + 2)
  <2>1. /\ s \in Seq(Alphabet) /\ Len(s) = 3
        /\ s[1] = Close[1] /\ s[2] = Close[2] /\ s[3] = Close[3]
    BY <1>3, <1>5, Pieces
  <2> HIDE DEF s
  <2>2. \A j \in 1..Len(s) : s[j] = Close[j]
    <3>1. \A j \in 1..Len(s) : j = 1 \/ j = 2 \/ j = 3
      BY <2>1
    <3> QED
      BY <2>1, <3>1
  <2>3. s = Close
    BY <1>1, <2>1, <2>2, SeqEqual
  <2> QED
    BY <1>2, <2>3 DEF s
<1> QED
  BY <1>4, <1>5

\* A block is found where it was laid: its attribute ends at its quote, and its
\* body at its own closing tag.
LEMMA BlockFound ==
  ASSUME NEW a \in Seq(Alphabet), NEW b \in Seq(Alphabet),
         \A i \in 1..Len(a) : a[i] # "quote",
         \A i \in 1..Len(b) : b[i] # "lt"
  PROVE  /\ Block(Laid(a, b)).id = a
         /\ Block(Laid(a, b)).body = b
         /\ Block(Laid(a, b)).end = Len(Laid(a, b))
<1> DEFINE A == Len(a)
           B == Len(b)
           t == Laid(a, b)
           Q == Occurs(<<"quote">>, t)
<1>1. /\ A \in Nat /\ B \in Nat
      /\ t \in Seq(Alphabet) /\ Len(t) = A + B + 12
      /\ \A i \in 1..A : t[3 + i] = a[i]
      /\ t[A + 4] = "quote" /\ t[A + 5] = "source_tool=" /\ t[A + 6] = "quote"
      /\ t[A + 7] = "web_search" /\ t[A + 8] = "quote" /\ t[A + 9] = "gt"
      /\ \A i \in 1..B : t[A + 9 + i] = b[i]
      /\ t[A + B + 10] = "lt" /\ t[A + B + 11] = "/evidence" /\ t[A + B + 12] = "gt"
  BY Layout
<1> HIDE DEF t
<1>2. Q = {i \in 1..(A + B + 12) : t[i] = "quote"}
  <2>1. "quote" \in Alphabet
    BY DEF Alphabet
  <2> QED
    BY <1>1, <2>1, OneToken
<1> HIDE DEF Q
<1>3. First({i \in Q : i > 3}) = A + 4
  <2>1. A + 4 \in {i \in Q : i > 3}
    BY <1>1, <1>2
  <2>2. ASSUME NEW i \in Q, i > 3 PROVE A + 4 <= i
    <3> SUFFICES ASSUME i < A + 4 PROVE FALSE
      BY <1>1, <1>2
    <3>1. i - 3 \in 1..A /\ 3 + (i - 3) = i
      BY <1>1, <1>2, <2>2
    <3>2. t[i] = a[i - 3]
      BY <1>1, <3>1
    <3> QED
      BY <1>2, <3>1, <3>2
  <2>3. {i \in Q : i > 3} \subseteq Int
    BY <1>2
  <2> DEFINE S == {i \in Q : i > 3}
             k == A + 4
  <2>4. k \in S /\ S \subseteq Int /\ \A i \in S : k <= i
    BY <2>1, <2>2, <2>3
  <2> HIDE DEF S, k
  <2>5. First(S) = k
    BY <2>4, FirstOf
  <2> QED
    BY <2>5 DEF S, k
<1>4. First({i \in Q : i > A + 6}) = A + 8
  <2>1. A + 8 \in {i \in Q : i > A + 6}
    BY <1>1, <1>2
  <2>2. ASSUME NEW i \in Q, i > A + 6 PROVE A + 8 <= i
    <3> SUFFICES ASSUME i < A + 8 PROVE FALSE
      BY <1>1, <1>2
    <3>1. i = A + 7
      BY <1>1, <1>2, <2>2
    <3> QED
      BY <1>1, <1>2, <3>1
  <2>3. {i \in Q : i > A + 6} \subseteq Int
    BY <1>2
  <2> DEFINE S == {i \in Q : i > A + 6}
             k == A + 8
  <2>4. k \in S /\ S \subseteq Int /\ \A i \in S : k <= i
    BY <2>1, <2>2, <2>3
  <2> HIDE DEF S, k
  <2>5. First(S) = k
    BY <2>4, FirstOf
  <2> QED
    BY <2>5 DEF S, k
<1>5. First({i \in Occurs(Close, t) : i >= A + 10}) = A + B + 10
  <2>1. A + B + 10 \in {i \in Occurs(Close, t) : i >= A + 10}
    <3>1. /\ A + B + 10 \in 1..(Len(t) - 2) /\ A + B + 10 >= A + 10
          /\ (A + B + 10) + 1 = A + B + 11 /\ (A + B + 10) + 2 = A + B + 12
      BY <1>1
    <3> QED
      BY <1>1, <3>1, CloseTags
  <2>2. ASSUME NEW i \in Occurs(Close, t), i >= A + 10 PROVE A + B + 10 <= i
    <3>0. i \in 1..(Len(t) - 2) /\ t[i] = "lt"
      BY <1>1, CloseTags
    <3> SUFFICES ASSUME i < A + B + 10 PROVE FALSE
      BY <1>1, <3>0
    <3>1. i - (A + 9) \in 1..B /\ A + 9 + (i - (A + 9)) = i
      BY <1>1, <3>0, <2>2
    <3>2. t[i] = b[i - (A + 9)]
      BY <1>1, <3>1
    <3> QED
      BY <3>0, <3>1, <3>2
  <2>3. {i \in Occurs(Close, t) : i >= A + 10} \subseteq Int
    BY <1>1, CloseTags
  <2> DEFINE S == {i \in Occurs(Close, t) : i >= A + 10}
             k == A + B + 10
  <2>4. k \in S /\ S \subseteq Int /\ \A i \in S : k <= i
    BY <2>1, <2>2, <2>3
  <2> HIDE DEF S, k
  <2>5. First(S) = k
    BY <2>4, FirstOf
  <2> QED
    BY <2>5 DEF S, k
<1>6. SubSeq(t, 4, A + 3) = a
  <2>1. \A i \in 4..(A + 3) : t[i] \in Alphabet
    BY <1>1, ElementOfSeq
  <2> DEFINE s == SubSeq(t, 4, A + 3)
  <2>2. /\ s \in Seq(Alphabet)
        /\ Len(s) = IF 4 <= A + 3 THEN (A + 3) - 4 + 1 ELSE 0
        /\ \A j \in 1..((A + 3) - 4 + 1) : s[j] = t[4 + j - 1]
    <3>1. 4 \in Int /\ A + 3 \in Int
      BY <1>1
    <3> HIDE DEF A
    <3> QED
      BY <2>1, <3>1, SubSeqProperties
  <2> HIDE DEF s
  <2>3. Len(s) = A /\ \A j \in 1..A : s[j] = t[4 + j - 1] /\ 4 + j - 1 = 3 + j
    BY <1>1, <2>2
  <2>4. \A j \in 1..Len(s) : s[j] = a[j]
    BY <1>1, <2>3
  <2> QED
    BY <2>2, <2>3, <2>4, SeqEqual DEF s
<1>7. SubSeq(t, A + 10, A + B + 9) = b
  <2>1. \A i \in (A + 10)..(A + B + 9) : t[i] \in Alphabet
    BY <1>1, ElementOfSeq
  <2> DEFINE s == SubSeq(t, A + 10, A + B + 9)
  <2>2. /\ s \in Seq(Alphabet)
        /\ Len(s) = IF A + 10 <= A + B + 9 THEN (A + B + 9) - (A + 10) + 1 ELSE 0
        /\ \A j \in 1..((A + B + 9) - (A + 10) + 1) : s[j] = t[(A + 10) + j - 1]
    <3>1. A + 10 \in Int /\ A + B + 9 \in Int
      BY <1>1
    <3> HIDE DEF A, B
    <3> QED
      BY <2>1, <3>1, SubSeqProperties
  <2> HIDE DEF s
  <2>3. Len(s) = B /\ \A j \in 1..B : s[j] = t[(A + 10) + j - 1] /\ (A + 10) + j - 1 = A + 9 + j
    BY <1>1, <2>2
  <2>4. \A j \in 1..Len(s) : s[j] = b[j]
    <3>1. \A j \in 1..B : t[A + 9 + j] = b[j]
      BY <1>1
    <3> HIDE DEF A, B
    <3> QED
      BY <2>3, <3>1
  <2> QED
    BY <2>2, <2>3, <2>4, SeqEqual DEF s
<1>8. Block(t) = [id |-> a, body |-> b, end |-> A + B + 12]
  <2>1. Len(Open) = 3 /\ Len(Between) = 3 /\ Len(OpenEnd) = 2 /\ Len(Close) = 3
    BY Pieces
  <2> HIDE DEF A, B
  <2>2. (A + 4) + 3 - 1 = A + 6 /\ (A + 8) + 2 = A + 10 /\ 3 + 1 = 4 /\ (A + 4) - 1 = A + 3
        /\ (A + B + 10) - 1 = A + B + 9 /\ (A + B + 10) + 3 - 1 = A + B + 12
    BY <1>1
  <2> QED
    BY <1>3, <1>4, <1>5, <1>6, <1>7, <2>1, <2>2, Zenon DEF Block, Q
<1> QED
  BY <1>1, <1>8 DEF t

\* wrap_untrusted and extract_untrusted: what goes in comes out, and nothing of it
\* is outside the block.
LEMMA WrapKeeps ==
  ASSUME NEW c \in Seq(Tokens), NEW id \in Seq(Tokens)
  PROVE  LET t == Wrap(c, <<"web_search">>, id)
         IN Extract(t, id) = c /\ Block(t).end = Len(t)
<1> DEFINE a == Escape(id, AttrEntity)
           b == Escape(c, BodyEntity)
           t == Wrap(c, <<"web_search">>, id)
<1>1. c \in Seq(Alphabet) /\ id \in Seq(Alphabet)
  <2>1. Tokens \subseteq Alphabet
    BY DEF Alphabet
  <2> QED
    BY <2>1, SeqMonotonic
<1>2. /\ a \in Seq(Alphabet)
      /\ \A i \in 1..Len(a) : a[i] \notin DOMAIN AttrEntity \ {"amp"}
      /\ Unescape(a) = id
  BY <1>1, Tables, EscapedAll DEF Escaped
<1>3. /\ b \in Seq(Alphabet)
      /\ \A i \in 1..Len(b) : b[i] \notin DOMAIN BodyEntity \ {"amp"}
      /\ Unescape(b) = c
  BY <1>1, Tables, EscapedAll DEF Escaped
<1>4. Escape(<<"web_search">>, AttrEntity) = <<"web_search">>
  <2>1. "web_search" \in Alphabet /\ "web_search" \notin DOMAIN AttrEntity
    BY Entities DEF Alphabet
  <2>2. /\ <<>> \in Seq(Alphabet) /\ Append(<<>>, "web_search") = <<"web_search">>
        /\ <<>> \o <<"web_search">> = <<"web_search">>
    BY <2>1, EmptySeq, ConcatEmptySeq
  <2>3. /\ Escape(<<>>, AttrEntity) = <<>>
        /\ Escape(Append(<<>>, "web_search"), AttrEntity)
             = Escape(<<>>, AttrEntity) \o EscapedTo("web_search", AttrEntity)
    BY <2>1, <2>2, Tables, EscapeStep
  <2> QED
    BY <2>1, <2>2, <2>3 DEF EscapedTo
<1>5. t = Laid(a, b)
  BY <1>4 DEF Wrap, Laid
<1>6. /\ \A i \in 1..Len(a) : a[i] # "quote"
      /\ \A i \in 1..Len(b) : b[i] # "lt"
  BY <1>2, <1>3, Entities
<1> HIDE DEF a, b, t
<1>7. Block(t).id = a /\ Block(t).body = b /\ Block(t).end = Len(t)
  BY <1>2, <1>3, <1>5, <1>6, BlockFound
<1>8. Extract(t, id) = c
  BY <1>2, <1>3, <1>7 DEF Extract
<1> QED
  BY <1>7, <1>8 DEF t
-----------------------------------------------------------------------------
(***************************************************************************)
(* Tools.                                                                  *)
(*                                                                         *)
(* What the loop of a lookup has done is told by its attempt alone: as     *)
(* many requests, all throttled, and the first waits of the table.         *)
(***************************************************************************)
Busy == {"call", "request", "judge", "sleep", "result"}

OwnWait == <<0, 1, 3, 7>>

\* Who calls which tool, and why.
Calling ==
  /\ who = "deep" => paper \in Papers
  /\ who = "wide" => tag \in Tags /\ calls \in 1..MaxCalls
  /\ pc \in Busy =>
       /\ tool \in ToolNames
       /\ who = "deep" =>
            /\ tool \in LookupTools
            /\ paper \notin Web
            /\ tool = "arxiv_lookup" =>
                 paper \in Arxiv /\ s2Exc \in Fallbackable /\ s2Exc = last["s2_lookup"]

\* Requests, throttled answers and waits of the current tool call.
Sent ==
  /\ pc = "call" => attempt = 0 /\ requests = 0 /\ throttled = 0
  /\ pc \in Busy /\ tool \notin LookupTools => attempt = 0
  /\ pc = "request" => requests = attempt /\ throttled = attempt
  /\ pc \in {"judge", "sleep"} =>
       /\ response \in Responses(tool)
       /\ requests = attempt + 1
       /\ throttled = IF response.status = "throttled" THEN attempt + 1 ELSE attempt
  /\ pc = "sleep" => Retried(response)

Waited == slept \in demanded..(demanded + OwnWait[attempt + 1])

\* What the current tool call came to.
Came ==
  pc = "result" => /\ came \in Lookup \cup {"results"}
                   /\ who = "deep" => came \in Lookup
                   /\ last[tool] = came

\* One message for each call of the turn taken up, but the one under way.
Answering ==
  who = "wide" => /\ pc \in {"ready", "done"} => Len(toolMessages) = made
                  /\ pc \in Busy => Len(toolMessages) + 1 = made
                  /\ pc = "ready" => made < calls

\* The block of the turn, if its last message is wrapped.
Boxed == block # NoBlock => tag \in Tags /\ block \in Wrapped(tag)

ToolsInv ==
  /\ TypeOK
  /\ Calling
  /\ Boxed
  /\ Sent
  /\ Waited
  /\ Came
  /\ Answering
  /\ DeepSeesContract
  /\ OnlyThrottledRetried

\* The table of waits adds up the backoffs.
LEMMA Waits ==
  /\ \A a \in 0..3 : OwnWait[a + 1] \in 0..7
  /\ \A a \in 0..2 : OwnWait[a + 2] = OwnWait[a + 1] + DEFAULT_BACKOFF_SECONDS[a + 1]
<1>1. ASSUME NEW a \in 0..3 PROVE OwnWait[a + 1] \in 0..7
  <2>1. a = 0 \/ a = 1 \/ a = 2 \/ a = 3
    OBVIOUS
  <2> QED
    BY <2>1 DEF OwnWait
<1>2. ASSUME NEW a \in 0..2
      PROVE  OwnWait[a + 2] = OwnWait[a + 1] + DEFAULT_BACKOFF_SECONDS[a + 1]
  <2>1. a = 0 \/ a = 1 \/ a = 2
    OBVIOUS
  <2> QED
    BY <2>1 DEF OwnWait, DEFAULT_BACKOFF_SECONDS
<1> QED
  BY <1>1, <1>2

\* What a lookup's response comes to says what the response was.
LEMMA Judging ==
  ASSUME NEW t \in ToolNames, NEW r \in Responses(t)
  PROVE  /\ Judged(t, r) \in Lookup \cup {"results"}
         /\ t \in LookupTools => Judged(t, r) \in Lookup
         /\ Judged(t, r) = "provider_429" => r.status = "throttled"
<1>1. CASE r \in [status : {"ok"}, body : Bodies[t]]
  <2>1. r.status = "ok" /\ r.body \in Bodies[t]
    BY <1>1
  <2>2. r.body \in {"abstract", "absent", "misfit", "malformed", "results"}
    BY <2>1 DEF Bodies, ToolNames, LookupTools, WideTools, S2Bodies, ArxivBodies, SearchBodies,
                WebBodies
  <2>3. t \in LookupTools => r.body # "results"
    BY <2>1 DEF Bodies, LookupTools, S2Bodies, ArxivBodies
  <2> QED
    BY <2>1, <2>2, <2>3 DEF Judged, Parsed, Lookup
<1>2. CASE r \in [status : {"throttled", "server_error"}, after : Headers]
  BY <1>2 DEF Judged, StatusCategory, Lookup
<1>3. CASE r \in [status : {"not_found", "other"}]
  BY <1>3 DEF Judged, StatusCategory, Lookup
<1> QED
  BY <1>1, <1>2, <1>3 DEF Responses

\* A throttled response has a header.
LEMMA Throttled ==
  ASSUME NEW t, NEW r \in Responses(t), r.status = "throttled"
  PROVE  /\ r.after.given \in {"seconds", "none", "unusable", "endless"}
         /\ r.after.given = "seconds" => r.after.seconds \in Nat
<1>1. r \in [status : {"throttled", "server_error"}, after : Headers]
  BY DEF Responses
<1>2. r.after \in Headers
  BY <1>1
<1> QED
  BY <1>2, ToolsAssumption DEF Headers

\* What a lookup comes to is an outcome of the contract, if the fallback does not
\* make anything else of it.
LEMMA FetchedOf ==
  ASSUME NEW p, NEW f \in Lookup, p \in Web => f = "absent"
  PROVE  f \in Fetched(p)
<1>1. FetchAbstract(p, f, "network") = f /\ "network" \in Lookup
  BY DEF FetchAbstract, Lookup
<1> QED
  BY <1>1 DEF Fetched

LEMMA ToolsInvInit == Init => ToolsInv
<1> SUFFICES ASSUME Init PROVE ToolsInv
  OBVIOUS
<1>1. TypeOK
  BY ToolsAssumption DEF Init, TypeOK, MAX_RETRY_ATTEMPTS
<1>2. Waited
  BY DEF Init, Waited, OwnWait
<1>3. Calling /\ Boxed /\ Sent /\ Came /\ Answering /\ DeepSeesContract /\ OnlyThrottledRetried
  BY DEF Init, Calling, Boxed, Busy, Sent, Came, Answering, DeepSeesContract, OnlyThrottledRetried
<1> QED
  BY <1>1, <1>2, <1>3 DEF ToolsInv

\* Starting a tool call, and its result.
LEMMA SkipWebStep == ASSUME ToolsInv, SkipWeb PROVE ToolsInv'
<1>1. /\ pc = "ready" /\ who = "deep" /\ paper \in Web /\ fetched' = "absent" /\ pc' = "done"
      /\ UNCHANGED <<who, paper, tag, calls, made, toolMessages, block, tool, attempt, response,
                     came, s2Exc, requests, throttled, slept, demanded, last>>
  BY DEF SkipWeb, job, turn, call, history, effort
<1>2. TypeOK'
  BY <1>1 DEF ToolsInv, TypeOK, Lookup
<1>3. Calling' /\ Boxed' /\ Sent' /\ Waited' /\ Came' /\ Answering' /\ OnlyThrottledRetried'
  BY <1>1 DEF ToolsInv, Calling, Boxed, Busy, Sent, Waited, Came, Answering, OnlyThrottledRetried
<1>4. DeepSeesContract'
  <2>1. "absent" \in Lookup
    BY DEF Lookup
  <2>2. fetched' \in Fetched(paper)
    BY <1>1, <2>1, FetchedOf
  <2> QED
    BY <1>1, <2>2 DEF DeepSeesContract, FetchAbstract
<1> QED
  BY <1>2, <1>3, <1>4 DEF ToolsInv

LEMMA CallS2Step == ASSUME ToolsInv, CallS2 PROVE ToolsInv'
<1>1. /\ pc = "ready" /\ who = "deep" /\ paper \notin Web /\ CallTool("s2_lookup")
      /\ UNCHANGED <<who, paper, tag, calls, made, toolMessages, block, s2Exc, fetched, last>>
  BY DEF CallS2, job, turn, fetch
<1>2. TypeOK'
  BY <1>1 DEF ToolsInv, TypeOK, CallTool, ToolNames, LookupTools, MAX_RETRY_ATTEMPTS
<1>3. Waited'
  BY <1>1 DEF CallTool, Waited, OwnWait
<1>4. /\ Calling' /\ Boxed' /\ Sent' /\ Came' /\ Answering' /\ DeepSeesContract'
      /\ OnlyThrottledRetried'
  BY <1>1 DEF ToolsInv, CallTool, Calling, Boxed, Busy, Sent, Came, Answering, DeepSeesContract,
              OnlyThrottledRetried, ToolNames, LookupTools
<1> QED
  BY <1>2, <1>3, <1>4 DEF ToolsInv

LEMMA CallWideStep == ASSUME ToolsInv, CallWide PROVE ToolsInv'
<1>1. PICK t \in WideTools :
        /\ pc = "ready" /\ who = "wide" /\ CallTool(t) /\ made' = made + 1
        /\ last' = [u \in ToolNames |-> None] /\ block' = NoBlock
        /\ UNCHANGED <<who, paper, tag, calls, s2Exc, fetched, toolMessages>>
  BY DEF CallWide, job, fetch
<1>2. made < calls /\ made' \in 0..calls
  BY <1>1 DEF ToolsInv, TypeOK, Answering
<1>3. TypeOK'
  BY <1>1, <1>2 DEF ToolsInv, TypeOK, CallTool, ToolNames, MAX_RETRY_ATTEMPTS
<1>4. Waited'
  BY <1>1 DEF CallTool, Waited, OwnWait
<1>5. Answering'
  BY <1>1, <1>2 DEF ToolsInv, CallTool, Answering, Busy
<1>6. Calling' /\ Boxed' /\ Sent' /\ Came' /\ DeepSeesContract' /\ OnlyThrottledRetried'
  BY <1>1 DEF ToolsInv, CallTool, Calling, Boxed, Busy, Sent, Came, DeepSeesContract,
              OnlyThrottledRetried, ToolNames
<1> QED
  BY <1>3, <1>4, <1>5, <1>6 DEF ToolsInv

\* The ways a tool call gets its result.
LEMMA ResultStep ==
  ASSUME ToolsInv, pc \in Busy, NEW c, ComesTo(c), c \in Lookup \cup {"results"},
         who = "deep" => c \in Lookup,
         UNCHANGED <<job, turn, call, fetch, throttled, slept, demanded>>,
         requests' \in Nat, requests' \in throttled..(throttled + 1),
         tool \notin LookupTools => throttled <= 1,
         c = "provider_429" /\ tool \in LookupTools => requests' = 4 /\ throttled = 4
  PROVE  ToolsInv'
<1>1. /\ pc' = "result" /\ came' = c /\ last' = [last EXCEPT ![tool] = c]
      /\ UNCHANGED <<who, paper, tag, calls, made, toolMessages, block, tool, attempt, response,
                     s2Exc, fetched, throttled, slept, demanded>>
  BY DEF ComesTo, job, turn, call, fetch
<1>2. tool \in ToolNames /\ last \in [ToolNames -> Lookup \cup {"results", None}]
  BY DEF ToolsInv, TypeOK, Calling
<1>3. last'[tool] = c /\ (tool # "s2_lookup" => last'["s2_lookup"] = last["s2_lookup"])
  BY <1>1, <1>2 DEF ToolNames, LookupTools
<1>4. TypeOK'
  BY <1>1, <1>2 DEF ToolsInv, TypeOK
<1>5. Calling' /\ Boxed'
  BY <1>1, <1>3 DEF ToolsInv, Calling, Boxed, Busy
<1>6. Came' /\ OnlyThrottledRetried'
  BY <1>1, <1>3 DEF Came, OnlyThrottledRetried
<1>7. Sent' /\ Waited' /\ Answering' /\ DeepSeesContract'
  BY <1>1 DEF ToolsInv, Sent, Waited, Answering, DeepSeesContract, Busy
<1> QED
  BY <1>4, <1>5, <1>6, <1>7 DEF ToolsInv

LEMMA RefuseStep == ASSUME ToolsInv, Refuse PROVE ToolsInv'
<1>1. PICK c \in {"schema_invalid", "unclassified"} :
        pc = "call" /\ ComesTo(c) /\ UNCHANGED <<job, turn, call, fetch, effort>>
  BY DEF Refuse
<1>2. requests = 0 /\ throttled = 0
  BY <1>1 DEF ToolsInv, Sent
<1>3. UNCHANGED <<requests, throttled, slept, demanded>>
  BY <1>1 DEF effort
<1> QED
  BY <1>1, <1>2, <1>3, ResultStep DEF Busy, Lookup

LEMMA CacheHitStep == ASSUME ToolsInv, CacheHit PROVE ToolsInv'
<1>1. PICK c \in Bodies[tool] \cap {"abstract", "absent", "results"} :
        pc = "call" /\ ComesTo(c) /\ UNCHANGED <<job, turn, call, fetch, effort>>
  BY DEF CacheHit
<1>2. requests = 0 /\ throttled = 0
  BY <1>1 DEF ToolsInv, Sent
<1>3. UNCHANGED <<requests, throttled, slept, demanded>>
  BY <1>1 DEF effort
<1>4. tool \in LookupTools => c # "results"
  BY DEF Bodies, LookupTools, S2Bodies, ArxivBodies
<1>5. who = "deep" => tool \in LookupTools
  BY <1>1 DEF ToolsInv, Calling, Boxed, Busy
<1> QED
  BY <1>1, <1>2, <1>3, <1>4, <1>5, ResultStep DEF Busy, Lookup

LEMMA RequestRaisesStep == ASSUME ToolsInv, RequestRaises PROVE ToolsInv'
<1>1. PICK c \in {"network", "unclassified"} :
        /\ pc = "request" /\ ComesTo(c) /\ requests' = Counted(requests)
        /\ UNCHANGED <<job, turn, call, fetch, throttled, slept, demanded>>
  BY DEF RequestRaises
<1>2. requests = attempt /\ throttled = attempt /\ attempt \in 0..3
  BY <1>1 DEF ToolsInv, Sent, TypeOK, MAX_RETRY_ATTEMPTS
<1>3. tool \notin LookupTools => attempt = 0
  BY <1>1 DEF ToolsInv, Sent, Busy
<1>4. requests' = requests + 1
  BY <1>1, <1>2 DEF Counted, MAX_RETRY_ATTEMPTS
<1> QED
  BY <1>1, <1>2, <1>3, <1>4, ResultStep DEF Busy, Lookup

LEMMA SleepRaisesStep == ASSUME ToolsInv, SleepRaises PROVE ToolsInv'
<1>1. /\ pc = "sleep" /\ ComesTo("unclassified")
      /\ UNCHANGED <<job, turn, call, fetch, effort>>
  BY DEF SleepRaises
<1>2. UNCHANGED <<requests, throttled, slept, demanded>>
  BY <1>1 DEF effort
<1>3. /\ tool \in LookupTools /\ attempt \in Nat
      /\ requests = attempt + 1 /\ throttled = attempt + 1
  BY <1>1 DEF ToolsInv, Sent, Retried, TypeOK
<1> QED
  BY <1>1, <1>2, <1>3, ResultStep DEF Busy, Lookup

\* A throttled lookup gives up when its attempts are used up.
LEMMA JudgeStep == ASSUME ToolsInv, Judge PROVE ToolsInv'
<1>1. /\ pc = "judge" /\ ~ Retried(response) /\ ComesTo(Judged(tool, response))
      /\ UNCHANGED <<job, turn, call, fetch, effort>>
  BY DEF Judge
<1>2. UNCHANGED <<requests, throttled, slept, demanded>>
  BY <1>1 DEF effort
<1>3. /\ tool \in ToolNames /\ response \in Responses(tool) /\ attempt \in 0..3
      /\ requests = attempt + 1
      /\ throttled = IF response.status = "throttled" THEN attempt + 1 ELSE attempt
      /\ tool \notin LookupTools => attempt = 0
      /\ who = "deep" => tool \in LookupTools
  BY <1>1 DEF ToolsInv, Sent, Calling, Boxed, Busy, TypeOK, MAX_RETRY_ATTEMPTS
<1>4. /\ Judged(tool, response) \in Lookup \cup {"results"}
      /\ tool \in LookupTools => Judged(tool, response) \in Lookup
      /\ Judged(tool, response) = "provider_429" => response.status = "throttled"
  BY <1>3, Judging
<1>5. response.status = "throttled" /\ tool \in LookupTools => attempt = 3
  BY <1>1, <1>3 DEF Retried, MAX_RETRY_ATTEMPTS
<1> QED
  BY <1>1, <1>2, <1>3, <1>4, <1>5, ResultStep DEF Busy

LEMMA RecordFailsStep == ASSUME ToolsInv, RecordFails PROVE ToolsInv'
<1>1. /\ pc = "result" /\ ComesTo("unclassified")
      /\ UNCHANGED <<job, turn, call, fetch, effort>>
  BY DEF RecordFails
<1>2. UNCHANGED <<requests, throttled, slept, demanded>>
  BY <1>1 DEF effort
<1>3. /\ requests \in throttled..(throttled + 1)
      /\ tool \notin LookupTools => throttled <= 1
  BY <1>1 DEF ToolsInv, OnlyThrottledRetried
<1> QED
  BY <1>1, <1>2, <1>3, ResultStep DEF Busy, Lookup, ToolsInv, TypeOK

LEMMA MissStep == ASSUME ToolsInv, Miss \/ NoConnection PROVE ToolsInv'
<1>1. /\ \/ pc = "call" /\ pc' = "request"
         \/ pc = "ready" /\ who = "wide" /\ pc' = "raised"
      /\ UNCHANGED <<who, paper, tag, calls, made, toolMessages, block, tool, attempt, response,
                     came, s2Exc, fetched, requests, throttled, slept, demanded, last>>
  BY DEF Miss, NoConnection, job, turn, call, fetch, history, effort
<1>2. TypeOK'
  BY <1>1 DEF ToolsInv, TypeOK
<1>3. /\ Calling' /\ Boxed' /\ Sent' /\ Waited' /\ Came' /\ Answering' /\ DeepSeesContract'
      /\ OnlyThrottledRetried'
  BY <1>1 DEF ToolsInv, Calling, Boxed, Busy, Sent, Waited, Came, Answering, DeepSeesContract,
              OnlyThrottledRetried
<1> QED
  BY <1>2, <1>3 DEF ToolsInv

LEMMA RequestStep == ASSUME ToolsInv, Request PROVE ToolsInv'
<1>1. PICK r \in Responses(tool) :
        /\ pc = "request" /\ pc' = "judge" /\ response' = r /\ requests' = Counted(requests)
        /\ throttled' = IF r.status = "throttled" THEN Counted(throttled) ELSE throttled
        /\ UNCHANGED <<who, paper, tag, calls, made, toolMessages, block, tool, attempt,
                       came, s2Exc, fetched, slept, demanded, last>>
  BY DEF Request, job, turn, fetch
<1>2. requests = attempt /\ throttled = attempt /\ attempt \in 0..3 /\ tool \in ToolNames
  BY <1>1 DEF ToolsInv, Sent, Calling, Boxed, Busy, TypeOK, MAX_RETRY_ATTEMPTS
<1>3. /\ requests' = attempt + 1
      /\ throttled' = IF r.status = "throttled" THEN attempt + 1 ELSE attempt
  BY <1>1, <1>2 DEF Counted, MAX_RETRY_ATTEMPTS
<1>4. response' \in UNION {Responses(t) : t \in ToolNames}
  BY <1>1, <1>2
<1>5. TypeOK'
  BY <1>1, <1>2, <1>3, <1>4 DEF ToolsInv, TypeOK
<1>6. Sent'
  BY <1>1, <1>3 DEF ToolsInv, Sent, Busy
<1>7. /\ Calling' /\ Boxed' /\ Waited' /\ Came' /\ Answering' /\ DeepSeesContract'
      /\ OnlyThrottledRetried'
  BY <1>1 DEF ToolsInv, Calling, Boxed, Busy, Waited, Came, Answering, DeepSeesContract,
              OnlyThrottledRetried
<1> QED
  BY <1>5, <1>6, <1>7 DEF ToolsInv

LEMMA RetryStep == ASSUME ToolsInv, Retry PROVE ToolsInv'
<1>1. /\ pc = "judge" /\ Retried(response) /\ pc' = "sleep"
      /\ UNCHANGED <<who, paper, tag, calls, made, toolMessages, block, tool, attempt, response,
                     came, s2Exc, fetched, requests, throttled, slept, demanded, last>>
  BY DEF Retry, job, turn, call, fetch, history, effort
<1>2. TypeOK'
  BY <1>1 DEF ToolsInv, TypeOK
<1>3. /\ Calling' /\ Boxed' /\ Sent' /\ Waited' /\ Came' /\ Answering' /\ DeepSeesContract'
      /\ OnlyThrottledRetried'
  BY <1>1 DEF ToolsInv, Calling, Boxed, Busy, Sent, Waited, Came, Answering, DeepSeesContract,
              OnlyThrottledRetried, Retried
<1> QED
  BY <1>2, <1>3 DEF ToolsInv

\* The wait is what the server asks, or the next of the table.
LEMMA SleepStep == ASSUME ToolsInv, Sleep PROVE ToolsInv'
<1>1. /\ pc = "sleep" /\ pc' = "request" /\ attempt' = attempt + 1
      /\ slept' = slept + RetryDelay(response)
      /\ demanded' = IF response.after.given = "seconds"
                     THEN demanded + response.after.seconds ELSE demanded
      /\ UNCHANGED <<who, paper, tag, calls, made, toolMessages, block, tool, response,
                     came, s2Exc, fetched, requests, throttled, last>>
  BY DEF Sleep, NextAttempt, job, turn, fetch
<1>2. /\ tool \in LookupTools /\ response \in Responses(tool)
      /\ response.status = "throttled" /\ attempt \in 0..2
      /\ requests = attempt + 1 /\ throttled = attempt + 1
  BY <1>1 DEF ToolsInv, Sent, Retried, TypeOK, MAX_RETRY_ATTEMPTS
<1>3. response.after.given = "seconds" => response.after.seconds \in Nat
  BY <1>2, Throttled
<1>4. DEFAULT_BACKOFF_SECONDS[attempt + 1] \in Nat
  <2>1. attempt = 0 \/ attempt = 1 \/ attempt = 2
    BY <1>2
  <2> QED
    BY <2>1 DEF DEFAULT_BACKOFF_SECONDS
<1>5. slept \in Nat /\ demanded \in Nat /\ attempt' \in 0..3
  BY <1>1, <1>2 DEF ToolsInv, TypeOK
<1>6. slept' \in Nat /\ demanded' \in Nat
  BY <1>1, <1>3, <1>4, <1>5 DEF RetryDelay
<1>7. TypeOK'
  BY <1>1, <1>5, <1>6 DEF ToolsInv, TypeOK, MAX_RETRY_ATTEMPTS
<1>8. Waited'
  <2>1. OwnWait[attempt' + 1] = OwnWait[attempt + 1] + DEFAULT_BACKOFF_SECONDS[attempt + 1]
    <3>1. attempt' + 1 = attempt + 2
      BY <1>1, <1>2
    <3> QED
      BY <1>2, <3>1, Waits
  <2>2. OwnWait[attempt + 1] \in Nat
    BY <1>2, Waits
  <2>3. slept \in demanded..(demanded + OwnWait[attempt + 1])
    BY DEF ToolsInv, Waited
  <2>4. CASE response.after.given = "seconds"
    BY <1>1, <1>3, <1>4, <1>5, <2>1, <2>2, <2>3, <2>4 DEF RetryDelay, Waited
  <2>5. CASE response.after.given # "seconds"
    BY <1>1, <1>4, <1>5, <2>1, <2>2, <2>3, <2>5 DEF RetryDelay, Waited
  <2> QED
    BY <2>4, <2>5
<1>9. Sent'
  BY <1>1, <1>2 DEF Sent, Busy
<1>10. Calling' /\ Boxed' /\ Came' /\ Answering' /\ DeepSeesContract' /\ OnlyThrottledRetried'
  BY <1>1 DEF ToolsInv, Calling, Boxed, Busy, Came, Answering, DeepSeesContract, OnlyThrottledRetried
<1> QED
  BY <1>7, <1>8, <1>9, <1>10 DEF ToolsInv

LEMMA FallBackStep == ASSUME ToolsInv, FallBack PROVE ToolsInv'
<1>1. /\ pc = "result" /\ who = "deep" /\ tool = "s2_lookup" /\ came \in Fallbackable
      /\ paper \in Arxiv /\ s2Exc' = came /\ CallTool("arxiv_lookup")
      /\ UNCHANGED <<who, paper, tag, calls, made, toolMessages, block, fetched, last>>
  BY DEF FallBack, job, turn
<1>2. TypeOK'
  BY <1>1 DEF ToolsInv, TypeOK, CallTool, ToolNames, LookupTools, MAX_RETRY_ATTEMPTS
<1>3. Waited'
  BY <1>1 DEF CallTool, Waited, OwnWait
<1>4. last["s2_lookup"] = came
  BY <1>1 DEF ToolsInv, Came
<1>5. Calling' /\ Boxed'
  BY <1>1, <1>4 DEF ToolsInv, Calling, Boxed, CallTool, Busy, ToolNames, LookupTools
<1>6. Sent' /\ Came' /\ Answering' /\ DeepSeesContract' /\ OnlyThrottledRetried'
  BY <1>1 DEF ToolsInv, CallTool, Busy, Sent, Came, Answering, DeepSeesContract,
              OnlyThrottledRetried, LookupTools
<1> QED
  BY <1>2, <1>3, <1>5, <1>6 DEF ToolsInv

\* Where the fetch ends, the two lookups have come to what the contract says.
LEMMA FetchEndsStep == ASSUME ToolsInv, FetchEnds PROVE ToolsInv'
<1>1. /\ pc = "result" /\ who = "deep" /\ pc' = "done"
      /\ \/ /\ tool = "s2_lookup"
            /\ came \notin Fallbackable \/ paper \notin Arxiv
            /\ fetched' = came
         \/ /\ tool = "arxiv_lookup"
            /\ fetched' = IF Succeeded(came) THEN came ELSE s2Exc
      /\ UNCHANGED <<who, paper, tag, calls, made, toolMessages, block, tool, attempt, response,
                     came, s2Exc, requests, throttled, slept, demanded, last>>
  BY DEF FetchEnds, AfterFallback, job, turn, call, history, effort
<1>2. /\ came \in Lookup /\ paper \notin Web
      /\ tool = "s2_lookup" => last["s2_lookup"] = came
      /\ tool = "arxiv_lookup" => /\ last["arxiv_lookup"] = came
                                  /\ paper \in Arxiv /\ s2Exc \in Fallbackable
                                  /\ s2Exc = last["s2_lookup"]
  BY <1>1 DEF ToolsInv, Calling, Boxed, Came, Busy
<1>3. fetched' \in Lookup
  BY <1>1, <1>2 DEF Lookup, Fallbackable
<1>4. TypeOK'
  BY <1>1, <1>3 DEF ToolsInv, TypeOK
<1>5. DeepSeesContract'
  <2>1. Succeeded(came) <=> came \in {"abstract", "absent"}
    BY <1>2 DEF Succeeded, Lookup
  <2>2. fetched' \in Fetched(paper)
    BY <1>2, <1>3, FetchedOf
  <2> QED
    BY <1>1, <1>2, <2>1, <2>2 DEF DeepSeesContract, FetchAbstract
<1>6. Calling' /\ Boxed' /\ Sent' /\ Waited' /\ Came' /\ Answering' /\ OnlyThrottledRetried'
  BY <1>1 DEF ToolsInv, Calling, Boxed, Busy, Sent, Waited, Came, Answering, OnlyThrottledRetried
<1> QED
  BY <1>4, <1>5, <1>6 DEF ToolsInv

\* A message more, and the turn goes on or ends.
LEMMA ReplyStep ==
  ASSUME ToolsInv, who = "wide", NEW kind \in {"plain", "error", "wrapped"}, Reply(kind),
         \/ pc = "result" /\ made' = made
         \/ pc = "ready" /\ made' = made + 1,
         block' = NoBlock \/ block' \in Wrapped(tag),
         NextCall, UNCHANGED <<job, call, came, fetch, history>>
  PROVE  ToolsInv'
<1>1. /\ pc' \in {"ready", "done"} /\ (pc' = "ready" => made' # calls)
      /\ toolMessages' = Append(toolMessages, kind)
      /\ UNCHANGED <<who, paper, tag, calls, tool, attempt, response, came, s2Exc, fetched,
                     requests, throttled, slept, demanded, last>>
  BY DEF NextCall, Reply, job, call, fetch, history, effort
<1>2. made' \in 0..calls /\ made \in Nat /\ calls \in Nat
  BY DEF ToolsInv, TypeOK, Answering
<1>3. tag \in Tags
  BY DEF ToolsInv, Calling
<1>4. block' \in {NoBlock} \cup UNION {Wrapped(id) : id \in Tags}
  BY <1>3
<1>5. /\ toolMessages \in Seq({"plain", "error", "wrapped"})
      /\ toolMessages' \in Seq({"plain", "error", "wrapped"})
      /\ Len(toolMessages') = Len(toolMessages) + 1
  BY <1>1, AppendProperties DEF ToolsInv, TypeOK
<1>6. TypeOK'
  BY <1>1, <1>2, <1>4, <1>5 DEF ToolsInv, TypeOK
<1>7. Len(toolMessages') = made'
  BY <1>1, <1>2, <1>5 DEF ToolsInv, Answering, Busy
<1>8. Answering'
  <2>1. pc' = "ready" => made' < calls
    BY <1>1, <1>2
  <2>2. pc' \notin Busy
    BY <1>1 DEF Busy
  <2> QED
    BY <1>1, <1>7, <2>1, <2>2 DEF Answering
<1>9. Calling' /\ Boxed' /\ Sent' /\ Waited' /\ Came' /\ DeepSeesContract' /\ OnlyThrottledRetried'
  BY <1>1 DEF ToolsInv, Calling, Boxed, Busy, Sent, Waited, Came, DeepSeesContract,
              OnlyThrottledRetried
<1> QED
  BY <1>6, <1>8, <1>9 DEF ToolsInv

LEMMA AnswerCallStep == ASSUME ToolsInv, AnswerCall PROVE ToolsInv'
<1>1. /\ pc = "result" /\ who = "wide" /\ made' = made /\ NextCall
      /\ UNCHANGED <<job, call, came, fetch, history>>
  BY DEF AnswerCall
<1>2. tag \in Tags
  BY <1>1 DEF ToolsInv, Calling
<1>3. \/ Reply("error") /\ block' = NoBlock
      \/ Reply("plain") /\ block' = NoBlock
      \/ Reply("wrapped") /\ block' \in Wrapped(tag)
  BY <1>2 DEF AnswerCall, WrappedFor
<1> QED
  BY <1>1, <1>3, ReplyStep

LEMMA SubmitRefusedStep == ASSUME ToolsInv, SubmitRefused PROVE ToolsInv'
BY ReplyStep DEF SubmitRefused

LEMMA SubmitAcceptedStep == ASSUME ToolsInv, SubmitAccepted PROVE ToolsInv'
<1>1. /\ pc = "ready" /\ who = "wide" /\ pc' = "submitted" /\ made' = made + 1
      /\ UNCHANGED <<who, paper, tag, calls, toolMessages, block, tool, attempt, response, came,
                     s2Exc, fetched, requests, throttled, slept, demanded, last>>
  BY DEF SubmitAccepted, job, call, fetch, history, effort
<1>2. made' \in 0..calls
  BY <1>1 DEF ToolsInv, TypeOK, Answering
<1>3. TypeOK'
  BY <1>1, <1>2 DEF ToolsInv, TypeOK
<1>4. /\ Calling' /\ Boxed' /\ Sent' /\ Waited' /\ Came' /\ Answering' /\ DeepSeesContract'
      /\ OnlyThrottledRetried'
  BY <1>1 DEF ToolsInv, Calling, Boxed, Busy, Sent, Waited, Came, Answering, DeepSeesContract,
              OnlyThrottledRetried
<1> QED
  BY <1>3, <1>4 DEF ToolsInv

LEMMA ToolsInvInductive == Spec => []ToolsInv
<1>1. ToolsInv /\ [Next]_vars => ToolsInv'
  <2> SUFFICES ASSUME ToolsInv, [Next]_vars PROVE ToolsInv'
    OBVIOUS
  <2>1. CASE UNCHANGED vars
    BY <2>1 DEF vars, job, turn, call, fetch, history, effort, ToolsInv, TypeOK, Calling, Boxed, Busy,
                Sent, Retried, Waited, Came, Answering, DeepSeesContract, OnlyThrottledRetried
  <2> QED
    BY <2>1, SkipWebStep, CallS2Step, CallWideStep, MissStep, RefuseStep, CacheHitStep,
       RequestStep, RequestRaisesStep, RetryStep, SleepStep, SleepRaisesStep, JudgeStep,
       RecordFailsStep, FallBackStep, FetchEndsStep, AnswerCallStep, SubmitRefusedStep,
       SubmitAcceptedStep
    DEF Next, Step, Done
<1> QED
  BY ToolsInvInit, <1>1, PTL DEF Spec

\* The variables keep their types.
THEOREM ToolsTypeCorrect == Spec => []TypeOK
<1>1. ToolsInv => TypeOK
  BY DEF ToolsInv
<1> QED
  BY <1>1, ToolsInvInductive, PTL

\* What _fetch_abstract gets out of the two lookups, their retries and the
\* fallback is what ResearcherDeep assumes of them, and nothing else.
THEOREM DeepGetsContract == Spec => []DeepSeesContract
<1>1. ToolsInv => DeepSeesContract
  BY DEF ToolsInv
<1> QED
  BY <1>1, ToolsInvInductive, PTL

\* No answer but a throttled one is asked for again, and a lookup is throttled only
\* after four requests.
THEOREM RetriesOnlyThrottled == Spec => []OnlyThrottledRetried
<1>1. ToolsInv => OnlyThrottledRetried
  BY DEF ToolsInv
<1> QED
  BY <1>1, ToolsInvInductive, PTL

\* The waits of a call are what the server asked for and at most seven seconds.
THEOREM WaitsBounded == Spec => []WaitsAsTold
<1>1. ToolsInv => WaitsAsTold
  <2> SUFFICES ASSUME ToolsInv PROVE WaitsAsTold
    OBVIOUS
  <2>1. OwnWait[attempt + 1] \in 0..7
    BY Waits DEF ToolsInv, TypeOK, MAX_RETRY_ATTEMPTS
  <2> QED
    BY <2>1 DEF ToolsInv, Waited, WaitsAsTold, TypeOK
<1> QED
  BY <1>1, ToolsInvInductive, PTL

\* When a turn's next call is taken up, or the turn is over, each call has its
\* message.
THEOREM NoCallUnanswered == Spec => []EveryCallAnswered
<1>1. ToolsInv => EveryCallAnswered
  BY DEF ToolsInv, Answering, EveryCallAnswered
<1> QED
  BY <1>1, ToolsInvInductive, PTL

\* What a web search brought reaches the model inside its block, and comes out of
\* it unchanged, whatever it is.
THEOREM UntrustedContained == Spec => []UntrustedStaysInside
<1>1. ToolsInv => UntrustedStaysInside
  <2> SUFFICES ASSUME ToolsInv, block # NoBlock
               PROVE  /\ Extract(block.text, tag) = block.content
                      /\ Block(block.text).end = Len(block.text)
    BY DEF UntrustedStaysInside
  <2>1. PICK c \in Contents :
          block = [text |-> Wrap(c, <<"web_search">>, tag), content |-> c]
    BY DEF ToolsInv, Boxed, Wrapped
  <2>2. c \in Seq(Tokens) /\ tag \in Seq(Tokens)
    BY ToolsAssumption DEF ToolsInv, Boxed
  <2>3. block.text = Wrap(c, <<"web_search">>, tag) /\ block.content = c
    BY <2>1
  <2> QED
    BY <2>2, <2>3, WrapKeeps
<1> QED
  BY <1>1, ToolsInvInductive, PTL
=============================================================================
