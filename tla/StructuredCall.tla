--------------------------- MODULE StructuredCall ---------------------------
(***************************************************************************)
(* structured_call (llm/structured_output.py) inside its three callers:    *)
(* the planner, researcher_deep and the synthesizer.  The wrapper invokes  *)
(* the model, takes the arguments of the bound tool or the JSON in the     *)
(* text, validates them against the JSON schema, and asks again with a     *)
(* corrective message; its callers check what it returns once more, and    *)
(* the synthesizer asks a second time with a repair message.               *)
(*                                                                         *)
(* Data: a JSON value is a member of Docs, of which Conforming satisfy the *)
(* schema and Sound satisfy the caller's checks as well (PaperId prefixes, *)
(* grounding).  A message is its kind and what it is about.                *)
(***************************************************************************)
EXTENDS Naturals, Sequences, FiniteSets

CONSTANTS Docs,       \* JSON values a reply can carry
          Conforming, \* those the JSON schema admits
          Sound,      \* those the caller's own checks admit too
          NoDoc       \* no JSON value

ASSUME StructuredAssumption == /\ Sound \subseteq Conforming
                               /\ Conforming \subseteq Docs
                               /\ NoDoc \notin Docs
                               /\ {"absent", "broken"} \cap (Docs \cup {NoDoc}) = {}

VARIABLES role,     \* who asks
          fc,       \* binding.fc_enabled()
          messages, \* the caller's messages
          scPc,     \* where caller and wrapper stand
          round,    \* structured_calls made before this one
          retries,  \* retries of this structured_call
          prompt,   \* attempt_messages
          reply,    \* the response being judged
          lastErr,  \* last_error, as the value it complains about
          value,    \* what structured_call returned
          asked,    \* history: model calls made, counted to one past CallLimit
          rejected, \* history: the value turned down last
          outcome   \* what the question came to

caller  == <<role, fc, messages, round>>
wrapper == <<retries, prompt, reply, lastErr, value>>
asking  == <<asked, rejected, outcome>>
scVars  == <<caller, scPc, wrapper, asking>>

Roles == {"planner", "researcher_deep", "synthesizer"}

\* max_retries: given by the planner, the default for Deep, 0 for the
\* synthesizer, which repeats the whole call itself.
MaxRetries(r) == IF r = "synthesizer" THEN 0 ELSE 2
Repairs(r) == IF r = "synthesizer" THEN 1 ELSE 0

CallLimit(r) == (MaxRetries(r) + 1) * (Repairs(r) + 1)

\* What the caller takes.  PlannerOutput says nothing its schema does not say.
Accepts(r) == IF r = "planner" THEN Conforming ELSE Sound
-----------------------------------------------------------------------------
Task == [kind |-> "task", about |-> NoDoc]
SchemaPrompt == [kind |-> "schema", about |-> NoDoc]
Corrective(d) == [kind |-> "corrective", about |-> d]
Repair(d) == [kind |-> "repair", about |-> d]

\* The arguments of the first call of the tool; the first fenced block, and the
\* text from the first brace to the last, each with what it parses to.
Text == Docs \cup {"absent", "broken"}
Replies == {r \in [call : Docs \cup {"absent"}, fence : Text, bare : Text]
              : r.fence # "absent" => r.bare # "absent"}

\* _extract_json
Extracted(r) == IF r.fence \in Docs THEN r.fence
                ELSE IF r.bare \in Docs THEN r.bare
                ELSE NoDoc

Candidate(r) == IF fc /\ r.call \in Docs THEN r.call ELSE Extracted(r)

\* Mutant: corrective prompts pile up.
RetryAppended(d) == Append(prompt, Corrective(d))

FirstPrompt(m) == (IF fc THEN <<>> ELSE <<SchemaPrompt>>) \o m
RetryPrompt(d) == <<SchemaPrompt>> \o messages \o <<Corrective(d)>>
-----------------------------------------------------------------------------
SCInit == /\ role \in Roles
          /\ fc \in BOOLEAN
          /\ messages = <<Task>>
          /\ scPc = "call"
          /\ round = 0
          /\ retries = 0 /\ prompt = <<>> /\ reply = NoDoc /\ lastErr = NoDoc /\ value = NoDoc
          /\ asked = 0 /\ rejected = NoDoc /\ outcome = "none"

\* The caller calls structured_call.
Call == /\ scPc = "call"
        /\ prompt' = FirstPrompt(messages)
        /\ retries' = 0
        /\ lastErr' = NoDoc
        /\ scPc' = "invoke"
        /\ UNCHANGED <<caller, reply, value, asking>>

CountCall == asked' = IF asked > CallLimit(role) THEN asked ELSE asked + 1

Invoke == /\ scPc = "invoke"
          /\ reply' \in Replies
          /\ CountCall
          /\ scPc' = "judge"
          /\ UNCHANGED <<caller, retries, prompt, lastErr, value, rejected, outcome>>

Decide(o) == outcome' = o /\ scPc' = "done"

\* The provider fails, in a way classify_exception knows or not.
InvokeRaises == /\ scPc = "invoke"
                /\ CountCall
                /\ \E o \in {"failed", "raised"} : Decide(o)
                /\ UNCHANGED <<caller, wrapper, rejected>>

\* The schema is satisfied: structured_call returns.
Return == /\ scPc = "judge"
          /\ Candidate(reply) \in Conforming
          /\ value' = Candidate(reply)
          /\ scPc' = "check"
          /\ UNCHANGED <<caller, retries, prompt, reply, lastErr, asking>>

Reject == /\ scPc = "judge"
          /\ Candidate(reply) \notin Conforming
          /\ lastErr' = Candidate(reply)
          /\ rejected' = Candidate(reply)
          /\ UNCHANGED <<caller, reply, value, asked>>

\* Mutants: one attempt too few, one too many.
MayRetryLess == retries + 1 < MaxRetries(role)
MayRetryMore == retries <= MaxRetries(role)

MayRetry == retries < MaxRetries(role)

CountRetry == retries' = retries + 1

AskAgain == /\ Reject
            /\ MayRetry
            /\ CountRetry
            /\ prompt' = RetryPrompt(lastErr')
            /\ scPc' = "invoke"
            /\ UNCHANGED outcome

\* StructuredCallError
Exhaust == /\ Reject
           /\ ~ MayRetry
           /\ scPc' = "refused"
           /\ UNCHANGED <<retries, prompt, outcome>>

\* model_validate, and for the synthesizer _validate_grounding.
CheckPasses == /\ scPc = "check"
               /\ value \in Accepts(role)
               /\ Decide("answer")
               /\ UNCHANGED <<caller, wrapper, asked, rejected>>

CheckFails == /\ scPc = "check"
              /\ value \notin Accepts(role)
              /\ lastErr' = value
              /\ rejected' = value
              /\ scPc' = "refused"
              /\ UNCHANGED <<caller, retries, prompt, reply, value, asked, outcome>>

WithRepair == Append(messages, Repair(lastErr))

\* The synthesizer tells the model what was wrong and calls again.
AskRepaired == /\ scPc = "refused"
               /\ round < Repairs(role)
               /\ round' = round + 1
               /\ messages' = WithRepair
               /\ scPc' = "call"
               /\ UNCHANGED <<role, fc, wrapper, asking>>

\* Deep and the synthesizer record schema_invalid; in the planner the exception
\* goes on to fail the run.
GiveUp == /\ scPc = "refused"
          /\ round = Repairs(role)
          /\ Decide("rejected")
          /\ UNCHANGED <<caller, wrapper, asked, rejected>>

SCStep == \/ Call \/ Invoke \/ InvokeRaises \/ Return \/ AskAgain \/ Exhaust
          \/ CheckPasses \/ CheckFails \/ AskRepaired \/ GiveUp

SCDone == scPc = "done" /\ UNCHANGED scVars

SCNext == SCStep \/ SCDone

SCSpec == SCInit /\ [][SCNext]_scVars
-----------------------------------------------------------------------------
Messages == [kind : {"task", "schema", "corrective", "repair"}, about : Docs \cup {NoDoc}]

SCTypeOK == /\ role \in Roles
            /\ fc \in BOOLEAN
            /\ messages \in Seq(Messages)
            /\ scPc \in {"call", "invoke", "judge", "check", "refused", "done"}
            /\ round \in 0..Repairs(role)
            /\ retries \in 0..MaxRetries(role)
            /\ prompt \in Seq(Messages)
            /\ reply \in Replies \cup {NoDoc}
            /\ lastErr \in Docs \cup {NoDoc}
            /\ value \in Docs \cup {NoDoc}
            /\ asked \in Nat
            /\ rejected \in Docs \cup {NoDoc}
            /\ outcome \in {"none", "answer", "rejected", "failed", "raised"}

Complaint(d) == {Corrective(d), Repair(d)}

\* However long the exchange, a request is the task, at most the schema, and one
\* complaint about the answer turned down last: it does not grow with the
\* retries, never argues with an older answer, and never asks again without
\* saying what was wrong.
QuotesLastRejection ==
  scPc = "invoke" =>
    IF asked = 0 THEN prompt \in {<<Task>>, <<SchemaPrompt, Task>>}
    ELSE \E q \in Complaint(rejected) : prompt \in {<<Task, q>>, <<SchemaPrompt, Task, q>>}

\* A question is given up for its answers only when every call it may cost has
\* been made, but for Deep, which does not ask again after an answer that
\* satisfies the schema.
GivenUpOnlyAfterAll ==
  outcome = "rejected" => \/ asked = CallLimit(role)
                          \/ role = "researcher_deep" /\ Candidate(reply) \in Conforming

Contract == INSTANCE AskContract WITH limit <- CallLimit(role)

\* The callers' loops and the wrapper's implement AskContract.
ImplementsContract == Contract!Spec
=============================================================================
