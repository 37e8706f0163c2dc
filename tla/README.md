# A verification project for LitWeave

LitWeave (`src/src/litweave`) is a command line program that drives a linear
LangGraph pipeline of language-model agents,

    START -> planner -> researcher_wide -> researcher_deep -> synthesize -> write -> END

over a PostgreSQL database that holds runs, evidence, the audit log of tool calls
(which is also their cache) and LangGraph's checkpoints. This directory models its
own logic in TLA+, checks the models with TLC on small instances and proves their
safety properties with TLAPS for every value of the constants. Paths below are
relative to `src/src/litweave`.

## 1. The system

### 1.1 Components

| component | state it keeps | operations | correct when |
|---|---|---|---|
| `cli.py`, `runtime/runs.py`, `graph.py` | `runs` rows: key, status, stage, category, cancel flag; an exit code | `run`, `status`, `init-db`; `create`, `update_stage`, `note_error_category`, `succeed`, `fail`, `request_cancel` | a key has one run, a refused caller learns which; row and exit code agree; stages advance in order; closed runs stay closed |
| `runtime/tool_gateway.py` | `tool_calls` rows | `register`, `call` with cache lookup and audit row | a hit is a real answer to the same question; the audit log has every call of a committed transaction |
| `agents/researcher_wide.py` | `section_notes`, `deep_read_queue`; per section turns, tokens, papers seen | a ReAct loop per section, completion, forced exit | it ends; queue within its cap; every queued paper noted; a forced exit loses nothing seen and is marked |
| `agents/researcher_deep.py` | the queue, `evidence_items`, papers processed | group, fetch abstracts, ask, validate, persist, re-queue | no paper leaves unanswered; evidence only about papers really read; re-runs double nothing; failures marked |
| `synthesis/synthesizer.py` | `structured_extracts` | read evidence, pack to a token budget, ask, validate, repair once | extracts cite only what was shown; every paper is cited or reported; only what does not fit is dropped; failures marked |
| `llm/rate_limit.py` | client cache, bucket registry, tokens of each bucket | `get_llm`, `acquire` | one bucket per provider; bounded request rate; nobody waits for ever |
| `runtime/evidence.py` | `evidence_items` | `add`, `list_by_section`, ... | used by Deep and the synthesizer |
| `runtime/budget.py` | a table of limits | `check` | used by Wide, Deep and the synthesizer |
| `runtime/errors.py` | - | `classify_exception` | used by all nodes |
| `runtime/db.py` | a lazy connection pool | `transaction`, `init_db`, `reset_pool` | commit or roll back as a whole |
| `llm/structured_output.py` | messages and count of the retries | `structured_call` | bounded retries; each tells the model what was wrong with its last answer; a validated result |
| `agents/planner.py` | `outline` | one structured call | an outline the schema takes, or the run fails |
| `writing/stub.py` | `section_drafts` | extracts into drafts | a draft for each planned section, of that section's extract |
| `tools/*` | attempts of the 429 loop | HTTP lookups and searches | only throttled requests repeated; waiting bounded; no error taken for an answer |
| `runtime/trust.py` | - | `wrap_untrusted`, `extract_untrusted` | web content cannot end the block it is put in |
| `prompts/loader.py` | templates by role | `load` | a flawed prompt is refused before any model is asked |
| `llm/router.py` | routing table | `load_routing_yaml`, look-up | a table that lacks a role is refused before any model is asked |
| `llm/providers.py`, `synthesis/stub.py`, schemas, state, observability | constants | build clients, declare types | no behaviour of their own, or not wired in |

### 1.2 How they interact

* The CLI claims the key in one transaction, then calls `graph.invoke`. Each node
  stamps its stage on the row when it starts (`update_stage`) and, when something
  went wrong in it, leaves a category at its end (`note_error_category`), each in a
  transaction of its own. The CLI closes the row in a last transaction.
* Wide hands `section_notes` and `deep_read_queue` to Deep through the graph state;
  Deep hands evidence to the synthesizer through the `evidence_items` table and
  leaves what it could not finish in the queue.
* Nodes call tools only through the gateway, on the connection of the transaction
  they are in: the audit row lives and dies with that transaction.
* Every model call goes through a client of the rate-limited router; its callback
  blocks until the provider's bucket has a token.
* The planner, Deep and the synthesizer ask through `structured_call`, which asks
  again up to `max_retries` times; the synthesizer switches that off and repairs an
  answer once by itself.
* `build_graph` loads the routing table and four prompts after the run row is
  committed and before the first node runs.
* The writer reads `outline` and `structured_extracts` and nothing else.
* State is checkpointed between nodes and not inside them; evidence is committed
  inside Deep, section by section. A crash in Deep therefore keeps the evidence and
  forgets the progress.

### 1.3 What is hard here

Processes race for an idempotency key. A process dies anywhere. Transactions roll
back and take the audit with them. A cached row is served by a lookup that also
sees the rows of earlier hits. The model answers anything: partial coverage, papers
of another section, made-up evidence, no answer at all. One section fails among
sections that succeed. A node is entered again over what it has committed already.
All runs share the evidence table, and sections of two runs
carry the same ids. A lookup is throttled, times out, or fails after the fallback it
called. Retries of the wrapper and of its caller multiply. A flawed prompt or routing
table is found when a row is already there to close. Each node may overwrite the
category another one noted. Budgets are checked against rounded estimates or after the fact. A thread sleeps
with a lock in its hands. `PROJECT.json` lists these places line by line
("hazards"), with the properties that speak about them.

## 2. The modules

| module | code | role |
|---|---|---|
| `RunContract` | `runtime/schema.sql`, `runs.py` | what the `runs` table promises, as an abstract specification |
| `RunLifecycle` | `cli.py`, `runs.py`, `graph.py` | invocations racing and crashing; implements `RunContract` |
| `NodeContracts` | the nodes' return values | what a node leaves to the nodes after it |
| `Pipeline` | `graph.py`, `cli.py`, `planner.py`, `writing/stub.py` | one whole run, composed of `NodeContracts` and `PromptRegistry` |
| `ResearcherWide` | `agents/researcher_wide.py` | the Wide node; keeps to `WideDelivers` |
| `ResearcherDeep` | `agents/researcher_deep.py` | the Deep node, its re-entry and crash; keeps to `DeepDelivers`, relies on `FetchContract` |
| `Synthesizer` | `synthesis/synthesizer.py` | the synthesize node; keeps to `SynthDelivers` |
| `AskContract` | `llm/structured_output.py` | what a question to a model comes to, as an abstract specification |
| `StructuredCall` | `llm/structured_output.py` and its callers | the retry loop inside three callers; implements `AskContract` |
| `FetchContract` | `_fetch_abstract`, `runtime/errors.py` | what fetching an abstract comes to, told by what the lookups come to |
| `Trust` | `runtime/trust.py` | wrapping and unwrapping, as operators over tokens |
| `Tools` | `tools/*.py` and their callers | requests, the 429 loop, the fallback, a turn of Wide; keeps to `FetchContract` |
| `PromptRegistry` | `prompts/loader.py` | what loading makes of a prompt file, as operators |
| `ToolGateway` | `runtime/tool_gateway.py` | concurrent transactions over `tool_calls` |
| `RateLimiter` | `llm/rate_limit.py` | threads that share a router |
| `MC*` | | values of constants for TLC, and a symmetry set |
| `*_proofs` | | theorems and proofs of the module they extend |

The nodes meet in `Pipeline`. It does not repeat them: each node there is any step
that `NodeContracts` allows, and the modules of the nodes show (`Delivers`, checked
and proved) that the code allows no more. In the same way `ResearcherDeep` takes its
abstracts from `FetchContract`, and `Tools` shows that two lookups, their loops and
the fallback together keep to it.

`PROJECT.json` ("map") ties each definition to lines of the source. Operators that
carry the comment *Mutant* are wrong variants of the definition they stand before,
kept to confirm that a property notices a plausible bug there; no specification
uses them.

### 2.1 RunLifecycle

A process is one `litweave run`; it mints its run id, so run *p* is the run of
process *p*. `pc` is the place reached in `_cmd_run`. `Insert` is the
`INSERT ... ON CONFLICT DO NOTHING` inside the open transaction, which waits while
another transaction has inserted the same key (`Locked`), as PostgreSQL's unique
index makes it; `CommitCreate` is the end of the block, and only then is the row
there for others. `Conflict` finds the holder and exits with 3. `EnterNode` stamps
the stage, `LeaveNode` may note a category for the nodes that do. `Raise`, `Fail`,
`Succeed` and `Report` are the `try` block of the CLI; `Fail` writes
`schema_invalid` whatever the exception was. `Crash` covers death, Ctrl-C (no
`Exception`) and a lost database. `RequestCancel` can be called by anyone.

The refinement maps a key to the committed row that carries it and a run to its
status: a reader of the table sees `RunContract`, whatever the processes do.

### 2.2 ToolGateway

A connection runs one `with transaction()` block at a time. `Hit` is lookup and
record in one step: both are on one connection with nothing in between that others
could see. `Miss` starts the implementation and `ImplReturns`, `ImplFails` or
`StatementFails` end it, so that other transactions move in between. `created_at`
is the start of the transaction, as `now()` is in PostgreSQL, and reads are READ
COMMITTED. An output is named by the call that produced it, so a chain of hits can
be traced to its source. `End` with an aborted transaction is a rollback.
`Propagate` is an exception let out of the block, `Crash` a death inside it. The
early raises of `call` (unknown tool, role not allowed, bad input) write nothing
and are stuttering.

### 2.3 ResearcherWide

One step per model invocation, tool call and exit. Papers are sets; which of them
passes the cap (the model's order, or sort order in a forced exit) is a choice. The
model may submit papers no tool has returned: nothing in the node forbids it.
`tokens` is what the responses report; a response without `usage_metadata` reports
0. The budget is checked before an invocation, as in the code.

### 2.4 ResearcherDeep

`Enter` groups the queue by sections; `Fetch` is one turn of the fetch loop with the
arXiv fallback inside (`FetchContract!FetchAbstract`); the `Ask*` actions are the outcomes of
budget check, model call and validation; `Persist` writes all cards of a section
under the numbers from 0 or raises when an id is taken; `Finish` recomputes the
queue. `Reenter` is the retry the docstring speaks of and `Restart` a crash followed
by a run on the checkpointed state. `fetched`, `answered`, `broken` and `cause` are
history for the properties. Sections and papers come in any order.

### 2.5 Synthesizer

Tokens are counted with the integer divisions of the code, part by part
(`Packed`), and as the prompt is really sent (`Prompt`). `PackPaper` is one round of
the greedy loop, papers by descending score. An answer is the references it makes
(which papers, which evidence); `Claims`, `PaperFacts`, `MatrixRows`, `Taxonomies`
and `Syntheses` are the lists that pass the validation layers, and an accepted
answer combines one of each. Confidences are integers, so the comparison of
averages has no rounding of floats.

### 2.6 RateLimiter

The agents are single-threaded today; the code takes locks for a fan-out to come,
and this module gives it the threads. `get_llm` is split where it releases its lock
(`GetMissed`, `BuildClient`, `StoreClient`), `acquire` where a thread can be
preempted (`Acquire`, `Sleep`, `Wake`, `Debit`). Time is integral and tokens are
counted in fractions, exactly, where the code has floats.

### 2.7 NodeContracts and Pipeline

`Pipeline` is one `litweave run` from its committed row to its exit. `LoadRouting`,
`LoadPrompt` and `Compiled` are `build_graph`; a prompt file is what the registry
tells apart in it, and a file is any of `Files[role]` at the moment it is read.
`EnterNode` is `update_stage`; then the node returns, and the edge and
`note_error_category` go with it (`Leave`). Deep commits section by section
(`DeepCommits`) before it returns (`ResearchDeep`), so a death in between leaves
evidence without a checkpoint. `Raise` is an exception anywhere in the `try` block;
`Fail` overwrites the category, as the CLI does. `OtherRunWrites` is another process
with sections of the same ids; `list_by_section` filters by run. `Write` is the
writer as it is: an extract is looked up by id and may be absent, and then the draft
is `BareDraft`. A draft is whether it reports everything as missing, the papers its
references are about, and the papers its gaps report.

`WideDelivers` promises less when ids repeat, `DeepDelivers` speaks of one entry and
its own rows, and `SynthDelivers` of one section. The plan of a run is any member of
`Outlines`; the planner has no other effect.

`Pipeline` and `RunLifecycle` tell of the same invocation, one from inside and one
from the table. `ImplementsLifecycle` joins them: under the mapping at the end of
`Pipeline` (`Place`, `Position`), a run whose row is committed takes only the steps
`RunLifecycle` gives it. What happens between two nodes or inside one is a stutter,
`EnterNode` stamps the next stage, `Leave` notes a category only where
`RunLifecycle` allows it, and the row is closed once, by `Succeed` or `Fail`. So what
the lifecycle promises of a row is true of rows written by real nodes.

### 2.8 AskContract and StructuredCall

A question is asked by one of three callers, with or without function calling. A
reply has tool arguments, a fenced block and bare text, each a JSON value, absent, or
broken; `Candidate` is the order in which the code tries them, where broken
arguments fall through to the text. `AskAgain` rebuilds the messages from the
caller's, always with the schema in front; `AskRepaired` is the synthesizer's own
second round, on its own messages. `InvokeRaises` covers provider errors, which
nothing here retries.

The refinement maps the calls made and the decision taken to `AskContract`, with the
limit of the caller: three calls for the planner and Deep, two for the synthesizer.
The `Ask*` actions of the node modules take this decision in one step.

### 2.9 FetchContract, Trust and Tools

`Tools` has two callers. Deep wants the abstract of one paper: `CallS2`, `FallBack`,
`FetchEnds`. Wide makes the tool calls of one response one by one (`CallWide`), each
of which ends in a message (`AnswerCall`) or in `submit_results`. Between them is one
tool call: `CacheHit` or `Miss`, `Request`, and for the lookups `Retry` and `Sleep`
while the answer is 429. A response is its status, its Retry-After header and what
its body parses to; a body may be of a wrong type, which the gateway's output check
refuses, or something the parser stumbles over. `SleepRaises` is the
`OverflowError` of `time.sleep`. `last` remembers what each tool came to, and
`DeepSeesContract` compares the outcome with `FetchContract`, and says that it is one
of those Deep has a branch for.

`Trust` works on tokens: the characters escaping is about, the names of their
entities, the text of the tags. `Unescape` is one pass, as `html.unescape` is.

### 2.10 PromptRegistry

A body is a sequence of pieces: an include, a placeholder, a brace that is neither
that nor escaped, a marker of unfinished text, the citation rules, plain text. The
includes are listed once and replaced in that order, so an include that a shared
file brings in goes only if the same include comes later in the list. `renders` says
whether `format` finds a value for each name.

## 3. The runs

| run | instance | distinct states | shows |
|---|---|---|---|
| `MCRunLifecycle` | 3 invocations, 2 keys | 579,760 | `OneRunPerKey`, `ConflictNamesWinner`, `ExitTellsTruth`, `StageOrder`, `ImplementsContract`, `InvocationEnds` |
| `MCToolGateway` | 2 connections, 2 tools, 2 releases, 3 calls | 1.7 million (symmetry) | `HitHasSource`, `AuditFollowsTransaction` |
| `MCResearcherDeep` | 2 sections, 2 papers, a re-entry and a crash | 1,055,435 | `LeavesOnlyAnswered`, `EvidenceGrounded`, `OnePassPerSection`, `CollidesOnlyOnRerun`, `Delivers`, `Terminates` |
| `MCResearcherWide` | up to 2 sections, 2 papers, cap 1, 3 turns of 2 calls | 215,285 | `HandoffBound`, `OverrunByOneResponse`, `ForcedExitKeepsSeen`, `Delivers`, `Terminates` |
| `MCSynthesizer` | 2 sections that share a paper; 1 section with 3 papers, 4 rows of 3 sizes and 2 confidences | 154,372 | `ExtractsGrounded`, `SynthesisBacked`, `DropsNeeded`, `OverrunByRounding`, `Delivers` |
| `MCRateLimiter` | 2 threads, 2 roles of a provider, burst 2, 4 requests | 307,800 | `OneBucketPerProvider`, `WindowBound`, `EveryRequestPasses` |
| `MCStructuredCall` | 3 callers, 3 JSON values, both ways of calling | 7,890 | `QuotesLastRejection`, `GivenUpOnlyAfterAll`, `ImplementsContract` |
| `MCTools` | a paper of each kind; turns of 2 calls; every status and header | 44,697 | `DeepSeesContract`, `OnlyThrottledRetried`, `WaitsAsTold`, `UntrustedStaysInside`, `EveryCallAnswered`, `Terminates` |
| `MCPipeline` | 3 sections over 2 ids, 3 papers, another run, flawed tables and prompts | 951,876 | `SetUpBeforeWork`, `DraftsGrounded`, `SuccessIsComplete`, `ImplementsLifecycle` |

The type invariants (`TypeOK`, `SCTypeOK`) are proved and no run repeats them. Three
more runs end in a counterexample, see section 6.

Bounds, and why they are enough:

* *RunLifecycle.* Three racers give a winner, a loser that waits and a loser that
  comes late; with two keys one of them can be a bystander. A run has five stages,
  so nothing in it needs a bound.
* *ToolGateway.* `MaxCalls = 3` is a source, a hit on it and a hit on the hit;
  `MaxTime = 1` with `TTL = 0` has rows that are fresh and rows that have expired.
  The run with `TTL = 1` and `MaxTime = 2` has room for a chain that outlives it.
* *ResearcherDeep.* Two sections are the least for a paper to be shared and for one
  to fail beside one that succeeds; `MaxPasses = 2` and `MaxRestarts = 1` give a
  second and a third time over the same evidence. The `arxiv:` paper has a
  fallback, the `s2:` paper has none and the `web:` paper has no abstract at all.
* *ResearcherWide.* More papers than the cap (1), more usage in one response (2)
  than the budget (1), more turns (3) than fill it, outlines that are empty or
  repeat an id. The code's values are 8 turns and a cap of 3; the proofs hold for
  all of them.
* *StructuredCall.* A JSON value that violates the schema, one that the caller turns
  down, and a good one: one of each is enough for every path, and no count is cut.
* *Tools.* Retry-After of 0 and of 5 seconds, below and above each backoff; contents
  of up to two tokens (`Tokens` has those escaping is about, and one plain text) and a
  closing tag, that is, everything an entity can be split at; the proof is for
  contents of any length. The counters stop one past what the loop allows.
* *Pipeline.* An outline has at least three sections, so with two ids some repeat,
  where Wide promises least; what distinct ids add is proved. One paper is from the
  web, one has evidence of the other run in a section of this one's.
* *Synthesizer.* Block sizes of 72, 75 and 199 characters against room for 41
  tokens: all papers, some or none fit, and 75 is no multiple of four. In the
  sections that share a paper the budget is ample, so all answers over two papers are tried.
* *RateLimiter.* `MaxCalls` and `MaxTime` bound the run, not the bucket; the clock
  still goes on while someone sleeps.

Deadlock is checked in every run. The nodes stop in an explicit `Done` step.

### Fairness

The runs with a liveness property use `FairSpec`, the others `Spec`.
`RunLifecycle` assumes weak fairness of the steps of each live process (Python runs
the next statement; PostgreSQL wakes a waiter when the lock is given up) and none of
`Crash` or `RequestCancel`. `ResearcherDeep`, `ResearcherWide` and `Tools` assume weak
fairness of their own `Step` and none of `Restart` or `Reenter`: lookups carry a
timeout, and model calls the default one of the client library, so that a call
answers or raises. The rate limiter assumes that the clock goes on and that each
thread takes its own next step in `acquire`. A thread that waits for a lock could be
overtaken for ever by a thread that keeps asking; the bound on requests excludes
that, so `EveryRequestPasses` says that the lock is always given back and sleeping
ends, not that `threading.Lock` is fair. A liveness run has no symmetry set, which
would be unsound with it.

That the synthesizer, the retry loop and the pipeline end is not a property of its
own: `StructuredCall` bounds its calls by `AskContract`, and the others are loops over
a finite outline and a finite set of papers.

## 4. What is proved

All theorems are `Spec => []Inv` (or an action property, or a refinement) for any
sets of processes, papers, sections, threads and so on, and any value of the bounds.
Every invariant, action property and refinement a passing run checks is among them.
They rest on the named assumptions of the modules: sets the code iterates over are
finite, sentinels differ from real values, limits are natural numbers, and rates
are positive (`ProviderRateLimiter` raises otherwise). TLC evaluates each assumption
in the runs of that module.

| module | theorems | why an invariant is needed, and which |
|---|---|---|
| `RunLifecycle_proofs` | `TypeCorrect`, `KeyIsUnique`, `ConflictIsTruthful`, `ExitIsTruthful`, `StagesInOrder`, `Implements` | uniqueness depends on who waits for whom: `LockExcludes` (an open insert shuts others out of the key) and `RowFollowsProcess` (the row is where its process put it) |
| `ToolGateway_proofs` | `TypeCorrect`, `HitsAreGenuine`, `AuditIsAtomic` | a hit may copy a row of its own open transaction: `Provenance` speaks of all a connection sees; `Ownership` gives each id to one transaction |
| `ResearcherDeep_proofs` | `TypeCorrect`, `NoPaperLost`, `EvidenceIsGrounded`, `EvidenceIsNotDoubled`, `CollisionsAreOfReruns`, `FailuresAreNoted`, `DeliversAsPromised` | `AtWork` (what is known of the section in hand), `Backed` (processed papers have answers), `FirstIdTaken` (a section with evidence has row 0, so a second pass collides), `Remembered`; `Fresh` (a pass writes no section twice); `Handed` (rows of this entry are of papers it was handed) |
| `ResearcherWide_proofs` | `TypeCorrect`, `QueuedPapersHaveSections`, `HandoffIsBounded`, `BudgetOverrunIsBounded`, `ForcedExitsKeepSeen`, `ForcedExitsAreNoted`, `DeliversAsPromised` | notes are overwritten: `Untouched` (an id whose turn has not come has no notes), `Position`, `HandedOff`, `Marked` |
| `Synthesizer_proofs` | `TypeCorrect`, `ExtractsAreGrounded`, `SynthesesAreBacked`, `PapersAreAccounted`, `EmptiedForWantOfRoom`, `FailuresAreNoted`, `DeliversAsPromised`, `LeavingOutFits`, `DropsAreNeeded`, `OverrunBounded` | `AllSound` (what an extract promised when it was written), `Pool` (papers shown, dropped and to come divide the section's papers), `Told` (an emptied section cites nothing), `Needed` (a dropped paper does not fit beside those taken); and the arithmetic of the estimate, see below |
| `Calls_proofs`, on `StructuredCall` | `AskTypeCorrect`, `RequestsQuoteLastRejection`, `GivingUpComesLast`, `Implements` | no caller uses both loops: `AskCounted` (calls made are the sum of their counters), `Telling` (never more than one complaint to send), `Settled` |
| `Calls_proofs`, on `Tools` and `Trust` | `ToolsTypeCorrect`, `DeepGetsContract`, `RetriesOnlyThrottled`, `WaitsBounded`, `NoCallUnanswered`, `UntrustedContained` | the end of a call says nothing of the way there: `Sent` (requests, throttled answers and attempt number go together), `Waited` (the sleep so far is what was demanded and the backoffs of this attempt), `Came` and `Calling` (what a call can come to, and for whom), `Answering` (one message for each call that has ended), `Boxed` (a block is the wrapping of some content) |
| `Pipeline_proofs` | `TypeCorrect`, `SetUpComesFirst`, `DraftsAreGrounded`, `SuccessesAreComplete`, `ImplementsTheLifecycle` | what the state holds at a node follows from the nodes before: `Prepared`, `Early` (what is still empty where), `Rooted` (evidence goes back to notes), `Backed` (extracts and drafts go back to evidence), `Complete` (what is missing shows in the category); for the refinement `Stamped` (the stage of the row is the node the run has reached) |
| `RateLimiter_proofs` | `TypeCorrect`, `BucketsAreShared`, `RateIsBounded` | the window says nothing of the bucket: `PaidIn` (requests since, and tokens left, fit into a full bucket and what came in), `Recent` (at most one request is newer than the last refill), `Mutex`, `Clock`, `HasClient`, `Unsold` |

The three `DeliversAsPromised` and the theorems about `Pipeline` are one
argument in two halves: the nodes keep their contracts, and runs made of contracts
are grounded, complete, and what the table says they are. `DeepGetsContract` is the
same one level down: Deep is proved over `FetchContract`, and the tools keep to it.

*Sums.* The estimate of a prompt adds up rows, so `DropsAreNeeded` and
`OverrunBounded` are facts about sums over finite sets, which the folds of the
community modules define by a recursive choice. `Synthesizer_proofs` shows that such
a sum exists, that it does not depend on the order (`TotalOneMore`, `TotalUnion`), that
it grows with the set (`TotalGrows`), and from that that the accounting part by part
loses at most the remainders of its divisions (`PartsLose`, `PromptBounded`) and that
a smaller set of rows never needs more room (`LeavingOutFits`). The library's
induction theorems take a predicate, which the provers do not instantiate; `NatSet`
states induction for a set of numbers instead, and its step is the minimal element
that `WFMin` gives.

*Wrapping.* `UntrustedContained` is about contents of any length. An escaped text
holds no token of the entity table but ampersands, each with a name after it
(`EscapedAll`), so the first quotes and the first closing tag of a block are its own
(`BlockFound`), and one pass of unescaping takes every pair back and touches nothing
else. The concatenations are taken apart one element at a time (`FlattenSeqStep`),
with induction over a set of sequences (`SeqSet`) in the same way as `NatSet`.

Only model-checked: liveness under fairness (`InvocationEnds`, the three
`Terminates`, `EveryRequestPasses`), which is out of the provers' reach, and the three
properties of section 6, which do not hold.

## 5. What the properties mean for the code

* Uniqueness of a key survives any interleaving and crash because `ON CONFLICT`
  waits for the outcome of an open insert. A process that exits by itself closes its
  row; only a crash leaves a row `PENDING` or `RUNNING`, and then the key stays
  taken.
* The audit log is as complete as its transactions and no more: calls of a
  transaction that rolls back leave no row, although `tool_gateway.py:11-12` says
  every call is logged.
* Evidence is never doubled, because numbering restarts at 0 and the primary key
  refuses the second batch. The same fact makes a re-entry of a section with
  evidence fail: `CollidesOnlyOnRerun` says that this is the only way to a refused
  id, and `researcher_deep.py:18-20` promises a re-entry that works.
* A Wide section overruns its budget by one response, a synthesizer prompt by the
  rounding: at most five characters for a paper and two. `synthesizer.py:94-95`
  calls the estimate an upper bound, which it is not quite.
* `QueueHasSection` and with it `WideDelivers`, and `ForcedExitKeepsSeen`, need distinct section ids, which the
  planner's schema does not ask for: a repeated id overwrites the notes of the first
  section while its papers stay queued.
* A forced exit queues no more than the cap; what is seen beyond it is kept in the
  notes only, where `researcher_wide.py:12-13` speaks of all papers seen.
* A section none of whose papers fits ends with a missing-evidence gap and the
  category `context_overflow`; no truncation gap lists its papers, which
  `synthesizer.py:582-583` asks for.
* The grounding of cross-paper claims works on sets of papers: a claim that lists
  one paper twice passes, where `schemas/synthesis.py:102` means two papers.
* `classify_exception` does not know `httpx` transport errors (a refused connection,
  a timeout): one that no fallback absorbs is raised out of Deep and ends the run,
  where `researcher_deep.py:18-20` would leave its papers for a retry.
* With repeated ids a queued paper may have no section at all: the comment at
  `researcher_deep.py:248-250` says that every paper Wide saw has one. Such papers
  stay in the queue and are not read.
* A run that succeeds with no category has drafted all evidence it has
  (`SuccessIsComplete`). The converse is weaker: a category says that something was
  given up, not what, since each node overwrites the one before, and `fail` writes
  `schema_invalid` over all of them.
* The writer prints "_No evidence available for this section._" when an extract has
  no claims, which is also so when the section has evidence but its extract failed.
* `loader.py:14-15` says that a loaded template cannot raise `KeyError` in
  `format`. The registry checks the shape of a name and not whether the node supplies
  it: a misspelt one surfaces in the node (`renders`), after `SetUpBeforeWork`.
* `trust.py:3` counts error messages among what is wrapped. Wide puts an error of a
  tool into its message as it is; only results of `web_search` are in a block. All
  web results of a turn carry the same `evidence_id`.
* A throttled lookup sleeps inside the open transaction of its call for as long as
  the server asks, without a limit (`WaitsAsTold` bounds only what the loop adds).

## 6. Disagreements, each with a counterexample run

| run | the text says | the code does |
|---|---|---|
| `MCRunLifecycleCancel` | "the graph runner polls this flag and transitions to CANCELLED" (`runs.py:119-121`) | nothing reads the flag; the run goes on to `SUCCEEDED` |
| `MCToolGatewayTTL` | calls hit the cache "when idempotent + within TTL" (`tool_gateway.py:6`) | a hit's own row qualifies for the next lookup, so a chain of hits serves a result beyond its TTL |
| `MCResearcherDeepShared` | papers of a section that broke stay in the queue (`researcher_deep.py:16-21`) | `processed` is one set for all sections: a shared paper leaves with the section that succeeded |

## 7. Not modelled

* *Content.* Wording, JSON and Atom grammars, the Markdown of a draft, hashing and
  redaction: properties here are about which paper, which evidence, which section.
  Ids and URLs are not rewritten as the tools rewrite them.
* *Clients and declarations.* Building provider clients is I/O; schemas, state and
  observers declare types; configuration files are constants.
* *`status`, `init-db`, `reset_pool`, lazy pools.* They read, or run before or after
  everything else; the races of the lazy pools need threads the program does not
  have yet, as their comments say.
* *Registration of tools.* It happens once, at start-up, on one thread.
* *The stub synthesizer* and `schemas/citations.py`: nothing uses them any more.
* *Resuming from a checkpoint.* LangGraph writes checkpoints and no code of the
  program resumes one; `ResearcherDeep` has the crash and re-entry its docstring
  speaks of.

## 8. Plan

Done: all modules above with their runs; proofs of every invariant, action property
and refinement the passing runs check.

Next:

1. The safety half of termination: for each node a measure that every step of its
   own makes smaller, so that only the fairness of the steps is left to TLC.
2. `ResearcherDeep` takes the decision of `AskContract` in one step of `Ask*`; a
   refinement could say so as `ImplementsLifecycle` does for the run.
3. The gateway: `HitWithinTTL` fails for chains of hits. What does hold is that a hit
   is no older than the length of its chain times the TTL, which needs the chain as
   history.
4. The interleaving of two pipelines over one key, composing `RunLifecycle` and
   `Pipeline`, if it stays within reach of TLC.
