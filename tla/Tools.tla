-------------------------------- MODULE Tools --------------------------------
(***************************************************************************)
(* The four tools (tools/*.py) under their two callers.  researcher_deep   *)
(* calls s2_lookup and falls back on arxiv_lookup (_fetch_abstract);       *)
(* researcher_wide makes the tool calls of one turn, and answers each of   *)
(* them with a ToolMessage, wrapping what comes from the open web.  The    *)
(* two lookups repeat a request that was throttled; every other failure is *)
(* raised at once.                                                         *)
(*                                                                         *)
(* Data: a response is its status, its Retry-After header and what its     *)
(* body parses to; times are whole seconds.                                *)
(***************************************************************************)
EXTENDS Naturals, Sequences, FetchContract, Trust

CONSTANTS Papers,      \* paper ids _fetch_abstract is asked for
          RetryAfters, \* usable values of the header
          Tokens,      \* what texts consist of
          Contents,    \* JSON of web results, as tokens
          Tags,        \* evidence ids of the turn, as tokens
          MaxCalls,    \* bound: tool calls in one response of the model
          None

ASSUME ToolsAssumption ==
  /\ RetryAfters \subseteq Nat
  /\ Contents \cup Tags \subseteq Seq(Tokens)
  /\ MaxCalls \in Nat
  /\ None \notin Lookup \cup {"results"}
  /\ Web \cap Arxiv = {}

VARIABLES who,      \* the caller
          paper,    \* what Deep wants the abstract of
          tag,      \* evidence_id of Wide's turn
          calls,    \* tool calls of Wide's turn
          pc,
          made,     \* those of them taken up
          tool,     \* the tool being called
          attempt,  \* of the 429 loop
          response,
          came,     \* what the tool call came to, or None
          s2Exc,    \* the exception _fetch_abstract may raise again
          fetched,      \* what Deep gets
          toolMessages, \* kinds of the ToolMessages of Wide's turn
          block,    \* the last of them, if it is wrapped: its text and its content
          requests, throttled, slept, demanded, last  \* history, see below

job   == <<who, paper, tag, calls>>
turn  == <<made, toolMessages, block>>
call  == <<tool, attempt, response>>
fetch == <<s2Exc, fetched>>
\* Of the current tool call: requests sent, those answered 429, seconds slept
\* and seconds the server asked for; and what each tool last came to.
effort  == <<requests, throttled, slept, demanded>>
history == <<effort, last>>
vars == <<job, turn, pc, call, came, fetch, history>>

LookupTools == {"s2_lookup", "arxiv_lookup"}
WideTools == {"arxiv_search", "web_search", "s2_lookup"}
ToolNames == LookupTools \cup WideTools
-----------------------------------------------------------------------------
\* What a body parses to: the records or their absence, a value of the wrong type,
\* which the gateway refuses, or something the parser itself stumbles over.  The
\* parser of arxiv_lookup makes no value of a wrong type.
S2Bodies == {"abstract", "absent", "misfit", "malformed"}
ArxivBodies == {"abstract", "absent", "malformed"}
SearchBodies == {"results", "misfit", "malformed"}
WebBodies == {"results", "misfit", "malformed"}

Bodies == [s2_lookup |-> S2Bodies, arxiv_lookup |-> ArxivBodies,
           arxiv_search |-> SearchBodies, web_search |-> WebBodies]

\* No header; a date, a negative number or NaN; more than time.sleep takes.
Headers == [given : {"seconds"}, seconds : RetryAfters]
           \cup [given : {"none", "unusable", "endless"}]

NoResponse == [status |-> "none"]
NoBlock == [text |-> <<>>, content |-> <<>>]

Responses(t) ==
       [status : {"ok"}, body : Bodies[t]]
  \cup [status : {"throttled", "server_error"}, after : Headers]
  \cup [status : {"not_found", "other"}]

\* raise_for_status and classify_exception
StatusCategory == [throttled |-> "provider_429", server_error |-> "provider_5xx",
                   not_found |-> "unclassified", other |-> "unclassified"]

\* Mutant: the gateway takes the output as it is.
ParsedRaw(body) == body

Parsed(body) == IF body = "misfit" THEN "schema_invalid"
                ELSE IF body = "malformed" THEN "unclassified"
                ELSE body

\* The code after the loop.
Judged(t, r) == IF r.status = "not_found" /\ t \in LookupTools THEN "absent"
                ELSE IF r.status = "ok" THEN Parsed(r.body)
                ELSE StatusCategory[r.status]

MAX_RETRY_ATTEMPTS == 3
DEFAULT_BACKOFF_SECONDS == <<1, 2, 4>>

\* Mutant: the header is ignored.
RetryDelayFixed(r) == DEFAULT_BACKOFF_SECONDS[attempt + 1]

\* _compute_retry_delay
RetryDelay(r) == IF r.after.given = "seconds" THEN r.after.seconds
                 ELSE DEFAULT_BACKOFF_SECONDS[attempt + 1]

\* Mutant: server errors are retried as well.
RetriedToo(r) == /\ tool \in LookupTools
                 /\ r.status \in {"throttled", "server_error"}
                 /\ attempt < MAX_RETRY_ATTEMPTS

\* The loop goes on.
Retried(r) == /\ tool \in LookupTools
              /\ r.status = "throttled"
              /\ attempt < MAX_RETRY_ATTEMPTS
-----------------------------------------------------------------------------
Init == /\ \/ who = "deep" /\ paper \in Papers /\ tag = <<>> /\ calls = 0
           \/ who = "wide" /\ paper = None /\ tag \in Tags /\ calls \in 1..MaxCalls
        /\ pc = "ready"
        /\ made = 0
        /\ tool = None /\ attempt = 0 /\ response = NoResponse /\ came = None
        /\ s2Exc = None /\ fetched = None /\ toolMessages = <<>> /\ block = NoBlock
        /\ requests = 0 /\ throttled = 0 /\ slept = 0 /\ demanded = 0
        /\ last = [t \in ToolNames |-> None]

\* gateway.call
CallTool(t) == /\ pc' = "call"
               /\ tool' = t
               /\ attempt' = 0 /\ response' = NoResponse /\ came' = None
               /\ requests' = 0 /\ throttled' = 0 /\ slept' = 0 /\ demanded' = 0

\* The tool returns or raises.
ComesTo(c) == /\ pc' = "result"
              /\ came' = c
              /\ last' = [last EXCEPT ![tool] = c]

\* A web: paper is not looked up.
SkipWeb == /\ pc = "ready"
           /\ who = "deep"
           /\ paper \in Web
           /\ fetched' = "absent"
           /\ pc' = "done"
           /\ UNCHANGED <<job, turn, call, came, s2Exc, history>>

CallS2 == /\ pc = "ready"
          /\ who = "deep"
          /\ paper \notin Web
          /\ CallTool("s2_lookup")
          /\ UNCHANGED <<job, turn, fetch, last>>

\* The next tool call of the turn.
CallWide == /\ pc = "ready"
            /\ who = "wide"
            /\ \E t \in WideTools : CallTool(t)
            /\ made' = made + 1
            /\ last' = [t \in ToolNames |-> None]
            /\ block' = NoBlock
            /\ UNCHANGED <<job, fetch, toolMessages>>

\* No connection for the call's transaction: the exception leaves the node.
NoConnection == /\ pc = "ready"
                /\ who = "wide"
                /\ pc' = "raised"
                /\ UNCHANGED <<job, turn, call, came, fetch, history>>

\* Arguments of the model that the schema does not take, a tool it made up, no
\* SERPER_API_KEY.
Refuse == /\ pc = "call"
          /\ who = "wide"
          /\ \E c \in {"schema_invalid", "unclassified"} : ComesTo(c)
          /\ UNCHANGED <<job, turn, call, fetch, effort>>

\* An earlier call with these arguments came to something.
CacheHit == /\ pc = "call"
            /\ \E c \in Bodies[tool] \cap {"abstract", "absent", "results"} : ComesTo(c)
            /\ UNCHANGED <<job, turn, call, fetch, effort>>

Miss == /\ pc = "call"
        /\ pc' = "request"
        /\ UNCHANGED <<job, turn, call, came, fetch, history>>

\* Requests are counted to one past what the loop allows.
Counted(n) == IF n > MAX_RETRY_ATTEMPTS + 1 THEN n ELSE n + 1

Request == /\ pc = "request"
           /\ \E r \in Responses(tool) :
                /\ response' = r
                /\ throttled' = IF r.status = "throttled" THEN Counted(throttled)
                                ELSE throttled
           /\ requests' = Counted(requests)
           /\ pc' = "judge"
           /\ UNCHANGED <<job, turn, tool, attempt, came, fetch, slept, demanded, last>>

\* An httpx.RequestError (timeout, connection), or a URL httpx refuses.
RequestRaises == /\ pc = "request"
                 /\ \E c \in {"network", "unclassified"} : ComesTo(c)
                 /\ requests' = Counted(requests)
                 /\ UNCHANGED <<job, turn, call, fetch, throttled, slept, demanded>>

Retry == /\ pc = "judge"
         /\ Retried(response)
         /\ pc' = "sleep"
         /\ UNCHANGED <<job, turn, call, came, fetch, history>>

\* Mutant: the attempt is not counted.
NextAttemptNever == attempt' = attempt

NextAttempt == attempt' = attempt + 1

Sleep == /\ pc = "sleep"
         /\ response.after.given # "endless"
         /\ slept' = slept + RetryDelay(response)
         /\ demanded' = IF response.after.given = "seconds"
                        THEN demanded + response.after.seconds
                        ELSE demanded
         /\ NextAttempt
         /\ pc' = "request"
         /\ UNCHANGED <<job, turn, tool, response, came, fetch, requests, throttled,
                        last>>

\* time.sleep raises OverflowError for what the header asked for.
SleepRaises == /\ pc = "sleep"
               /\ response.after.given = "endless"
               /\ ComesTo("unclassified")
               /\ UNCHANGED <<job, turn, call, fetch, effort>>

Judge == /\ pc = "judge"
         /\ ~ Retried(response)
         /\ ComesTo(Judged(tool, response))
         /\ UNCHANGED <<job, turn, call, fetch, effort>>

\* The audit row of the call cannot be written.
RecordFails == /\ pc = "result"
               /\ came # "unclassified"
               /\ ComesTo("unclassified")
               /\ UNCHANGED <<job, turn, call, fetch, effort>>
-----------------------------------------------------------------------------
Succeeded(c) == c \in {"abstract", "absent", "results"}

\* Mutant: whatever the fallback raises is raised.
AfterFallbackRaw == came

AfterFallback == IF Succeeded(came) THEN came ELSE s2Exc

\* except Exception as s2_exc
FallBack == /\ pc = "result"
            /\ who = "deep"
            /\ tool = "s2_lookup"
            /\ came \in Fallbackable
            /\ paper \in Arxiv
            /\ s2Exc' = came
            /\ CallTool("arxiv_lookup")
            /\ UNCHANGED <<job, turn, fetched, last>>

FetchEnds == /\ pc = "result"
             /\ who = "deep"
             /\ \/ /\ tool = "s2_lookup"
                   /\ came \notin Fallbackable \/ paper \notin Arxiv
                   /\ fetched' = came
                \/ /\ tool = "arxiv_lookup"
                   /\ fetched' = AfterFallback
             /\ pc' = "done"
             /\ UNCHANGED <<job, turn, call, came, s2Exc, history>>

\* wrap_untrusted of what a web search can bring.
Wrapped(id) == {[text |-> Wrap(c, <<"web_search">>, id), content |-> c] : c \in Contents}
WrappedFor == [id \in Tags |-> Wrapped(id)]

\* Mutant: after an error the loop goes on without a message.
ReplySilent(kind) == IF kind = "error" THEN UNCHANGED toolMessages
                     ELSE toolMessages' = Append(toolMessages, kind)

Reply(kind) == toolMessages' = Append(toolMessages, kind)

\* After the last call the model is invoked with the messages.
NextCall == pc' = IF made' = calls THEN "done" ELSE "ready"

AnswerCall == /\ pc = "result"
              /\ who = "wide"
              /\ IF ~ Succeeded(came) THEN Reply("error") /\ block' = NoBlock
                 ELSE IF tool = "web_search"
                 THEN Reply("wrapped") /\ block' \in WrappedFor[tag]
                 ELSE Reply("plain") /\ block' = NoBlock
              /\ UNCHANGED made
              /\ NextCall
              /\ UNCHANGED <<job, call, came, fetch, history>>

\* submit_results never reaches the gateway: it is refused with a message, or ends
\* the section.
SubmitRefused == /\ pc = "ready"
                 /\ who = "wide"
                 /\ Reply("error")
                 /\ block' = NoBlock
                 /\ made' = made + 1
                 /\ NextCall
                 /\ UNCHANGED <<job, call, came, fetch, history>>

SubmitAccepted == /\ pc = "ready"
                  /\ who = "wide"
                  /\ made' = made + 1
                  /\ pc' = "submitted"
                  /\ UNCHANGED <<job, call, came, fetch, toolMessages, block, history>>

Step == \/ SkipWeb \/ CallS2 \/ CallWide \/ NoConnection \/ Refuse \/ CacheHit \/ Miss
        \/ Request \/ RequestRaises \/ Retry \/ Sleep \/ SleepRaises \/ Judge
        \/ RecordFails \/ FallBack \/ FetchEnds \/ AnswerCall \/ SubmitRefused
        \/ SubmitAccepted

Done == pc \in {"done", "raised", "submitted"} /\ UNCHANGED vars

Next == Step \/ Done

Spec == Init /\ [][Next]_vars

\* A request is answered or raises, for the client has a timeout of 30 seconds,
\* and a sleep ends.
FairSpec == Spec /\ WF_vars(Step)
-----------------------------------------------------------------------------
TypeOK ==
  /\ who \in {"deep", "wide"}
  /\ paper \in Papers \cup {None}
  /\ tag \in Tags \cup {<<>>}
  /\ calls \in 0..MaxCalls
  /\ made \in 0..calls
  /\ pc \in {"ready", "call", "request", "judge", "sleep", "result",
            "done", "raised", "submitted"}
  /\ tool \in ToolNames \cup {None}
  /\ attempt \in 0..MAX_RETRY_ATTEMPTS
  /\ response \in {NoResponse} \cup UNION {Responses(t) : t \in ToolNames}
  /\ came \in Lookup \cup {"results", None}
  /\ s2Exc \in Fallbackable \cup {None}
  /\ fetched \in Lookup \cup {None}
  /\ toolMessages \in Seq({"plain", "error", "wrapped"})
  /\ block \in {NoBlock} \cup UNION {Wrapped(id) : id \in Tags}
  /\ requests \in Nat /\ throttled \in Nat /\ slept \in Nat /\ demanded \in Nat
  /\ last \in [ToolNames -> Lookup \cup {"results", None}]

\* What ResearcherDeep assumes of its lookups is what the two tools, their loops
\* and the fallback together do: the last word of each decides, and what comes of
\* it is one of the outcomes Deep has a branch for, never an unchecked value.
DeepSeesContract ==
  who = "deep" /\ pc = "done" =>
    /\ fetched = FetchAbstract(paper, last["s2_lookup"], last["arxiv_lookup"])
    /\ fetched \in Fetched(paper)

\* A lookup takes 429 for its result only after four requests, all throttled, and
\* repeats no request that was answered in any other way: no error is retried
\* that the docstrings say must not be, and no throttled request is forgotten.
OnlyThrottledRetried ==
  pc = "result" => /\ requests \in throttled..(throttled + 1)
                   /\ tool \notin LookupTools => throttled <= 1
                   /\ came = "provider_429" /\ tool \in LookupTools =>
                        requests = 4 /\ throttled = 4

\* The loop waits at least as long as the server asks, and on its own account at
\* most 7 seconds: the transaction that is open meanwhile waits with it.
WaitsAsTold == slept \in demanded..(demanded + 7)

\* Web content reaches the model inside one block, which ends where the message
\* ends and gives back the content, whatever it holds: entities, quotes, a
\* closing tag of its own.
UntrustedStaysInside ==
  block # NoBlock => /\ Extract(block.text, tag) = block.content
                     /\ Block(block.text).end = Len(block.text)

\* When the model is invoked again, or the next call of the turn is taken up,
\* every call before it has its message: a provider refuses a history in which
\* one is missing.
EveryCallAnswered ==
  who = "wide" /\ pc \in {"ready", "done"} => Len(toolMessages) = made

\* Every fetch and every turn ends.
Terminates == <>(pc \in {"done", "raised", "submitted"})
=============================================================================
