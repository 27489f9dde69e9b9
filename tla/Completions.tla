----------------------------- MODULE Completions -----------------------------
(***************************************************************************)
(* packages/llm: one completion, through the router's token budget, the        *)
(* provider's retries, and the stream of the answer, from which text and tool  *)
(* calls are put together.                                                     *)
(*                                                                         *)
(* The messages of the prompt are "whole" or "compacted", told apart by their  *)
(* size.  The arguments of a call are fragments of JSON, the last of them      *)
(* Closing.  What a provider's server or its library does is external.         *)
(***************************************************************************)
EXTENDS Integers, Sequences, SequencesExt, FiniteSetsExt, Functions

CONSTANTS
  Asks,            \* bound: the completions asked for
  MaxInputTokens,
  WarnPercent, HardPercent,  \* warnThreshold, hardThreshold of the guard
  Sizes, Estimates,          \* bound: tokens of the prompt, counted and estimated
  MaxLLMRetries

ASSUME CompletionBounds ==
  /\ {MaxInputTokens, WarnPercent, HardPercent, MaxLLMRetries} \subseteq Nat
  /\ MaxInputTokens > 0
  /\ Sizes \cup Estimates \subseteq Nat

\* An ask: [api, guard, recounts, kind, effort, phase, calls], where calls is what the
\* model will answer: of each tool call an id, or none, and the fragments of its
\* arguments; for a text, the fragments of one.  Anthropic's calls always have an id.
Opening == "{"
Closing == "}"
Answerable(a) ==
  /\ a.api \in {"openai", "anthropic"}
  /\ a.calls \in Seq([id : STRING, args : Seq(STRING)])
  /\ \A i \in DOMAIN a.calls : LET args == a.calls[i].args IN
       /\ \A k \in DOMAIN args : args[k] = Closing <=> k = Len(args)
       /\ a.kind = "tools" /\ a.api = "anthropic" => a.calls[i].id # ""
  /\ a.kind # "tools" => Len(a.calls) = 1

ASSUME AsksAssumption == \A a \in Asks : Answerable(a)

VARIABLES
  ask,       \* the completion
  size,      \* tokens of the whole prompt and of the compacted one
  llmStep,   \* up to its next await, and the ends "ended" and "thrown"
  prompt,    \* the messages to send, and their count
  usage,     \* what the usage sink recorded
  attempt,
  arrived,   \* of each call, the fragments that have arrived and whether it was announced
  pending,   \* calls being put together: [index -> [id, json]]
  yielded,   \* what the consumer was given
  cut        \* history: the stream ended before all of the answer had arrived

llmVars == <<ask, size, llmStep, prompt, usage, attempt, arrived, pending, yielded, cut>>

NoUsage == [model |-> "none", inputTokens |-> 0]

CompletionsRest ==
  /\ ask = [kind |-> "tools", api |-> "openai", guard |-> FALSE, calls |-> <<>>]
  /\ size = [whole |-> 0, compacted |-> 0]
  /\ llmStep = "ended"
  /\ prompt = [messages |-> "whole", inputTokens |-> 0]
  /\ usage = NoUsage /\ attempt = 0
  /\ arrived = <<>> /\ pending = <<>> /\ yielded = <<>> /\ cut = TRUE

CompletionsInit ==
  /\ ask \in Asks
  /\ size \in [whole : Sizes, compacted : Sizes]
  /\ llmStep = "count"
  /\ prompt = [messages |-> "whole", inputTokens |-> 0]
  /\ usage = NoUsage /\ attempt = 0
  /\ arrived = [i \in DOMAIN ask.calls |-> [announced |-> FALSE, fragments |-> 0]]
  /\ pending = <<>> /\ yielded = <<>> /\ cut = FALSE

-----------------------------------------------------------------------------
(* The route and the budget. *)

routeForPhase(phase) == IF phase = "plan" THEN "architect" ELSE "editor"
routeForEffort(effort) ==
  CASE effort = "fast" -> "editor" [] effort = "normal" -> "architect"
    [] effort = "thorough" -> "thorough"
Route == IF ask.effort = "none" THEN routeForPhase(ask.phase) ELSE routeForEffort(ask.effort)

Throw == llmStep' = "thrown"
Answer == UNCHANGED <<arrived, pending, yielded, cut>>
Fixed  == UNCHANGED <<ask, size>>

\* countTokens of the provider.
CountTokens ==
  /\ llmStep = "count"
  /\ prompt' = [messages |-> "whole", inputTokens |-> size.whole]
  /\ llmStep' = IF ask.guard THEN "guard" ELSE "check"
  /\ UNCHANGED <<usage, attempt>> /\ Answer /\ Fixed

Reaches(percent) == prompt.inputTokens * 100 >= percent * MaxInputTokens

\* enforce: the warning, and whether to compact.
Guard ==
  /\ llmStep = "guard"
  /\ \/ llmStep' = IF Reaches(HardPercent) THEN "compact" ELSE "check"
     \/ Reaches(WarnPercent) /\ Throw    \* onWarn rejects
  /\ UNCHANGED <<prompt, usage, attempt>> /\ Answer /\ Fixed

\* forceCompact gives other messages, or none and the prompt stays; these are
\* counted, or their tokens estimated where the guard cannot count.
ForceCompact ==
  /\ llmStep = "compact"
  /\ \E messages \in {"whole", "compacted"}, estimated \in Estimates :
       prompt' = [messages |-> messages,
                  inputTokens |-> IF ask.recounts THEN size[messages] ELSE estimated]
  /\ llmStep' = "check"
  /\ UNCHANGED <<usage, attempt>> /\ Answer /\ Fixed

\* enforceBudget, and the usage recorded before the provider is asked.
CheckBudget ==
  /\ llmStep = "check"
  /\ IF prompt.inputTokens > MaxInputTokens
     THEN Throw /\ UNCHANGED usage
     ELSE /\ llmStep' = "open"
          /\ usage' = [model |-> Route, inputTokens |-> prompt.inputTokens]
  /\ UNCHANGED <<prompt, attempt>> /\ Answer /\ Fixed

\* The provider, the sink or the compaction rejects.
Rejects ==
  /\ llmStep \in {"count", "compact", "check"}
  /\ Throw
  /\ UNCHANGED <<prompt, usage, attempt>> /\ Answer /\ Fixed

-----------------------------------------------------------------------------
(* The request and its retries. *)

\* withRetry goes round on a failure that may pass; AnthropicProvider leaves
\* retrying to its library.
Open ==
  /\ llmStep = "open"
  /\ \/ llmStep' = "stream" /\ UNCHANGED attempt
     \/ \E retryable \in BOOLEAN :
          IF retryable /\ ask.api = "openai" /\ attempt < MaxLLMRetries
          THEN attempt' = attempt + 1 /\ llmStep' = "open"
          ELSE Throw /\ UNCHANGED attempt
  /\ UNCHANGED <<prompt, usage>> /\ Answer /\ Fixed

-----------------------------------------------------------------------------
(* The stream. *)

Streaming == UNCHANGED <<prompt, usage, attempt>> /\ Fixed

Calls == DOMAIN ask.calls
Complete(i) == /\ arrived[i].announced
               /\ arrived[i].fragments = Len(ask.calls[i].args)

\* Some of the fragments of a call that are still to come.
Chunks(i) == LET from == arrived[i].fragments + 1
             IN {SubSeq(ask.calls[i].args, from, to) : to \in from - 1..Len(ask.calls[i].args)}

Arrives(i, chunk) ==
  arrived' = [arrived EXCEPT ![i] = [announced |-> TRUE, fragments |-> @.fragments + Len(chunk)]]

IsJson(json) == json # <<>> /\ Last(json) = Closing

\* parseToolArguments: what does not parse counts as no arguments.
parseToolArguments(json) == IF IsJson(json) THEN json ELSE <<>>

\* A piece of a text.
TextDelta ==
  /\ llmStep = "stream" /\ ask.kind # "tools"
  /\ \E i \in Calls, chunk \in {c \in Chunks(1) : c # <<>>} :
       /\ Arrives(i, chunk)
       /\ yielded' = yielded \o chunk
  /\ UNCHANGED <<llmStep, pending, cut>> /\ Streaming

\* Mutant: the arguments of a later delta replace those before.
LastDeltaWins(i, chunk) ==
  /\ pending' = [j \in DOMAIN pending \cup {i} |->
       IF j # i THEN pending[j] ELSE [id |-> ask.calls[i].id, json |-> chunk]]

\* A delta of a call goes to the builder of its index, which begins with the
\* first; the id and the name come with that one.
BuildCall(i, chunk) ==
  pending' = [j \in DOMAIN pending \cup {i} |->
    IF j # i THEN pending[j]
    ELSE IF i \in DOMAIN pending THEN [pending[i] EXCEPT !.json = @ \o chunk]
    ELSE [id |-> ask.calls[i].id, json |-> chunk]]

OpenAIDelta ==
  /\ llmStep = "stream" /\ ask.kind = "tools" /\ ask.api = "openai"
  /\ \E i \in Calls, chunk \in UNION {Chunks(c) : c \in Calls} :
       /\ ~Complete(i) /\ chunk \in Chunks(i)
       /\ arrived[i].announced => chunk # <<>>
       /\ Arrives(i, chunk)
       /\ BuildCall(i, chunk)
  /\ UNCHANGED <<llmStep, yielded, cut>> /\ Streaming

OrNumbered(id, i) == IF id = "" THEN <<"tool", i>> ELSE <<id>>

\* At the end of the stream the calls are given in the order of their index.
OpenAIEnd ==
  /\ llmStep = "stream" /\ ask.kind = "tools" /\ ask.api = "openai"
  /\ LET order == AntiFunction([i \in DOMAIN pending |->
                                  Cardinality({j \in DOMAIN pending : j < i}) + 1]) IN
     yielded' = [k \in DOMAIN order |->
       [id |-> OrNumbered(pending[order[k]].id, order[k]),
        input |-> parseToolArguments(pending[order[k]].json)]]
  /\ pending' = <<>>
  /\ llmStep' = "ended"
  /\ cut' = \E i \in Calls : ~Complete(i)
  /\ UNCHANGED arrived /\ Streaming

\* The block of the next call starts; one is open at a time.
AnthropicStart ==
  /\ llmStep = "stream" /\ ask.kind = "tools" /\ ask.api = "anthropic"
  /\ pending = <<>> /\ ~cut
  /\ \E i \in Calls :
       /\ ~arrived[i].announced /\ \A j \in 1..i - 1 : arrived[j].announced
       /\ Arrives(i, <<>>)
       /\ pending' = [j \in {i} |-> [id |-> ask.calls[i].id, json |-> <<>>]]
  /\ UNCHANGED <<llmStep, yielded, cut>> /\ Streaming

AnthropicDelta ==
  /\ llmStep = "stream" /\ ask.api = "anthropic"
  /\ \E i \in DOMAIN pending :
       \E chunk \in Chunks(i) \ {<<>>} : Arrives(i, chunk) /\ BuildCall(i, chunk)
  /\ UNCHANGED <<llmStep, yielded, cut>> /\ Streaming

\* The block stops, cut short if the answer has come to its last token.  JSON that
\* is not whole throws; a call none of whose arguments came has none.
AnthropicStop ==
  /\ llmStep = "stream" /\ ask.api = "anthropic"
  /\ \E i \in DOMAIN pending :
       IF pending[i].json # <<>> /\ ~IsJson(pending[i].json)
       THEN Throw /\ UNCHANGED <<pending, yielded, cut>>
       ELSE /\ yielded' = Append(yielded, [id |-> <<pending[i].id>>, input |-> pending[i].json])
            /\ pending' = <<>>
            /\ cut' = ~Complete(i)
            /\ UNCHANGED llmStep
  /\ UNCHANGED arrived /\ Streaming

\* completeStructured of a text: it must parse and fit the schema.
EndStream ==
  /\ llmStep = "stream" /\ (ask.kind # "tools" \/ ask.api = "anthropic")
  /\ pending = <<>>
  /\ cut' = \E i \in Calls : ~Complete(i)
  /\ \/ llmStep' = "ended" /\ (ask.kind = "structured" => IsJson(yielded))
     \/ ask.kind = "structured" /\ Throw
  /\ UNCHANGED <<arrived, pending, yielded>> /\ Streaming

\* The connection is lost.  A request is not made again once its stream is open.
Break ==
  /\ llmStep = "stream"
  /\ Throw
  /\ cut' = TRUE
  /\ UNCHANGED <<arrived, pending, yielded>> /\ Streaming

CompletionsNext ==
  \/ CountTokens \/ Guard \/ ForceCompact \/ CheckBudget \/ Rejects \/ Open
  \/ TextDelta \/ OpenAIDelta \/ OpenAIEnd
  \/ AnthropicStart \/ AnthropicDelta \/ AnthropicStop
  \/ EndStream \/ Break

-----------------------------------------------------------------------------
CompletionsTypeOK ==
  /\ llmStep \in {"count", "guard", "compact", "check", "open", "stream", "ended", "thrown"}
  /\ prompt.messages \in {"whole", "compacted"} /\ prompt.inputTokens \in Sizes \cup Estimates \cup {0}
  /\ attempt \in 0..MaxLLMRetries
  /\ DOMAIN pending \subseteq Calls

\* A tool call the consumer is given has the arguments the model wrote, whole,
\* whatever the order its pieces and those of the other calls came in; and when
\* all of the answer arrived, each call is given once, in the model's order.  Only
\* the call an answer was cut short in may be given without arguments.  A
\* structured answer is taken only whole.
CallsAssembled ==
  LET Use(i, input) == [id |-> OrNumbered(ask.calls[i].id, i), input |-> input]
      whole == [i \in Calls |-> Use(i, ask.calls[i].args)]
  IN /\ ask.kind = "tools" =>
          /\ \A k \in DOMAIN yielded :
               \/ yielded[k] = whole[k]
               \/ cut /\ \E i \in Calls :
                    \/ yielded[k] = whole[i]
                    \/ ~Complete(i) /\ yielded[k] = Use(i, <<>>)
          /\ llmStep = "ended" /\ ~cut => yielded = whole
          /\ ask.api = "openai" /\ llmStep # "ended" => yielded = <<>>
     /\ ask.kind # "tools" => IsPrefix(yielded, ask.calls[1].args)
     /\ ask.kind = "structured" /\ llmStep = "ended" => yielded = ask.calls[1].args

\* What a provider is sent was counted as it is sent, after any compaction, fits
\* the budget by that count, and is what the usage records.
SentWithinBudget ==
  llmStep \in {"open", "stream"} =>
    /\ usage = [model |-> Route, inputTokens |-> prompt.inputTokens]
    /\ prompt.inputTokens <= MaxInputTokens
    /\ ~ask.guard \/ ask.recounts => prompt.inputTokens = size[prompt.messages]

\* What goes to the provider and what comes of its answer.
CompletionsFaithful == CompletionsTypeOK /\ CallsAssembled /\ SentWithinBudget
=============================================================================
