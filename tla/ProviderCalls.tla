--------------------------- MODULE ProviderCalls ---------------------------
(***************************************************************************)
(* The execution providers of dnc.providers behind the runtime's           *)
(* production mode and the recording provider: what a module's output, a   *)
(* success and a recording stand for when the server fails.                *)
(*                                                                         *)
(* A call meets one outcome on the wire.  "answer" is an object with the   *)
(* part wanted, "missing" one without it, "empty" one where it is an empty *)
(* list; "malformed" is a body that is no object; "unreachable" is every   *)
(* URLError, HTTP errors among them; "stalled" is any other exception, as  *)
(* a timeout while reading.  The text of an outcome is whatever tells two  *)
(* of its kind apart: the words and the token counts, or the reason.       *)
(***************************************************************************)
EXTENDS Integers, Sequences

CONSTANTS
  Bindings,      \* the sequences of providers a runtime is given
  ModuleNames,   \* modules to run
  Needs,         \* _node_capabilities: the capability of each module
  Input,         \* the input of each module
  Texts,
  NoText,
  NoOutputYet,
  MaxRuns        \* bound: runs of the modules

Outputs == [blank : BOOLEAN, marked : BOOLEAN, text : Texts \cup {NoText}]

ASSUME ProviderConstants ==
  /\ Bindings \subseteq Seq(STRING) /\ MaxRuns \in Nat
  /\ NoText \notin Texts /\ NoOutputYet \notin Outputs

Reasoning == "CAP_REASONING"
Embedding == "CAP_EMBEDDING"
Kinds == {"answer", "missing", "empty", "malformed", "unreachable", "stalled"}
Outcomes == [kind : Kinds, text : Texts]
Cloud == {"openai", "anthropic", "gemini"}
ReplayMode == {"LIVE", "RECORD", "REPLAY", "DENY_LIVE"}

\* What a recording is filed under, the provider being one for a capability.
RequestOf(m) == <<Needs[m], Input[m]>>
Requests == {RequestOf(m) : m \in ModuleNames}

VARIABLES
  bound,       \* _providers: the providers bound to the runtime, in order
  runs,        \* runs started
  mode,        \* the mode of the recording providers in the last of them
  failed,      \* a provider failed and the run raised
  completed,   \* for each module, the provider and the output it completed with
  outputsRecorded, \* for each request, the output recorded for it
  said         \* history: for each request, what servers sent in answer to it

providerVars == <<bound, runs, mode, failed, completed, outputsRecorded, said>>

ProvidersInit ==
  /\ bound \in Bindings
  /\ runs = 0 /\ mode = "RECORD" /\ failed = FALSE
  /\ completed = [m \in ModuleNames |-> NoOutputYet]
  /\ outputsRecorded = [q \in Requests |-> NoOutputYet]
  /\ said = [q \in Requests |-> {}]

----------------------------------------------------------------------------
(* One call *)

\* An output: the text a server sent, or the marked text of the provider itself;
\* a blank has nothing a server was asked for, and perhaps its token counts.
Sent(text) == [blank |-> FALSE, marked |-> FALSE, text |-> text]
Blank(text) == [blank |-> TRUE, marked |-> FALSE, text |-> text]
MadeUp(text) == [blank |-> FALSE, marked |-> TRUE, text |-> text]

Success(output) == [success |-> TRUE, output |-> output]
Failure == [success |-> FALSE, output |-> NoOutputYet]

\* What comes of a body; rest is what a blank keeps of one.
Body(outcome, rest) ==
  CASE outcome.kind = "answer" -> Success(Sent(outcome.text))
    [] outcome.kind \in {"missing", "empty"} -> Success(Blank(rest))
    [] OTHER -> Failure

\* The local servers: a URLError is answered with a text, or with zeros, marked
\* as a mock.
Instead(outcome, output) ==
  IF outcome.kind = "unreachable" THEN Success(output) ELSE Body(outcome, NoText)

VllmUnmarked(outcome) == Instead(outcome, Sent(outcome.text))

VllmChat(outcome) == Instead(outcome, MadeUp(outcome.text))
VllmEmbeddings(outcome) == Instead(outcome, MadeUp(NoText))
OllamaChat(outcome) == Instead(outcome, MadeUp(outcome.text))
OllamaEmbeddings(outcome) == Instead(outcome, MadeUp(NoText))

\* The cloud services: every exception becomes an error.
OpenAIChat(outcome) == Body(outcome, outcome.text)
OpenAIEmbeddings(outcome) == Body(outcome, NoText)
GeminiContent(outcome) == Body(outcome, outcome.text)

\* The first content block of an empty list is an error, that of a missing one
\* is a blank.
AnthropicMessages(outcome) ==
  IF outcome.kind = "empty" THEN Failure ELSE Body(outcome, outcome.text)

VllmSupports == {Reasoning, Embedding}
OllamaSupports == {Reasoning, Embedding}
OpenAISupports == {Reasoning, Embedding}
AnthropicSupports == {Reasoning}
GeminiSupports == {Reasoning}
ReferenceSupports == {Reasoning}

Supports(p, c) ==
  c \in CASE p = "vllm" -> VllmSupports
          [] p = "ollama" -> OllamaSupports
          [] p = "openai" -> OpenAISupports
          [] p = "anthropic" -> AnthropicSupports
          [] p = "gemini" -> GeminiSupports
          [] OTHER -> ReferenceSupports

VllmExecute(c, outcome) ==
  IF c = Reasoning THEN VllmChat(outcome) ELSE VllmEmbeddings(outcome)
OllamaExecute(c, outcome) ==
  IF c = Reasoning THEN OllamaChat(outcome) ELSE OllamaEmbeddings(outcome)
OpenAIExecute(c, outcome) ==
  IF c = Reasoning THEN OpenAIChat(outcome) ELSE OpenAIEmbeddings(outcome)

\* ReferenceExecutionProvider answers by itself, and says so in its output.
ReferenceExecute == Success(MadeUp(NoText))

ProviderResult(p, c, outcome) ==
  IF ~Supports(p, c) THEN Failure
  ELSE CASE p = "vllm" -> VllmExecute(c, outcome)
         [] p = "ollama" -> OllamaExecute(c, outcome)
         [] p = "openai" -> OpenAIExecute(c, outcome)
         [] p = "anthropic" -> AnthropicMessages(outcome)
         [] p = "gemini" -> GeminiContent(outcome)
         [] OTHER -> ReferenceExecute

----------------------------------------------------------------------------
(* The runtime *)

NoProvider == "nobody"

\* The first provider bound that supports the capability.
ProviderFor(c) ==
  LET able == {i \in DOMAIN bound : Supports(bound[i], c)}
  IN  IF able = {} THEN NoProvider ELSE bound[CHOOSE i \in able : \A j \in able : i <= j]

\* What the server of p sends for an outcome, the reference provider having none.
\* NoText stands for a body without an answer.
Heard(p, outcome) ==
  IF p \in {NoProvider, "reference"} THEN {}
  ELSE CASE outcome.kind = "answer" -> {outcome.text}
         [] outcome.kind \in {"missing", "empty"} -> {NoText}
         [] OTHER -> {}

\* act in production mode, for one module: without a provider, or when its call
\* fails or raises, the run raises; no other provider is tried.
CompleteModule(m, p, output) ==
  completed' = [completed EXCEPT ![m] = [provider |-> p, output |-> output]]
Raise == failed' = TRUE /\ UNCHANGED <<completed, outputsRecorded>>

MayRun(m) ==
  runs > 0 /\ ~failed /\ completed[m] = NoOutputYet

\* add of the replay store: a second, different recording for a request is
\* refused.
Conflicts(q, output) == outputsRecorded[q] \notin {NoOutputYet, output}

\* The call is made: successes are recorded in RECORD, and only there.
RunModule(m, outcome) ==
  LET p == ProviderFor(Needs[m])
      q == RequestOf(m)
      result == ProviderResult(p, Needs[m], outcome)
  IN  /\ MayRun(m) /\ mode \in {"LIVE", "RECORD"}
      /\ said' = [said EXCEPT ![q] = @ \cup Heard(p, outcome)]
      /\ \/ /\ \/ p = NoProvider \/ ~result.success
               \/ mode = "RECORD" /\ Conflicts(q, result.output)
            /\ Raise
         \/ /\ p # NoProvider /\ result.success
            /\ mode = "RECORD" => ~Conflicts(q, result.output)
            /\ CompleteModule(m, p, result.output)
            /\ outputsRecorded' = IF mode = "RECORD"
                                  THEN [outputsRecorded EXCEPT ![q] = result.output]
                                  ELSE outputsRecorded
            /\ UNCHANGED failed
      /\ UNCHANGED <<bound, runs, mode>>

\* No call is made: a replay completes the module with what was recorded, or
\* fails, and DENY_LIVE always fails.
RunModuleOffline(m) ==
  LET p == ProviderFor(Needs[m])
      output == outputsRecorded[RequestOf(m)]
  IN  /\ MayRun(m) /\ mode \in {"REPLAY", "DENY_LIVE"}
      /\ IF p # NoProvider /\ mode = "REPLAY" /\ output # NoOutputYet
         THEN CompleteModule(m, p, output) /\ UNCHANGED <<failed, outputsRecorded>>
         ELSE Raise
      /\ UNCHANGED <<bound, runs, mode, said>>

\* A new run starts with empty buffers, in any mode.
StartRun(newMode) ==
  /\ runs < MaxRuns /\ runs' = runs + 1 /\ mode' = newMode
  /\ failed' = FALSE /\ completed' = [m \in ModuleNames |-> NoOutputYet]
  /\ UNCHANGED <<bound, outputsRecorded, said>>

ProvidersNext ==
  \/ \E newMode \in ReplayMode : StartRun(newMode)
  \/ \E m \in ModuleNames : \/ RunModuleOffline(m)
                            \/ \E outcome \in Outcomes : RunModule(m, outcome)

ProvidersSpec == ProvidersInit /\ [][ProvidersNext]_providerVars

----------------------------------------------------------------------------
(* Properties *)

\* An output that is not marked as a mock stands for what some server sent in
\* answer to the request, a blank for a body without an answer.
Genuine(output, heard) ==
  output.marked \/ (IF output.blank THEN NoText ELSE output.text) \in heard

\* A module completes by the first of the providers bound that supports what it
\* needs, and with an output that a server sent for its request, in this run or,
\* replayed, in an earlier one, unless the output carries the mark of a mock; a
\* cloud service's never does.  Where runs are recorded or replayed, the output
\* is the one on record, so runs that complete a request agree on it.
CompletedByServer ==
  \A m \in ModuleNames : completed[m] # NoOutputYet =>
    /\ completed[m].provider = ProviderFor(Needs[m])
    /\ Supports(completed[m].provider, Needs[m])
    /\ Genuine(completed[m].output, said[RequestOf(m)])
    /\ completed[m].provider \in Cloud => ~completed[m].output.marked
    /\ mode \in {"RECORD", "REPLAY"} => completed[m].output = outputsRecorded[RequestOf(m)]

\* What the proof needs besides: a replay finds what a call of the same
\* provider left.
RecordedFromProvider ==
  \A q \in Requests : outputsRecorded[q] # NoOutputYet =>
    /\ Genuine(outputsRecorded[q], said[q])
    /\ ProviderFor(q[1]) \in Cloud => ~outputsRecorded[q].marked

ProvidersInv ==
  /\ bound \in Seq(STRING)
  /\ DOMAIN completed = ModuleNames
  /\ DOMAIN outputsRecorded = Requests /\ DOMAIN said = Requests
  /\ \A m \in ModuleNames : completed[m] # NoOutputYet => completed[m].output # NoOutputYet
  /\ CompletedByServer /\ RecordedFromProvider
============================================================================
