--------------------------- MODULE ModelExchange ---------------------------
(***************************************************************************)
(* The conversation of one agent with its model: the loop's own messages   *)
(* (agent_loop.py), the client that retries, repairs and paces requests    *)
(* (model_client.py), and the ledger the exchange is charged to.           *)
(*                                                                         *)
(* The provider is the environment.  It may be unreachable, answer nothing, *)
(* answer something malformed, ignore the tool choice, call tools that were *)
(* not offered or several where one was asked for.  A tool is known by its *)
(* name, a call by its position in the response, whose identifier stands   *)
(* for the call_id: identifiers are unique in a response, not in a         *)
(* conversation.                                                           *)
(***************************************************************************)
EXTENDS AgentBudget, SequencesExt

CONSTANTS
    Tool,           \* the tools of the registry
    Undeclared,     \* a name that no request declares
    None,
    MaxAttempts,    \* RetryPolicy.max_attempts
    Interval,       \* min_request_interval_seconds
    BaseDelay, MaxDelay,  \* base_delay_seconds and max_delay_seconds
    RetryAfter,     \* the delays a provider asks for; None: it asks for none
    Billed,         \* tokens a provider bills for an answer
    ContextLimits,  \* the limits a request's messages may have to fit
    ResultSize      \* sizes of a tool result; every other message has size 1

\* How a loop ends.
Ending == {"SAFETY_LIMIT_REACHED", "RUNTIME_FAILURE", "MODEL_UNAVAILABLE", "DECIDED"}

\* The tools offered, whether several may be called at once, and the attempts
\* the ledger has left (RetryPolicy allows no more than six).
Request == [tools : SUBSET Tool \ {{}}, parallel : BOOLEAN, attempts : 1 .. 6]

ASSUME ExchangeAssumption ==
    /\ Undeclared \notin Tool
    /\ None \notin Tool \cup Request \cup Ending
    /\ None \notin [tools : SUBSET Tool, several : BOOLEAN]
    /\ MaxAttempts \in 1 .. 6
    /\ {Interval, BaseDelay, MaxDelay} \subseteq Nat
    /\ RetryAfter \subseteq Nat \cup {None}
    /\ Billed \subseteq Nat
    /\ ContextLimits \subseteq Nat
    /\ ResultSize \subseteq Nat \ {0}

VARIABLES
    messages,    \* the loop's conversation
    phase,       \* "turn", "pace", "sent" or "tools"
    request,     \* the request of the exchange under way, or None
    wire,        \* the messages of the next or last request on the wire
    attempt,     \* requests of this exchange that have been started
    owed,        \* tokens of this exchange's answers that were sent back
    pending,     \* the calls of the last turn that are not executed yet
    pause,       \* time the client still sleeps
    sinceStart,  \* time since the last request was started, up to Interval
    ended,       \* None, or how the loop ended
    meter        \* what the provider has seen: requests, and tokens billed

exchangeVars == <<messages, phase, request, wire, attempt, owed, pending,
                  pause, sinceStart, ended, meter>>
vars == <<budgetVars, exchangeVars>>

Call == [id : 1 .. 2, name : Tool \cup {Undeclared}]

\* calls: the identifiers an assistant message calls, answers: the one a tool
\* result answers.
Say(role) == [role |-> role, calls |-> <<>>, answers |-> None, size |-> 1]

Init == /\ BudgetInit
        /\ messages = <<Say("system"), Say("user")>>
        /\ phase = "turn"
        /\ request = None
        /\ wire = <<>>
        /\ attempt = 0
        /\ owed = 0
        /\ pending = <<>>
        /\ pause = 0
        /\ sinceStart = Interval
        /\ ended = None
        /\ meter = [requests |-> 0, tokens |-> 0]

---------------------------------------------------------------------------
(* The messages of a request: all of them, or the base, a summary and the  *)
(* newest groups that fit.  A group is an assistant message and everything *)
(* up to the next one.                                                     *)

SizeOf(s) == MapThenSumSet(LAMBDA i : s[i].size, DOMAIN s)

\* Mutant of GroupStarts: the oldest messages are dropped one at a time.
EveryStart == 3 .. Len(messages)

GroupStarts == {i \in DOMAIN messages : messages[i].role = "assistant"}

From(i) == SubSeq(messages, i, Len(messages))

\* _compact_action_group: the results of a group become previews.
Previews(group) == [i \in DOMAIN group |->
    IF group[i].role = "tool" THEN [group[i] EXCEPT !.size = 1] ELSE group[i]]

\* _bounded_messages; None: the base context alone exceeds the limit.
Bounded(limit, trailing) ==
    LET base   == SubSeq(messages, 1, 2) \o <<Say("user")>>
        room   == limit - SizeOf(base \o trailing)
        fits   == {i \in GroupStarts : SizeOf(From(i)) <= room}
        newest == Previews(From(Max(GroupStarts)))
    IN  CASE SizeOf(messages \o trailing) <= limit -> messages \o trailing
          [] OTHER ->
             CASE fits # {} -> base \o From(Min(fits)) \o trailing
               [] fits = {} /\ GroupStarts # {} /\ SizeOf(newest) <= room ->
                    base \o newest \o trailing
               [] OTHER -> IF room >= 0 THEN base \o trailing ELSE None

---------------------------------------------------------------------------
(* ToolCallingAgent.run: asking, and what an exception does to the loop.   *)

AttemptLimit == Min({6, Remaining("modelCalls"), Remaining("retries") + 1})

PreflightFails ==
    \/ Expired
    \/ \E r \in {"managerTurns", "modelCalls", "inputTokens", "outputTokens"} :
           usage[r] >= Limit[r]

\* Mutant of Ends: the calls of the turn are left standing.
EndsMidTurn(reason) == /\ ended' = reason
                       /\ phase' = "turn"
                       /\ request' = None
                       /\ wire' = <<>>
                       /\ attempt' = 0 /\ owed' = 0 /\ pause' = 0
                       /\ UNCHANGED pending

Ends(reason) == /\ ended' = reason
                /\ phase' = "turn"
                /\ request' = None
                /\ pending' = <<>>
                /\ wire' = <<>>
                /\ attempt' = 0 /\ owed' = 0 /\ pause' = 0

Ready == phase = "turn" /\ ended = None

PreflightStops == /\ Ready /\ PreflightFails
                  /\ Ends("SAFETY_LIMIT_REACHED")
                  /\ UNCHANGED <<budgetVars, messages, sinceStart, meter>>

\* _pace_request, after a sleep of delay: what is left to sleep before the
\* next request may start.
Pace(delay) == pause' = Max({delay, Interval - sinceStart})

Notice(shown) == IF shown THEN <<Say("user")>> ELSE <<>>

\* A budget notice may follow the conversation.
Ask == /\ Ready /\ ~PreflightFails
       /\ \E tools \in SUBSET Tool \ {{}}, parallel \in BOOLEAN,
             limit \in ContextLimits, shown \in BOOLEAN :
            LET bounded == Bounded(limit, Notice(shown))
            IN  /\ bounded # None
                /\ wire' = bounded
                /\ request' = [tools |-> tools, parallel |-> parallel,
                               attempts |-> AttemptLimit]
       /\ Pace(0)
       /\ phase' = "pace"
       /\ UNCHANGED <<budgetVars, messages, attempt, owed, pending, sinceStart,
                      ended, meter>>

ContextTooSmall ==
    /\ Ready /\ ~PreflightFails
    /\ \E limit \in ContextLimits, shown \in BOOLEAN :
           Bounded(limit, Notice(shown)) = None
    /\ Ends("RUNTIME_FAILURE")
    /\ UNCHANGED <<budgetVars, messages, sinceStart, meter>>

---------------------------------------------------------------------------
(* ModelClient.complete. *)

Send == /\ phase = "pace" /\ pause = 0
        /\ phase' = "sent"
        /\ attempt' = attempt + 1
        /\ sinceStart' = 0
        /\ meter' = [meter EXCEPT !.requests = @ + 1]
        /\ UNCHANGED <<budgetVars, messages, request, wire, owed, pending, pause,
                       ended>>

\* Mutant of LastAttempt: off by one.
LastAttemptTooLate == attempt > Min({MaxAttempts, request.attempts})

LastAttempt == attempt >= Min({MaxAttempts, request.attempts})

Bill(tokens) == meter' = [meter EXCEPT !.tokens = @ + tokens]

\* A ModelClientError reaches the loop, which charges the attempts and no
\* tokens and raises on; the ledger may refuse even that.
RaiseModelError ==
    LET charge == ModelCall(Manager, 0, 0, 0, attempt - 1)
    IN  /\ UNCHANGED <<messages, sinceStart>>
        /\ \/ Charge(charge) /\ Ends("MODEL_UNAVAILABLE")
           \/ /\ Exceeded(charge)
              /\ Ends("SAFETY_LIMIT_REACHED")
              /\ UNCHANGED budgetVars

\* The same request again, or the request with a correction appended.
TryAgain(delay, correction, tokens) ==
    /\ ~LastAttempt
    /\ phase' = "pace"
    /\ wire' = wire \o correction
    /\ owed' = owed + tokens
    /\ Pace(delay)
    /\ UNCHANGED <<budgetVars, messages, request, attempt, pending, sinceStart, ended>>

\* 2 ^ (attempt - 1)
Doubled == <<1, 2, 4, 8, 16, 32>>

\* _retry_delay
RetryDelay(asked) ==
    Min({MaxDelay, IF asked = None THEN BaseDelay * Doubled[attempt] ELSE asked})

\* A timeout, a connection error or an overloaded provider.
TransientError == /\ phase = "sent"
                  /\ \/ LastAttempt /\ RaiseModelError
                     \/ \E asked \in RetryAfter : TryAgain(RetryDelay(asked), <<>>, 0)
                  /\ UNCHANGED meter

\* A refused request, or through the Anthropic transport a malformed answer.
FatalError == /\ phase = "sent"
              /\ RaiseModelError
              /\ UNCHANGED meter

MalformedAnswer == /\ phase = "sent"
                   /\ \E tokens \in Billed : Bill(tokens)
                   /\ RaiseModelError

\* No text and no call.
EmptyAnswer == /\ phase = "sent"
               /\ \E tokens \in Billed :
                    /\ Bill(tokens)
                    /\ \/ LastAttempt /\ RaiseModelError
                       \/ TryAgain(0, <<Say("user")>>, tokens)

\* The usage of an empty answer is read outside the client's error handling.
EmptyAnswerWithBadUsage == /\ phase = "sent"
                           /\ Ends("RUNTIME_FAILURE")
                           /\ UNCHANGED <<budgetVars, messages, sinceStart, meter>>

---------------------------------------------------------------------------
(* A well-formed answer: its calls, with or without text. *)

Answers == {c \in UNION {[1 .. n -> Call] : n \in 0 .. 2} :
              \A i \in DOMAIN c : c[i].id = i}

Named == Cardinality(request.tools) = 1

\* Mutant of Serialized: the client trusts the provider with the flag.
SerializedByProvider(calls) == calls

\* _serialize_tool_calls
Serialized(calls) ==
    IF request.parallel \/ Len(calls) <= 1 THEN calls
    ELSE LET matching == {i \in DOMAIN calls : Named /\ calls[i].name \in request.tools}
         IN  <<calls[IF matching = {} THEN 1 ELSE Min(matching)]>>

UndeclaredCalls(calls) == {i \in DOMAIN calls : calls[i].name \notin request.tools}

\* Mutant of MeetsContract: only the presence of a call is checked.
MeetsContractLoosely(calls) == calls # <<>>

\* _validate_response_contract for the choices the loop makes: "required", or
\* the name of the only tool.
MeetsContract(calls) == /\ calls # <<>>
                        /\ Named => Len(calls) = 1
                        /\ UndeclaredCalls(calls) = {}

\* _protocol_repair_instruction
Repairable(text, calls) == \/ UndeclaredCalls(calls) # {}
                           \/ calls = <<>> /\ text

Correction(text) == (IF text THEN <<Say("assistant")>> ELSE <<>>) \o <<Say("user")>>

BrokenContract ==
    /\ phase = "sent"
    /\ \E text \in BOOLEAN, answer \in Answers, tokens \in Billed :
         LET calls == Serialized(answer)
         IN  /\ text \/ answer # <<>>
             /\ ~MeetsContract(calls)
             /\ Bill(tokens)
             /\ \/ /\ ~Repairable(text, calls) \/ LastAttempt
                   /\ RaiseModelError
                \/ /\ Repairable(text, calls)
                   /\ TryAgain(0, Correction(text), tokens)

\* Mutant of TurnCharge: the tokens of the answers sent back are forgotten.
TurnChargeOfLastAttempt(tokens) == ModelCall(Manager, tokens, 0, 0, attempt - 1)

\* The turn carries the usage of every answer of the exchange.
TurnCharge(tokens) == ModelCall(Manager, owed + tokens, 0, 0, attempt - 1)

Ids(calls) == [i \in DOMAIN calls |-> calls[i].id]

ReceiveTurn ==
    /\ phase = "sent"
    /\ \E answer \in Answers, tokens \in Billed :
         LET calls == Serialized(answer)
         IN  /\ MeetsContract(calls)
             /\ Bill(tokens)
             /\ Charge(TurnCharge(tokens))
             /\ pending' = calls
             /\ messages' = Append(messages,
                    [Say("assistant") EXCEPT !.calls = Ids(calls)])
    /\ phase' = "tools"
    /\ request' = None /\ wire' = <<>> /\ attempt' = 0 /\ owed' = 0
    /\ UNCHANGED <<pause, sinceStart, ended>>

TurnOverruns ==
    /\ phase = "sent"
    /\ \E tokens \in Billed : Bill(tokens) /\ Exceeded(TurnCharge(tokens))
    /\ Ends("SAFETY_LIMIT_REACHED")
    /\ UNCHANGED <<budgetVars, messages, sinceStart>>

---------------------------------------------------------------------------
(* The conversation as the Anthropic transport sends it: the system prompt *)
(* apart, user and assistant turns of content blocks.                      *)

\* The blocks a message becomes: a text, its calls, or one tool result.
Blocks(m) == IF m.role = "tool" THEN <<[kind |-> "result", id |-> m.answers]>>
             ELSE IF m.calls = <<>> THEN <<[kind |-> "text", id |-> None]>>
             ELSE [k \in DOMAIN m.calls |-> [kind |-> "call", id |-> m.calls[k]]]

Speaker(m) == IF m.role = "assistant" THEN "assistant" ELSE "user"

\* append_message: a message of the same speaker continues the last turn.
AddMessage(turns, m) ==
    IF m.role = "system" THEN turns
    ELSE IF turns # <<>> /\ Last(turns).role = Speaker(m)
    THEN [turns EXCEPT ![Len(turns)].blocks = @ \o Blocks(m)]
    ELSE Append(turns, [role |-> Speaker(m), blocks |-> Blocks(m)])

\* The turns after each of the messages.
TurnsAfter(ms) ==
    LET after[n \in 0 .. Len(ms)] ==
            IF n = 0 THEN <<>> ELSE AddMessage(after[n - 1], ms[n])
    IN  after

AnthropicTurns(ms) == TurnsAfter(ms)[Len(ms)]

---------------------------------------------------------------------------
(* The calls of a turn. *)

\* A call is charged unless it is served from the cache; a terminal one ends
\* the loop and the rest of the turn is not executed.
ExecuteCall ==
    /\ phase = "tools" /\ pending # <<>>
    /\ Charge(ToolCall) \/ UNCHANGED budgetVars
    /\ \E size \in ResultSize :
           messages' = Append(messages, [Say("tool") EXCEPT
                                             !.answers = Head(pending).id, !.size = size])
    /\ \/ pending' = Tail(pending)
          /\ UNCHANGED <<phase, request, wire, attempt, owed, pause, ended>>
       \/ Ends("DECIDED")
    /\ UNCHANGED <<sinceStart, meter>>

ToolBudgetStops == /\ phase = "tools" /\ pending # <<>>
                   /\ Exceeded(ToolCall)
                   /\ Ends("SAFETY_LIMIT_REACHED")
                   /\ UNCHANGED <<budgetVars, messages, sinceStart, meter>>

\* The controller may add a note about duplicates or a rejected candidate.
EndTurn == /\ phase = "tools" /\ pending = <<>>
           /\ phase' = "turn"
           /\ \E noted \in BOOLEAN : messages' = messages \o Notice(noted)
           /\ UNCHANGED <<budgetVars, request, wire, attempt, owed, pending, pause,
                          sinceStart, ended, meter>>

\* Time passes for the client; the ledger's clock has a coarser unit.
TimePasses ==
    /\ ended = None
    /\ pause' = IF pause = 0 THEN 0 ELSE pause - 1
    /\ sinceStart' = Min({Interval, sinceStart + 1})
    /\ elapsed' \in {elapsed} \cup (IF Expired THEN {} ELSE {elapsed + 1})
    /\ UNCHANGED <<usage, messages, phase, request, wire, attempt, owed, pending,
                   ended, meter>>

Next == \/ PreflightStops \/ Ask \/ ContextTooSmall
        \/ Send \/ TransientError \/ FatalError \/ MalformedAnswer
        \/ EmptyAnswer \/ EmptyAnswerWithBadUsage \/ BrokenContract
        \/ ReceiveTurn \/ TurnOverruns
        \/ ExecuteCall \/ ToolBudgetStops \/ EndTurn
        \/ TimePasses

Spec == Init /\ [][Next]_vars

---------------------------------------------------------------------------
(* Properties. *)

TypeOK ==
    /\ BudgetTypeOK
    /\ phase \in {"turn", "pace", "sent", "tools"}
    /\ attempt \in 0 .. 6
    /\ request # None <=> phase \in {"pace", "sent"}
    /\ {owed, pause} \subseteq Nat
    /\ sinceStart \in 0 .. Interval
    /\ pending # <<>> => phase = "tools" /\ ended = None
    /\ ended \in Ending \cup {None}

\* A provider refuses a conversation in which a call and its result do not
\* stand together.  Every call is directly followed by one result per call of
\* its message, in order, and no result stands anywhere else.
WireConversation ==
  /\ \A i \in DOMAIN wire : wire[i].role = "assistant" =>
       \A k \in DOMAIN wire[i].calls :
          /\ i + k \in DOMAIN wire
          /\ wire[i + k].answers = wire[i].calls[k]
  /\ \A j \in DOMAIN wire : wire[j].role = "tool" =>
       \E i \in 1 .. j - 1 : /\ j - i \in DOMAIN wire[i].calls
                             /\ wire[i].calls[j - i] = wire[j].answers

\* The c calls of a turn come last in it, and the next turn begins with their
\* results, in order, and has no other.
Replies(turn, next, c) ==
  /\ c <= Len(turn.blocks)
  /\ \A k \in DOMAIN turn.blocks :
       turn.blocks[k].kind = "call" <=> k > Len(turn.blocks) - c
  /\ \A k \in DOMAIN next.blocks : next.blocks[k].kind = "result" <=> k <= c
  /\ \A k \in 1 .. c : next.blocks[k].id = turn.blocks[Len(turn.blocks) - c + k].id

Without(kind, turn) == \A k \in DOMAIN turn.blocks : turn.blocks[k].kind # kind

\* The Messages API asks for more: user and assistant take turns, the user
\* first, and the results of all calls of a turn come before anything else in
\* the next one.
AnthropicConversation ==
  LET turns == AnthropicTurns(wire)
  IN  /\ turns # <<>>
      /\ \A i \in DOMAIN turns :
           turns[i].role = IF i % 2 = 1 THEN "user" ELSE "assistant"
      /\ Without("result", turns[1]) /\ Without("call", turns[Len(turns)])
      /\ \A i \in 2 .. Len(turns) :
           \E c \in 0 .. Len(turns[i].blocks) : Replies(turns[i - 1], turns[i], c)

\* However the conversation was compacted, repaired or interrupted, what a
\* request carries is one that both kinds of provider accept
\* (agent_loop.py:388-456, model_client.py:376-394, anthropic_transport.py:56).
ConversationsWellFormed ==
    phase = "sent" => WireConversation /\ AnthropicConversation

\* The attempts under way are not in the ledger yet; they fit what it has left
\* all the same, in calls and in retries.  And whenever the loop goes on, the
\* ledger holds every request the provider saw and every token it billed, the
\* answers that were sent back included; after a failed exchange it holds every
\* request, but not the tokens of its answers
\* (model_client.py:193-264, agent_loop.py:187-253).
AttemptsAccounted ==
    /\ phase = "sent" => /\ usage["modelCalls"] + attempt <= Limit["modelCalls"]
                         /\ usage["retries"] + attempt - 1 <= Limit["retries"]
    /\ phase \in {"turn", "tools"} /\ ended \in {None, "DECIDED"} =>
         /\ usage["modelCalls"] = meter.requests
         /\ usage["inputTokens"] = meter.tokens
    /\ ended = "MODEL_UNAVAILABLE" => usage["modelCalls"] = meter.requests

\* To the loop an exchange is the one atomic step of ModelTurns: calls to
\* offered tools, or one failure, all attempts charged together.
Turns == INSTANCE ModelTurns WITH
    offered <- IF request = None THEN None
               ELSE [tools |-> request.tools,
                     several |-> request.parallel /\ ~Named],
    inHand  <- [i \in DOMAIN pending |-> pending[i].name]
ImplementsTurns == Turns!TurnsSpec
=============================================================================
