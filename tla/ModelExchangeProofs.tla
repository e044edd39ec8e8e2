------------------------- MODULE ModelExchangeProofs -------------------------
(***************************************************************************)
(* What holds of the exchanges of an agent with its model for every set of *)
(* tools, every provider, every limit and any number of turns: what they   *)
(* cost is in the ledger, every call has its result on the wire, and the   *)
(* loop may take an exchange to be the one step of ModelTurns.             *)
(***************************************************************************)
EXTENDS ModelExchange, WellFoundedInduction, TLAPS

---------------------------------------------------------------------------
(* Minima and maxima. *)

LEMMA LeastOf ==
    ASSUME NEW S, S \subseteq Nat, S # {}
    PROVE  \E x \in S : \A y \in S : x <= y
<1>1. PICK x \in S : \A y \in S : ~(<<y, x>> \in OpToRel(<, Nat))
  BY WFMin, NatLessThanWellFounded
<1>2. ASSUME NEW y \in S, y < x
      PROVE  FALSE
  <2>1. <<y, x>> \in Nat \X Nat /\ <<y, x>>[1] = y /\ <<y, x>>[2] = x
    OBVIOUS
  <2>2. <<y, x>> \in {pair \in Nat \X Nat : pair[1] < pair[2]}
    BY <1>2, <2>1
  <2>3. <<y, x>> \in OpToRel(<, Nat)
    BY <2>2, Zenon DEF OpToRel
  <2>4. QED
    BY <1>1, <2>3, Zenon
<1>3. QED
  BY <1>2

LEMMA MinIsMember ==
    ASSUME NEW S, S \subseteq Nat, S # {}
    PROVE  Min(S) \in S /\ \A y \in S : Min(S) <= y
BY LeastOf DEF Min

LEMMA MaxIsMember ==
    ASSUME NEW n \in Nat, NEW S, S \subseteq 1 .. n, S # {}
    PROVE  Max(S) \in S
<1> DEFINE T == {n - x : x \in S}
<1>1. T \subseteq Nat /\ T # {}
  OBVIOUS
<1>2. PICK t \in T : \A y \in T : t <= y
  BY <1>1, LeastOf
<1>3. PICK x \in S : t = n - x
  BY <1>2
<1>4. ASSUME NEW y \in S
      PROVE  x >= y
  <2>1. n - y \in T
    OBVIOUS
  <2>2. t <= n - y
    BY <1>2, <2>1
  <2>3. QED
    BY <1>3, <2>2
<1>5. QED
  BY <1>4 DEF Max

LEMMA MinOfTwo ==
    ASSUME NEW a \in Int, NEW b \in Int
    PROVE  Min({a, b}) \in {a, b} /\ Min({a, b}) <= a /\ Min({a, b}) <= b
BY DEF Min

LEMMA MinOfThree ==
    ASSUME NEW a \in Int, NEW b \in Int, NEW c \in Int
    PROVE  LET least == Min({a, b, c})
           IN  least \in {a, b, c} /\ least <= a /\ least <= b /\ least <= c
BY DEF Min

LEMMA MaxOfTwo ==
    ASSUME NEW a \in Int, NEW b \in Int
    PROVE  Max({a, b}) \in {a, b} /\ Max({a, b}) >= a /\ Max({a, b}) >= b
BY DEF Max

---------------------------------------------------------------------------
(* The ledger. *)

\* What an exchange is charged, and what it leaves alone.
LEMMA ExchangeCharge ==
    ASSUME NEW tokens \in Nat, NEW n \in Nat
    PROVE  /\ ModelCall(Manager, tokens, 0, 0, n) \in [Resource -> Nat]
           /\ ModelCall(Manager, tokens, 0, 0, n)["modelCalls"] = 1 + n
           /\ ModelCall(Manager, tokens, 0, 0, n)["inputTokens"] = tokens
           /\ ModelCall(Manager, tokens, 0, 0, n)["retries"] = n
BY DEF ModelCall, NoCharge, Resource, TurnResource, Manager

LEMMA ToolCharge ==
    /\ ToolCall \in [Resource -> Nat]
    /\ ToolCall["modelCalls"] = 0
    /\ ToolCall["inputTokens"] = 0
BY DEF ToolCall, NoCharge, Resource

Ledger == BudgetTypeOK /\ WithinLimits

LEMMA Charged ==
    ASSUME Ledger, NEW charge \in [Resource -> Nat], Charge(charge)
    PROVE  /\ Ledger' /\ UNCHANGED elapsed
           /\ \A r \in Resource : /\ usage'[r] = usage[r] + charge[r]
                                  /\ usage[r] + charge[r] <= Limit[r]
<1>1. usage' \in [Resource -> Nat] /\ elapsed' = elapsed
  BY DEF Charge, Plus, Ledger, BudgetTypeOK
<1>2. \A r \in Resource : usage[r] + charge[r] <= Limit[r]
  BY LimitAssumption DEF Charge, Exceeded, Ledger, BudgetTypeOK
<1>3. \A r \in Resource : usage'[r] = usage[r] + charge[r]
  BY DEF Charge, Plus
<1>4. QED
  BY <1>1, <1>2, <1>3 DEF Ledger, BudgetTypeOK, WithinLimits

---------------------------------------------------------------------------
(* Conversations. *)

Message == [role : {"system", "user", "assistant", "tool"}, calls : Seq(1 .. 2),
            answers : (1 .. 2) \cup {None}, size : Nat]

\* The calls of the message at i are answered by the messages behind it.
Answered(s, i) ==
    \A k \in DOMAIN s[i].calls : /\ i + k \in DOMAIN s
                                 /\ s[i + k].role = "tool"
                                 /\ s[i + k].answers = s[i].calls[k]

\* The message at j answers a call before it.
Called(s, j) ==
    \E i \in 1 .. j - 1 : /\ j - i \in DOMAIN s[i].calls
                          /\ s[i].calls[j - i] = s[j].answers

Paired(s) ==
    /\ \A i \in DOMAIN s : Answered(s, i)
    /\ \A i \in DOMAIN s : s[i].role # "assistant" => s[i].calls = <<>>
    /\ \A j \in DOMAIN s : s[j].role = "tool" => Called(s, j)

LEMMA CallsAreSequence ==
    ASSUME NEW s \in Seq(Message), NEW i \in DOMAIN s
    PROVE  /\ s[i].calls \in Seq(1 .. 2)
           /\ Len(s[i].calls) \in Nat
           /\ DOMAIN s[i].calls = 1 .. Len(s[i].calls)
<1>1. s[i] \in Message
  OBVIOUS
<1>2. s[i].calls \in Seq(1 .. 2)
  BY <1>1 DEF Message
<1>3. QED
  BY <1>2

\* Two conversations that differ in the sizes of their messages only.
SameBut(s, t) ==
    /\ DOMAIN s = DOMAIN t
    /\ \A i \in DOMAIN s : /\ s[i].role = t[i].role
                           /\ s[i].calls = t[i].calls
                           /\ s[i].answers = t[i].answers

LEMMA SizeDoesNotMatter ==
    ASSUME NEW s \in Seq(Message), NEW t \in Seq(Message), SameBut(s, t), Paired(s)
    PROVE  Paired(t)
<1>1. DOMAIN s = 1 .. Len(s) /\ DOMAIN t = 1 .. Len(s) /\ Len(s) \in Nat
  BY DEF SameBut
<1>2. ASSUME NEW i \in DOMAIN t
      PROVE  Answered(t, i)
  BY <1>1 DEF SameBut, Paired, Answered
<1>3. ASSUME NEW j \in DOMAIN t, t[j].role = "tool"
      PROVE  Called(t, j)
  <2>1. Called(s, j)
    BY <1>3 DEF SameBut, Paired
  <2>2. PICK i \in 1 .. j - 1 : j - i \in DOMAIN s[i].calls /\ s[i].calls[j - i] = s[j].answers
    BY <2>1 DEF Called
  <2>3. i \in DOMAIN s /\ j \in DOMAIN s
    BY <1>1, <1>3
  <2>4. QED
    BY <2>2, <2>3 DEF SameBut, Called
<1>4. \A i \in DOMAIN t : t[i].role # "assistant" => t[i].calls = <<>>
  BY DEF SameBut, Paired
<1>5. QED
  BY <1>2, <1>3, <1>4 DEF Paired

\* One conversation after the other.
LEMMA PairedTogether ==
    ASSUME NEW s \in Seq(Message), NEW t \in Seq(Message), Paired(s), Paired(t)
    PROVE  Paired(s \o t)
<1>a. \A i \in DOMAIN s : \A k \in DOMAIN s[i].calls : k \in Nat
  BY CallsAreSequence
<1>b. \A i \in DOMAIN t : \A k \in DOMAIN t[i].calls : k \in Nat
  BY CallsAreSequence
<1> DEFINE u == s \o t
           m == Len(s)
           n == Len(t)
<1>1. /\ m \in Nat /\ n \in Nat /\ DOMAIN s = 1 .. m /\ DOMAIN t = 1 .. n
      /\ DOMAIN u = 1 .. (m + n)
      /\ \A i \in 1 .. m : u[i] = s[i]
      /\ \A i \in 1 .. n : u[m + i] = t[i]
  OBVIOUS
<1>2. \A i \in DOMAIN u \ (1 .. m) : i - m \in 1 .. n /\ u[i] = t[i - m]
  <2>1. SUFFICES ASSUME NEW i \in (m + 1) .. (m + n)
                 PROVE  i - m \in 1 .. n /\ u[i] = t[i - m]
    BY <1>1
  <2>2. i - m \in 1 .. n /\ i = m + (i - m)
    BY <1>1
  <2>3. QED
    BY <1>1, <2>2
<1>3. /\ \A i \in 1 .. m : \A k \in DOMAIN s[i].calls : k \in Nat
      /\ \A i \in 1 .. n : \A k \in DOMAIN t[i].calls : k \in Nat
  BY <1>1, <1>a, <1>b
<1> HIDE DEF u, m, n
<1>4. ASSUME NEW i \in DOMAIN u
      PROVE  Answered(u, i) /\ (u[i].role # "assistant" => u[i].calls = <<>>)
  <2>1. CASE i \in 1 .. m
    <3>1. Answered(s, i) /\ u[i] = s[i] /\ (s[i].role # "assistant" => s[i].calls = <<>>)
      BY <1>1, <2>1 DEF Paired
    <3>2. ASSUME NEW k \in DOMAIN u[i].calls
          PROVE  i + k \in DOMAIN u /\ u[i + k].role = "tool" /\ u[i + k].answers = u[i].calls[k]
      <4>1. i + k \in 1 .. m /\ s[i + k].role = "tool" /\ s[i + k].answers = s[i].calls[k]
        BY <1>1, <3>1 DEF Answered
      <4>2. QED
        BY <1>1, <3>1, <4>1
    <3>3. QED
      BY <3>1, <3>2 DEF Answered
  <2>2. CASE i \notin 1 .. m
    <3> DEFINE j == i - m
    <3>1. j \in 1 .. n /\ u[i] = t[j] /\ i = m + j
      BY <1>1, <1>2, <2>2
    <3>2. Answered(t, j) /\ (t[j].role # "assistant" => t[j].calls = <<>>)
      BY <1>1, <3>1 DEF Paired
    <3> HIDE DEF j
    <3>3. ASSUME NEW k \in DOMAIN u[i].calls
          PROVE  i + k \in DOMAIN u /\ u[i + k].role = "tool" /\ u[i + k].answers = u[i].calls[k]
      <4>1. j + k \in 1 .. n /\ t[j + k].role = "tool" /\ t[j + k].answers = t[j].calls[k]
        BY <1>1, <3>1, <3>2 DEF Answered
      <4>2. k \in Nat /\ i + k = m + (j + k)
        BY <1>1, <1>3, <3>1
      <4>3. u[i + k] = t[j + k] /\ i + k \in DOMAIN u
        BY <1>1, <4>1, <4>2
      <4>4. QED
        BY <3>1, <4>1, <4>3
    <3>4. QED
      BY <3>1, <3>2, <3>3 DEF Answered
  <2>3. QED
    BY <2>1, <2>2
<1>5. ASSUME NEW j \in DOMAIN u, u[j].role = "tool"
      PROVE  Called(u, j)
  <2>1. CASE j \in 1 .. m
    <3>1. Called(s, j)
      BY <1>1, <1>5, <2>1 DEF Paired
    <3>2. PICK i \in 1 .. j - 1 : j - i \in DOMAIN s[i].calls /\ s[i].calls[j - i] = s[j].answers
      BY <3>1 DEF Called
    <3>3. u[i] = s[i] /\ u[j] = s[j]
      BY <1>1, <2>1
    <3>4. QED
      BY <3>2, <3>3 DEF Called
  <2>2. CASE j \notin 1 .. m
    <3>1. j - m \in 1 .. n /\ u[j] = t[j - m]
      BY <1>2, <2>2
    <3>2. PICK i \in 1 .. (j - m) - 1 : /\ (j - m) - i \in DOMAIN t[i].calls
                                        /\ t[i].calls[(j - m) - i] = t[j - m].answers
      BY <1>1, <1>5, <3>1 DEF Paired, Called
    <3>3. /\ i \in 1 .. n /\ u[m + i] = t[i]
          /\ m + i \in 1 .. j - 1 /\ (j - m) - i = j - (m + i)
      BY <1>1, <3>1, <3>2
    <3>4. QED
      BY <3>1, <3>2, <3>3 DEF Called
  <2>3. QED
    BY <2>1, <2>2
<1>6. QED
  BY <1>4, <1>5 DEF Paired, u

\* A conversation may be cut before an answer of the model.
LEMMA PairedFromAnswer ==
    ASSUME NEW s \in Seq(Message), Paired(s),
           NEW first \in DOMAIN s, s[first].role = "assistant"
    PROVE  /\ SubSeq(s, first, Len(s)) \in Seq(Message)
           /\ Paired(SubSeq(s, first, Len(s)))
<1> DEFINE u == SubSeq(s, first, Len(s))
           n == Len(s)
           m == first - 1
<1>1. /\ n \in Nat /\ m \in Nat /\ first = m + 1 /\ DOMAIN s = 1 .. n
      /\ u \in Seq(Message) /\ DOMAIN u = 1 .. (n - m)
      /\ \A i \in 1 .. (n - m) : u[i] = s[m + i]
  OBVIOUS
<1>2. \A i \in 1 .. n : \A k \in DOMAIN s[i].calls : k \in Nat \ {0}
  BY <1>1, CallsAreSequence
<1> HIDE DEF u, n, m
<1>3. ASSUME NEW i \in DOMAIN u
      PROVE  Answered(u, i) /\ (u[i].role # "assistant" => u[i].calls = <<>>)
  <2>1. m + i \in 1 .. n /\ u[i] = s[m + i]
    BY <1>1
  <2>2. Answered(s, m + i) /\ (s[m + i].role # "assistant" => s[m + i].calls = <<>>)
    BY <1>1, <2>1 DEF Paired
  <2>3. ASSUME NEW k \in DOMAIN u[i].calls
        PROVE  i + k \in DOMAIN u /\ u[i + k].role = "tool" /\ u[i + k].answers = u[i].calls[k]
    <3>1. /\ (m + i) + k \in 1 .. n /\ s[(m + i) + k].role = "tool"
          /\ s[(m + i) + k].answers = s[m + i].calls[k]
      BY <1>1, <2>1, <2>2 DEF Answered
    <3>2. k \in Nat \ {0} /\ (m + i) + k = m + (i + k) /\ i + k \in 1 .. (n - m)
      BY <1>1, <1>2, <2>1, <3>1
    <3>3. QED
      BY <1>1, <2>1, <3>1, <3>2
  <2>4. QED
    BY <2>1, <2>2, <2>3 DEF Answered
<1>4. ASSUME NEW j \in DOMAIN u, u[j].role = "tool"
      PROVE  Called(u, j)
  <2>1. m + j \in 1 .. n /\ u[j] = s[m + j]
    BY <1>1
  <2>2. PICK i \in 1 .. (m + j) - 1 : /\ (m + j) - i \in DOMAIN s[i].calls
                                      /\ s[i].calls[(m + j) - i] = s[m + j].answers
    BY <1>1, <1>4, <2>1 DEF Paired, Called
  <2>3. i \in 1 .. n /\ Answered(s, i)
    <3>1. i \in 1 .. n
      BY <1>1, <2>1
    <3>2. QED
      BY <1>1, <3>1 DEF Paired
  <2>4. i >= first
    <3>1. SUFFICES ASSUME i < first
                   PROVE  FALSE
      BY <1>1, <2>2
    <3>2. PICK c : c = s[i].calls
      OBVIOUS
    <3>3. c \in Seq(1 .. 2) /\ DOMAIN c = 1 .. Len(c) /\ Len(c) \in Nat
      BY <1>1, <2>3, <3>2, CallsAreSequence
    <3>4. first - i \in DOMAIN c
      BY <1>1, <2>1, <2>2, <3>1, <3>2, <3>3
    <3>5. s[i + (first - i)].role = "tool"
      BY <2>3, <3>2, <3>4 DEF Answered
    <3>6. i + (first - i) = first
      BY <1>1, <2>3
    <3>7. QED
      BY <3>5, <3>6
  <2>5. /\ i - m \in 1 .. (n - m) /\ i = m + (i - m) /\ u[i - m] = s[i]
        /\ i - m \in 1 .. j - 1 /\ (m + j) - i = j - (i - m)
    BY <1>1, <2>1, <2>2, <2>3, <2>4
  <2>6. QED
    BY <2>1, <2>2, <2>5 DEF Called
<1>5. QED
  BY <1>1, <1>3, <1>4 DEF Paired, u, n

---------------------------------------------------------------------------
(* The account of an exchange. *)

Clocks == /\ owed \in Nat
          /\ pause \in Nat
          /\ sinceStart \in 0 .. Interval

Most == Min({MaxAttempts, request.attempts})

\* What an exchange may still do, by the phase it is in.
Exchange ==
    /\ phase \in {"turn", "pace", "sent", "tools"}
    /\ ended \in Ending \cup {None}
    /\ phase # "turn" => ended = None
    /\ phase \in {"turn", "tools"} => request = None /\ attempt = 0 /\ owed = 0
    /\ phase \in {"pace", "sent"} => /\ request \in Request
                                     /\ request.attempts <= Remaining("modelCalls")
                                     /\ request.attempts - 1 <= Remaining("retries")
    /\ phase = "pace" => attempt \in 0 .. (Most - 1)
    /\ phase = "sent" => attempt \in 1 .. Most
    /\ phase # "tools" => pending = <<>>
    /\ pending \in Seq(Call)

\* What the ledger lacks of what the provider saw: the exchange under way.
Metered ==
    /\ meter \in [requests : Nat, tokens : Nat]
    /\ phase \in {"pace", "sent"} => /\ meter.requests = usage["modelCalls"] + attempt
                                     /\ meter.tokens = usage["inputTokens"] + owed
    /\ phase \in {"turn", "tools"} /\ ended \in {None, "DECIDED"} =>
          /\ meter.requests = usage["modelCalls"]
          /\ meter.tokens = usage["inputTokens"]
    /\ ended = "MODEL_UNAVAILABLE" => meter.requests = usage["modelCalls"]

Account == Ledger /\ Clocks /\ Exchange /\ Metered

LEMMA Endings ==
    /\ None \notin Ending /\ None \notin Request
    /\ None # "SAFETY_LIMIT_REACHED" /\ None # "RUNTIME_FAILURE"
    /\ None # "MODEL_UNAVAILABLE" /\ None # "DECIDED"
BY ExchangeAssumption DEF Ending

LEMMA Counted ==
    ASSUME Ledger
    PROVE  /\ usage["modelCalls"] \in Nat /\ usage["inputTokens"] \in Nat
           /\ usage["retries"] \in Nat
           /\ Limit["modelCalls"] \in Nat /\ Limit["retries"] \in Nat
           /\ usage["modelCalls"] <= Limit["modelCalls"]
           /\ usage["retries"] <= Limit["retries"]
BY LimitAssumption DEF Ledger, BudgetTypeOK, WithinLimits, Resource

LEMMA MostAttempts ==
    ASSUME request \in Request
    PROVE  /\ Most \in 1 .. 6 /\ Most <= request.attempts
           /\ Min({MaxAttempts, request.attempts}) = Most
           /\ request.attempts \in 1 .. 6
<1>1. request.attempts \in 1 .. 6 /\ MaxAttempts \in 1 .. 6
  BY ExchangeAssumption DEF Request
<1>2. PICK a \in 1 .. 6, b \in 1 .. 6 : a = MaxAttempts /\ b = request.attempts
  BY <1>1
<1>3. Min({a, b}) \in 1 .. 6 /\ Min({a, b}) <= b
  <2>1. a \in Int /\ b \in Int
    OBVIOUS
  <2>2. Min({a, b}) \in {a, b} /\ Min({a, b}) <= b
    BY <2>1, MinOfTwo, Zenon
  <2>3. QED
    BY <2>2
<1>4. Min({MaxAttempts, request.attempts}) = Most /\ Min({a, b}) = Most
  BY <1>2, Zenon DEF Most
<1>5. QED
  BY <1>1, <1>2, <1>3, <1>4

LEMMA AccountStart == Init => Account
<1>1. SUFFICES ASSUME Init
               PROVE  Account
  OBVIOUS
<1>2. Ledger
  BY <1>1, LimitAssumption DEF Init, BudgetInit, Ledger, BudgetTypeOK, WithinLimits
<1>3. Clocks
  BY <1>1, ExchangeAssumption DEF Init, Clocks
<1>4. Exchange
  BY <1>1 DEF Init, Exchange
<1>5. Metered
  BY <1>1, Endings DEF Init, BudgetInit, Metered, Resource
<1>6. QED
  BY <1>2, <1>3, <1>4, <1>5 DEF Account

LEMMA BudgetStays ==
    ASSUME Ledger, UNCHANGED budgetVars
    PROVE  Ledger' /\ UNCHANGED <<usage, elapsed>>
BY DEF Ledger, BudgetTypeOK, WithinLimits, budgetVars

LEMMA Billing ==
    ASSUME Metered, NEW tokens \in Nat, Bill(tokens)
    PROVE  /\ meter' \in [requests : Nat, tokens : Nat]
           /\ meter'.requests = meter.requests
           /\ meter'.tokens = meter.tokens + tokens
BY DEF Metered, Bill

\* The loop ends with an exception that is not the client's.
LEMMA StopKeepsAccount ==
    ASSUME Account, NEW reason \in {"SAFETY_LIMIT_REACHED", "RUNTIME_FAILURE"},
           Ends(reason), UNCHANGED budgetVars, UNCHANGED sinceStart,
           meter' \in [requests : Nat, tokens : Nat]
    PROVE  Account'
<1>1. Ledger' /\ usage' = usage
  BY BudgetStays DEF Account
<1>2. Clocks'
  BY DEF Account, Clocks, Ends
<1>3. Exchange'
  BY Endings DEF Ends, Exchange, Ending
<1>4. Metered'
  BY Endings DEF Ends, Metered
<1>5. QED
  BY <1>1, <1>2, <1>3, <1>4 DEF Account

\* The client's error ends the exchange; its attempts are charged.
LEMMA ErrorKeepsAccount ==
    ASSUME Account, phase = "sent", RaiseModelError,
           meter' \in [requests : Nat, tokens : Nat], meter'.requests = meter.requests
    PROVE  Account'
<1> DEFINE charge == ModelCall(Manager, 0, 0, 0, attempt - 1)
<1>1. attempt \in Nat /\ attempt >= 1 /\ sinceStart' = sinceStart
  BY MostAttempts DEF Account, Exchange, RaiseModelError
<1>2. CASE Charge(charge) /\ Ends("MODEL_UNAVAILABLE")
  <2>1. /\ charge \in [Resource -> Nat] /\ charge["modelCalls"] = attempt
    <3>1. PICK n \in Nat : n = attempt - 1
      BY <1>1
    <3>2. PICK c : c = ModelCall(Manager, 0, 0, 0, n)
      OBVIOUS
    <3>3. c = charge
      BY <3>1, <3>2, Zenon
    <3>4. c \in [Resource -> Nat] /\ c["modelCalls"] = 1 + n
      <4>1. 0 \in Nat
        OBVIOUS
      <4>2. QED
        BY <3>2, <4>1, ExchangeCharge, Zenon
    <3> HIDE DEF charge
    <3>5. QED
      BY <1>1, <3>1, <3>3, <3>4
  <2> HIDE DEF charge
  <2>2. Ledger' /\ usage'["modelCalls"] = usage["modelCalls"] + attempt
    BY <1>2, <2>1, Charged DEF Account, Resource
  <2>3. Clocks'
    BY <1>1, <1>2 DEF Account, Clocks, Ends
  <2>4. Exchange'
    BY <1>2, Endings DEF Ends, Exchange, Ending
  <2>5. Metered'
    BY <1>2, <2>2, Endings DEF Account, Ends, Metered
  <2>6. QED
    BY <2>2, <2>3, <2>4, <2>5 DEF Account
<1>3. CASE Ends("SAFETY_LIMIT_REACHED") /\ UNCHANGED budgetVars
  BY <1>1, <1>3, StopKeepsAccount
<1>4. QED
  BY <1>2, <1>3 DEF RaiseModelError

LEMMA Paced ==
    ASSUME Clocks, NEW delay \in Nat, Pace(delay)
    PROVE  pause' \in Nat
<1>1. Interval - sinceStart \in Nat
  BY ExchangeAssumption DEF Clocks
<1>2. PICK rest \in Nat : rest = Interval - sinceStart
  BY <1>1
<1>3. Max({delay, rest}) \in Nat
  <2>1. delay \in Int /\ rest \in Int
    OBVIOUS
  <2>2. Max({delay, rest}) \in {delay, rest}
    BY <2>1, MaxOfTwo, Zenon
  <2>3. QED
    BY <2>2
<1>4. QED
  BY <1>2, <1>3, Zenon DEF Pace

\* The client sends the request once more.
LEMMA RetryKeepsAccount ==
    ASSUME Account, phase = "sent", NEW delay \in Nat, NEW correction, NEW tokens \in Nat,
           TryAgain(delay, correction, tokens),
           meter' \in [requests : Nat, tokens : Nat], meter'.requests = meter.requests,
           meter'.tokens = meter.tokens + tokens
    PROVE  Account'
<1>1. /\ request \in Request /\ attempt \in 1 .. Most /\ Most \in 1 .. 6
      /\ Min({MaxAttempts, request.attempts}) = Most
  BY MostAttempts DEF Account, Exchange
<1>2. attempt < Most /\ phase' = "pace" /\ owed' = owed + tokens /\ Pace(delay)
      /\ UNCHANGED <<request, attempt, pending, sinceStart, ended>>
  BY <1>1 DEF TryAgain, LastAttempt
<1>3. Ledger' /\ usage' = usage
  BY BudgetStays DEF Account, TryAgain
<1>4. Clocks'
  BY <1>2, Paced DEF Account, Clocks
<1>5. Most' = Most /\ Remaining("modelCalls")' = Remaining("modelCalls")
      /\ Remaining("retries")' = Remaining("retries")
  BY <1>2, <1>3 DEF Most, Remaining
<1>6. Exchange'
  BY <1>1, <1>2, <1>5 DEF Account, Exchange
<1>7. owed \in Nat /\ meter.tokens \in Nat /\ usage["inputTokens"] \in Nat
  BY Counted DEF Account, Clocks, Metered
<1>8. Metered'
  BY <1>2, <1>3, <1>7, Endings DEF Account, Exchange, Metered
<1>9. QED
  BY <1>3, <1>4, <1>6, <1>8 DEF Account

---------------------------------------------------------------------------
(* The steps of an exchange. *)

LEMMA AnswersAreCalls ==
    ASSUME NEW answer \in Answers
    PROVE  answer \in Seq(Call) /\ Len(answer) \in 0 .. 2 /\ DOMAIN answer = 1 .. Len(answer)
<1>1. PICK n \in 0 .. 2 : answer \in [1 .. n -> Call]
  BY DEF Answers
<1>2. QED
  BY <1>1

\* What is left of an answer is a sequence of its calls; one, unless the request
\* allows several.
LEMMA SerializedCalls ==
    ASSUME request \in Request, NEW answer \in Answers
    PROVE  /\ Serialized(answer) \in Seq(Call)
           /\ ~request.parallel => Len(Serialized(answer)) <= 1
<1>1. /\ answer \in Seq(Call) /\ Len(answer) \in 0 .. 2 /\ DOMAIN answer = 1 .. Len(answer)
  BY AnswersAreCalls
<1>2. CASE request.parallel \/ Len(answer) <= 1
  BY <1>1, <1>2 DEF Serialized
<1>3. CASE ~(request.parallel \/ Len(answer) <= 1)
  <2> DEFINE matching == {i \in DOMAIN answer : Named /\ answer[i].name \in request.tools}
             chosen == IF matching = {} THEN 1 ELSE Min(matching)
  <2>1. matching \subseteq DOMAIN answer /\ matching \subseteq Nat
    BY <1>1
  <2>2. Serialized(answer) = <<answer[chosen]>>
    BY <1>3 DEF Serialized
  <2> HIDE DEF matching
  <2>3. chosen \in DOMAIN answer
    BY <1>1, <1>3, <2>1, MinIsMember
  <2> HIDE DEF chosen
  <2>4. answer[chosen] \in Call
    BY <1>1, <2>3
  <2>5. QED
    BY <2>2, <2>4
<1>4. QED
  BY <1>2, <1>3

LEMMA AskStep ==
    ASSUME Account, Ask
    PROVE  Account'
<1>1. /\ phase = "turn" /\ ended = None /\ phase' = "pace" /\ Pace(0)
      /\ UNCHANGED <<usage, elapsed, messages, attempt, owed, pending, sinceStart, ended, meter>>
  BY DEF Ask, Ready, budgetVars
<1>2. PICK tools \in SUBSET Tool \ {{}}, parallel \in BOOLEAN :
         request' = [tools |-> tools, parallel |-> parallel, attempts |-> AttemptLimit]
  BY DEF Ask
<1>3. ~PreflightFails
  BY DEF Ask
<1>4. usage["modelCalls"] < Limit["modelCalls"]
  BY <1>3, Counted DEF PreflightFails, Account
<1>5. PICK calls \in Nat \ {0}, retries \in Nat :
         calls = Remaining("modelCalls") /\ retries = Remaining("retries")
  BY <1>4, Counted DEF Remaining, Account
<1>6. /\ Min({6, calls, retries + 1}) \in {6, calls, retries + 1}
      /\ Min({6, calls, retries + 1}) <= 6 /\ Min({6, calls, retries + 1}) <= calls
      /\ Min({6, calls, retries + 1}) <= retries + 1
  <2>1. 6 \in Int /\ calls \in Int /\ retries + 1 \in Int
    OBVIOUS
  <2>2. QED
    BY <2>1, MinOfThree, Zenon
<1>7. AttemptLimit = Min({6, calls, retries + 1})
  BY <1>5, Zenon DEF AttemptLimit
<1>8. /\ AttemptLimit \in 1 .. 6 /\ AttemptLimit <= Remaining("modelCalls")
      /\ AttemptLimit - 1 <= Remaining("retries")
  BY <1>5, <1>6, <1>7
<1>9. request' \in Request /\ request'.attempts = AttemptLimit
  BY <1>2, <1>8 DEF Request
<1>10. Most' \in 1 .. 6
  <2>1. PICK a \in 1 .. 6, b \in 1 .. 6 : a = MaxAttempts /\ b = request'.attempts
    BY <1>8, <1>9, ExchangeAssumption
  <2>2. a \in Int /\ b \in Int
    OBVIOUS
  <2>3. Min({a, b}) \in {a, b}
    BY <2>2, MinOfTwo, Zenon
  <2>4. Most' = Min({a, b})
    BY <2>1, Zenon DEF Most
  <2>5. QED
    BY <2>3, <2>4
<1>11. Remaining("modelCalls")' = Remaining("modelCalls")
       /\ Remaining("retries")' = Remaining("retries")
  BY <1>1 DEF Remaining
<1>12. Ledger'
  BY <1>1 DEF Account, Ledger, BudgetTypeOK, WithinLimits
<1>13. Clocks'
  BY <1>1, Paced DEF Account, Clocks
<1>14. attempt = 0 /\ owed = 0 /\ pending = <<>>
  BY <1>1 DEF Account, Exchange
<1>15. Exchange'
  <2>1. /\ request'.attempts <= Remaining("modelCalls")'
        /\ request'.attempts - 1 <= Remaining("retries")'
    BY <1>8, <1>9, <1>11
  <2>2. attempt' \in 0 .. (Most' - 1)
    <3>1. PICK m \in 1 .. 6 : m = Most'
      BY <1>10
    <3>2. 0 \in 0 .. (m - 1)
      OBVIOUS
    <3>3. attempt' = 0
      BY <1>1, <1>14
    <3>4. QED
      BY <3>1, <3>2, <3>3, Zenon
  <2>3. pending' \in Seq(Call) /\ pending' = <<>>
    BY <1>1, <1>14
  <2>4. QED
    BY <1>1, <1>9, <2>1, <2>2, <2>3 DEF Exchange
<1>16. Metered'
  BY <1>1, <1>14, Counted, Endings DEF Account, Metered
<1>17. QED
  BY <1>12, <1>13, <1>15, <1>16 DEF Account

LEMMA SendStep ==
    ASSUME Account, Send
    PROVE  Account'
<1>1. /\ phase = "pace" /\ phase' = "sent" /\ attempt' = attempt + 1 /\ sinceStart' = 0
      /\ meter' = [meter EXCEPT !.requests = @ + 1]
      /\ UNCHANGED <<usage, elapsed, request, wire, owed, pending, pause, ended>>
  BY DEF Send, budgetVars
<1>2. /\ request \in Request /\ attempt \in 0 .. (Most - 1) /\ Most \in 1 .. 6 /\ Most' = Most
      /\ Remaining("modelCalls")' = Remaining("modelCalls")
      /\ Remaining("retries")' = Remaining("retries")
  BY <1>1, MostAttempts DEF Account, Exchange, Most, Remaining
<1>3. Ledger'
  BY <1>1 DEF Account, Ledger, BudgetTypeOK, WithinLimits
<1>4. Clocks'
  BY <1>1, ExchangeAssumption DEF Account, Clocks
<1>5. Exchange'
  BY <1>1, <1>2 DEF Account, Exchange
<1>6. /\ meter'.requests = meter.requests + 1 /\ meter'.tokens = meter.tokens
      /\ meter' \in [requests : Nat, tokens : Nat]
  BY <1>1 DEF Account, Metered
<1>7. /\ meter.requests = usage["modelCalls"] + attempt
      /\ meter.tokens = usage["inputTokens"] + owed
      /\ ended = None /\ usage["modelCalls"] \in Nat /\ attempt \in Nat
  BY <1>1, <1>2, Counted DEF Account, Exchange, Metered
<1>8. /\ meter'.requests = usage'["modelCalls"] + attempt'
      /\ meter'.tokens = usage'["inputTokens"] + owed'
  BY <1>1, <1>6, <1>7
<1>9. Metered'
  BY <1>1, <1>6, <1>7, <1>8, Endings DEF Metered
<1>10. QED
  BY <1>3, <1>4, <1>5, <1>9 DEF Account

LEMMA DelayIsNatural ==
    ASSUME Account, phase = "sent", NEW asked \in RetryAfter
    PROVE  RetryDelay(asked) \in Nat
<1>1. attempt \in 1 .. 6
  BY MostAttempts DEF Account, Exchange
<1>2. Doubled[attempt] \in Nat
  BY <1>1 DEF Doubled
<1> DEFINE raw == IF asked = None THEN BaseDelay * Doubled[attempt] ELSE asked
<1>3. raw \in Nat
  <2>1. CASE asked = None
    BY <1>2, <2>1, ExchangeAssumption
  <2>2. CASE asked # None
    BY <2>2, ExchangeAssumption
  <2>3. QED
    BY <2>1, <2>2
<1>4. PICK a \in Nat, b \in Nat : a = MaxDelay /\ b = raw
  BY <1>3, ExchangeAssumption
<1>5. a \in Int /\ b \in Int
  OBVIOUS
<1>6. Min({a, b}) \in {a, b}
  BY <1>5, MinOfTwo, Zenon
<1>7. RetryDelay(asked) = Min({a, b})
  BY <1>4, Zenon DEF RetryDelay
<1>8. QED
  BY <1>6, <1>7

\* The exchange fails or is tried again; a step of the client.
LEMMA ClientStep ==
    ASSUME Account, TransientError \/ FatalError \/ MalformedAnswer \/ EmptyAnswer
                    \/ EmptyAnswerWithBadUsage \/ BrokenContract
    PROVE  Account'
<1>1. meter \in [requests : Nat, tokens : Nat] /\ \A tokens \in Billed : tokens \in Nat
  BY ExchangeAssumption DEF Account, Metered
<1>2. CASE TransientError
  <2>1. CASE RaiseModelError
    BY <1>1, <1>2, <2>1, ErrorKeepsAccount DEF TransientError
  <2>2. ASSUME NEW asked \in RetryAfter, TryAgain(RetryDelay(asked), <<>>, 0)
        PROVE  Account'
    <3>1. phase = "sent" /\ meter' = meter /\ meter.tokens + 0 = meter.tokens
      BY <1>1, <1>2 DEF TransientError
    <3>2. PICK delay \in Nat : delay = RetryDelay(asked)
      BY <3>1, DelayIsNatural
    <3>3. TryAgain(delay, <<>>, 0)
      BY <2>2, <3>2, Zenon
    <3>4. QED
      BY <1>1, <3>1, <3>3, RetryKeepsAccount
  <2>3. QED
    BY <1>2, <2>1, <2>2 DEF TransientError
<1>3. CASE FatalError
  BY <1>1, <1>3, ErrorKeepsAccount DEF FatalError
<1>4. CASE MalformedAnswer
  BY <1>1, <1>4, Billing, ErrorKeepsAccount DEF MalformedAnswer, Account
<1>5. CASE EmptyAnswer
  <2>1. PICK tokens \in Nat : /\ Bill(tokens) /\ phase = "sent"
                              /\ RaiseModelError \/ TryAgain(0, <<Say("user")>>, tokens)
    BY <1>1, <1>5 DEF EmptyAnswer
  <2>2. QED
    BY <2>1, Billing, ErrorKeepsAccount, RetryKeepsAccount DEF Account
<1>6. CASE EmptyAnswerWithBadUsage
  BY <1>1, <1>6, StopKeepsAccount DEF EmptyAnswerWithBadUsage
<1>7. CASE BrokenContract
  <2>1. PICK text \in BOOLEAN, tokens \in Nat :
           /\ Bill(tokens) /\ phase = "sent"
           /\ RaiseModelError \/ TryAgain(0, Correction(text), tokens)
    BY <1>1, <1>7 DEF BrokenContract
  <2>2. QED
    BY <2>1, Billing, ErrorKeepsAccount, RetryKeepsAccount DEF Account
<1>8. QED
  BY <1>2, <1>3, <1>4, <1>5, <1>6, <1>7

\* What the turn was charged is what the exchange cost.
LEMMA TurnIsCharged ==
    ASSUME Account, phase = "sent", NEW tokens \in Nat, Charge(TurnCharge(tokens))
    PROVE  /\ Ledger' /\ UNCHANGED elapsed
           /\ usage'["modelCalls"] = usage["modelCalls"] + attempt
           /\ usage'["inputTokens"] = usage["inputTokens"] + (owed + tokens)
           /\ usage["inputTokens"] + (owed + tokens) <= Limit["inputTokens"]
<1>1. attempt \in 1 .. 6 /\ owed \in Nat
  BY MostAttempts DEF Account, Exchange, Clocks
<1>2. PICK n \in Nat, total \in Nat : n = attempt - 1 /\ total = owed + tokens
  BY <1>1
<1>3. PICK charge : charge = ModelCall(Manager, total, 0, 0, n)
  OBVIOUS
<1>4. charge \in [Resource -> Nat] /\ charge["modelCalls"] = 1 + n /\ charge["inputTokens"] = total
  BY <1>3, ExchangeCharge, Zenon
<1>5. Charge(charge)
  BY <1>2, <1>3, Zenon DEF TurnCharge
<1>6. QED
  BY <1>1, <1>2, <1>4, <1>5, Charged DEF Account, Resource

LEMMA ReceiveStep ==
    ASSUME Account, ReceiveTurn
    PROVE  Account'
<1>1. PICK answer \in Answers, tokens \in Billed :
         /\ Bill(tokens) /\ Charge(TurnCharge(tokens)) /\ pending' = Serialized(answer)
  BY DEF ReceiveTurn
<1>2. /\ phase = "sent" /\ phase' = "tools" /\ request' = None /\ attempt' = 0 /\ owed' = 0
      /\ UNCHANGED <<pause, sinceStart, ended>>
  BY DEF ReceiveTurn
<1>3. tokens \in Nat /\ request \in Request /\ ended = None /\ attempt \in Nat /\ owed \in Nat
  BY <1>1, <1>2, MostAttempts, ExchangeAssumption DEF Account, Exchange, Clocks
<1>4. /\ Ledger'
      /\ usage'["modelCalls"] = usage["modelCalls"] + attempt
      /\ usage'["inputTokens"] = usage["inputTokens"] + (owed + tokens)
  BY <1>1, <1>2, <1>3, TurnIsCharged
<1>5. /\ meter' \in [requests : Nat, tokens : Nat] /\ meter'.requests = meter.requests
      /\ meter'.tokens = meter.tokens + tokens
  BY <1>1, <1>3, Billing DEF Account
<1>6. pending' \in Seq(Call)
  BY <1>1, <1>3, SerializedCalls
<1>7. Clocks'
  BY <1>2 DEF Account, Clocks
<1>8. Exchange'
  BY <1>2, <1>3, <1>6 DEF Exchange
<1>9. /\ meter.requests = usage["modelCalls"] + attempt
      /\ meter.tokens = usage["inputTokens"] + owed
      /\ usage["inputTokens"] \in Nat
  BY <1>2, Counted DEF Account, Metered
<1>10. /\ meter'.requests = usage'["modelCalls"]
       /\ meter'.tokens = usage'["inputTokens"]
  BY <1>3, <1>4, <1>5, <1>9
<1>11. Metered'
  BY <1>2, <1>5, <1>10 DEF Metered
<1>12. QED
  BY <1>4, <1>7, <1>8, <1>11 DEF Account

\* The loop is stopped outside the client, or its turn is refused.
LEMMA StopStep ==
    ASSUME Account, PreflightStops \/ ContextTooSmall \/ TurnOverruns \/ ToolBudgetStops
    PROVE  Account'
<1>1. meter \in [requests : Nat, tokens : Nat] /\ \A tokens \in Billed : tokens \in Nat
  BY ExchangeAssumption DEF Account, Metered
<1>2. CASE PreflightStops
  BY <1>1, <1>2, StopKeepsAccount DEF PreflightStops
<1>3. CASE ContextTooSmall
  BY <1>1, <1>3, StopKeepsAccount DEF ContextTooSmall
<1>4. CASE TurnOverruns
  BY <1>1, <1>4, Billing, StopKeepsAccount DEF TurnOverruns, Account
<1>5. CASE ToolBudgetStops
  BY <1>1, <1>5, StopKeepsAccount DEF ToolBudgetStops
<1>6. QED
  BY <1>2, <1>3, <1>4, <1>5

LEMMA ToolCallIsCharged ==
    ASSUME Ledger, Charge(ToolCall) \/ UNCHANGED budgetVars
    PROVE  /\ Ledger'
           /\ usage'["modelCalls"] = usage["modelCalls"]
           /\ usage'["inputTokens"] = usage["inputTokens"]
<1>1. CASE Charge(ToolCall)
  BY <1>1, ToolCharge, Charged, Counted DEF Resource
<1>2. CASE UNCHANGED budgetVars
  BY <1>2, BudgetStays
<1>3. QED
  BY <1>1, <1>2

LEMMA ExecuteStep ==
    ASSUME Account, ExecuteCall
    PROVE  Account'
<1>1. /\ phase = "tools" /\ pending # <<>> /\ sinceStart' = sinceStart /\ meter' = meter
      /\ Charge(ToolCall) \/ UNCHANGED budgetVars
  BY DEF ExecuteCall
<1>2. /\ Ledger'
      /\ usage'["modelCalls"] = usage["modelCalls"]
      /\ usage'["inputTokens"] = usage["inputTokens"]
  BY <1>1, ToolCallIsCharged DEF Account
<1>3. CASE /\ pending' = Tail(pending)
           /\ UNCHANGED <<phase, request, wire, attempt, owed, pause, ended>>
  <2>1. pending' \in Seq(Call)
    BY <1>1, <1>3 DEF Account, Exchange
  <2>2. Clocks'
    BY <1>1, <1>3 DEF Account, Clocks
  <2>3. Exchange'
    BY <1>1, <1>3, <2>1 DEF Account, Exchange
  <2>4. Metered'
    BY <1>1, <1>2, <1>3 DEF Account, Metered
  <2>5. QED
    BY <1>2, <2>2, <2>3, <2>4 DEF Account
<1>4. CASE Ends("DECIDED")
  <2>1. Clocks'
    BY <1>1, <1>4 DEF Account, Clocks, Ends
  <2>2. Exchange'
    BY <1>4, Endings DEF Ends, Exchange, Ending
  <2>3. ended = None
    BY <1>1 DEF Account, Exchange
  <2>4. Metered'
    BY <1>1, <1>2, <1>4, <2>3 DEF Account, Ends, Metered
  <2>5. QED
    BY <1>2, <2>1, <2>2, <2>4 DEF Account
<1>5. QED
  BY <1>3, <1>4 DEF ExecuteCall

LEMMA EndTurnStep ==
    ASSUME Account, EndTurn
    PROVE  Account'
<1>1. /\ phase = "tools" /\ phase' = "turn" /\ pending = <<>>
      /\ UNCHANGED <<usage, elapsed, request, wire, attempt, owed, pending, pause, sinceStart,
                     ended, meter>>
  BY DEF EndTurn, budgetVars
<1>2. Ledger' /\ Clocks'
  BY <1>1 DEF Account, Ledger, BudgetTypeOK, WithinLimits, Clocks
<1>3. Exchange'
  BY <1>1 DEF Account, Exchange
<1>4. Metered'
  BY <1>1 DEF Account, Metered
<1>5. QED
  BY <1>2, <1>3, <1>4 DEF Account

LEMMA TimeStep ==
    ASSUME Account, TimePasses
    PROVE  Account'
<1>1. UNCHANGED <<usage, phase, request, attempt, owed, pending, ended, meter>>
  BY DEF TimePasses
<1>2. elapsed' \in 0 .. ElapsedLimit + 1
  BY LimitAssumption DEF TimePasses, Account, Ledger, BudgetTypeOK, Expired
<1>3. Ledger'
  BY <1>1, <1>2 DEF Account, Ledger, BudgetTypeOK, WithinLimits
<1>4. sinceStart' \in 0 .. Interval
  <2>1. PICK a \in Nat, b \in Nat : a = Interval /\ b = sinceStart + 1
    BY ExchangeAssumption DEF Account, Clocks
  <2>2. a \in Int /\ b \in Int
    OBVIOUS
  <2>3. Min({a, b}) \in {a, b} /\ Min({a, b}) <= a
    BY <2>2, MinOfTwo, Zenon
  <2>4. sinceStart' = Min({a, b})
    BY <2>1, Zenon DEF TimePasses
  <2>5. QED
    BY <2>1, <2>3, <2>4
<1>5. pause' \in Nat
  BY DEF TimePasses, Account, Clocks
<1>6. Clocks'
  BY <1>1, <1>4, <1>5 DEF Account, Clocks
<1>7. Most' = Most /\ Remaining("modelCalls")' = Remaining("modelCalls")
      /\ Remaining("retries")' = Remaining("retries")
  BY <1>1 DEF Most, Remaining
<1>8. Exchange'
  BY <1>1, <1>7 DEF Account, Exchange
<1>9. Metered'
  BY <1>1 DEF Account, Metered
<1>10. QED
  BY <1>3, <1>6, <1>8, <1>9 DEF Account

LEMMA AccountStep ==
    ASSUME Account, [Next]_vars
    PROVE  Account'
<1>1. CASE PreflightStops \/ ContextTooSmall \/ TurnOverruns \/ ToolBudgetStops
  BY <1>1, StopStep
<1>2. CASE Ask
  BY <1>2, AskStep
<1>3. CASE Send
  BY <1>3, SendStep
<1>4. CASE TransientError \/ FatalError \/ MalformedAnswer \/ EmptyAnswer
              \/ EmptyAnswerWithBadUsage \/ BrokenContract
  BY <1>4, ClientStep
<1>5. CASE ReceiveTurn
  BY <1>5, ReceiveStep
<1>6. CASE ExecuteCall
  BY <1>6, ExecuteStep
<1>7. CASE EndTurn
  BY <1>7, EndTurnStep
<1>8. CASE TimePasses
  BY <1>8, TimeStep
<1>9. CASE UNCHANGED vars
  BY <1>9 DEF vars, budgetVars, exchangeVars, Account, Ledger, BudgetTypeOK, WithinLimits,
              Clocks, Exchange, Most, Remaining, Metered
<1>10. QED
  BY <1>1, <1>2, <1>3, <1>4, <1>5, <1>6, <1>7, <1>8, <1>9 DEF Next

---------------------------------------------------------------------------
(* The conversation of the loop, and the one on the wire. *)

LEMMA Sayings ==
    ASSUME NEW role \in {"system", "user", "assistant", "tool"}
    PROVE  /\ Say(role) \in Message
           /\ Say(role).role = role /\ Say(role).calls = <<>>
BY DEF Say, Message

\* Messages that call nothing and answer nothing.
LEMMA PlainIsPaired ==
    ASSUME NEW s \in Seq(Message),
           \A i \in DOMAIN s : s[i].role # "tool" /\ s[i].calls = <<>>
    PROVE  Paired(s)
<1>1. \A i \in DOMAIN s : DOMAIN s[i].calls = {}
  OBVIOUS
<1>2. QED
  BY <1>1 DEF Paired, Answered

LEMMA OnePlainIsPaired ==
    ASSUME NEW m \in Message, m.role # "tool", m.calls = <<>>
    PROVE  <<m>> \in Seq(Message) /\ Paired(<<m>>)
<1>1. PICK s : s = <<m>>
  OBVIOUS
<1>2. s \in Seq(Message) /\ DOMAIN s = {1} /\ s[1] = m
  BY <1>1
<1>3. Paired(s)
  BY <1>2, PlainIsPaired
<1>4. QED
  BY <1>1, <1>2, <1>3

LEMMA Plain ==
    /\ <<>> \in Seq(Message) /\ Paired(<<>>)
    /\ <<Say("user")>> \in Seq(Message) /\ Paired(<<Say("user")>>)
    /\ \A shown \in BOOLEAN : Notice(shown) \in Seq(Message) /\ Paired(Notice(shown))
    /\ \A text \in BOOLEAN : Correction(text) \in Seq(Message) /\ Paired(Correction(text))
<1>1. <<>> \in Seq(Message) /\ Paired(<<>>)
  BY DEF Paired
<1>2. PICK u \in Message, a \in Message :
         /\ u = Say("user") /\ u.role = "user" /\ u.calls = <<>>
         /\ a = Say("assistant") /\ a.role = "assistant" /\ a.calls = <<>>
  BY Sayings
<1>3. <<u>> \in Seq(Message) /\ Paired(<<u>>)
  BY <1>2, OnePlainIsPaired
<1>4. <<a>> \in Seq(Message) /\ Paired(<<a>>)
  BY <1>2, OnePlainIsPaired
<1>5. <<a>> \o <<u>> \in Seq(Message) /\ Paired(<<a>> \o <<u>>)
  <2>1. <<a>> \o <<u>> \in Seq(Message)
    BY <1>3, <1>4
  <2>2. Paired(<<a>> \o <<u>>)
    BY <1>3, <1>4, PairedTogether, Zenon
  <2>3. QED
    BY <2>1, <2>2
<1>6. <<>> \o <<u>> \in Seq(Message) /\ Paired(<<>> \o <<u>>)
  BY <1>3
<1>7. /\ Notice(TRUE) = <<u>> /\ Notice(FALSE) = <<>>
      /\ Correction(TRUE) = <<a>> \o <<u>> /\ Correction(FALSE) = <<>> \o <<u>>
  BY <1>2, Zenon DEF Notice, Correction
<1>8. QED
  BY <1>1, <1>2, <1>3, <1>5, <1>6, <1>7

\* The results that the calls of a turn are still to get.
Result(id) == [Say("tool") EXCEPT !.answers = id]
Results(calls) == [k \in DOMAIN calls |-> Result(calls[k].id)]

LEMMA ResultIsMessage ==
    ASSUME NEW id \in 1 .. 2
    PROVE  /\ Result(id) \in Message
           /\ Result(id).role = "tool" /\ Result(id).calls = <<>> /\ Result(id).answers = id
<1>1. Result(id) = [role |-> "tool", calls |-> <<>>, answers |-> id, size |-> 1]
  BY DEF Result, Say
<1>2. <<>> \in Seq(1 .. 2)
  OBVIOUS
<1>3. QED
  BY <1>1, <1>2 DEF Message

LEMMA ResultsOfCalls ==
    ASSUME NEW calls \in Seq(Call)
    PROVE  /\ Results(calls) \in Seq(Message)
           /\ Len(Results(calls)) = Len(calls) /\ Len(calls) \in Nat
           /\ DOMAIN calls = 1 .. Len(calls)
           /\ \A k \in 1 .. Len(calls) :
                /\ calls[k].id \in 1 .. 2
                /\ Results(calls)[k].role = "tool" /\ Results(calls)[k].calls = <<>>
                /\ Results(calls)[k].answers = calls[k].id
<1>1. DOMAIN calls = 1 .. Len(calls) /\ Len(calls) \in Nat
  OBVIOUS
<1>2. \A k \in 1 .. Len(calls) : calls[k].id \in 1 .. 2
  <2>1. \A k \in 1 .. Len(calls) : calls[k] \in Call
    BY <1>1
  <2>2. QED
    BY <2>1 DEF Call
<1>3. Results(calls) = [k \in 1 .. Len(calls) |-> Result(calls[k].id)]
  BY <1>1 DEF Results
<1>4. Results(calls) \in Seq(Message) /\ Len(Results(calls)) = Len(calls)
  BY <1>1, <1>2, <1>3, ResultIsMessage
<1>5. \A k \in 1 .. Len(calls) : Results(calls)[k] = Result(calls[k].id)
  BY <1>3
<1>6. QED
  BY <1>1, <1>2, <1>4, <1>5, ResultIsMessage

\* A turn with all its results.
LEMMA TurnIsPaired ==
    ASSUME NEW calls \in Seq(Call), NEW turn \in Message,
           turn.role = "assistant", turn.calls = Ids(calls)
    PROVE  /\ <<turn>> \o Results(calls) \in Seq(Message)
           /\ Paired(<<turn>> \o Results(calls))
<1> DEFINE n == Len(calls)
           rest == Results(calls)
           u == <<turn>> \o rest
<1>1. /\ rest \in Seq(Message) /\ Len(rest) = n /\ n \in Nat /\ DOMAIN calls = 1 .. n
      /\ \A k \in 1 .. n : /\ rest[k].role = "tool" /\ rest[k].calls = <<>>
                           /\ rest[k].answers = calls[k].id
  BY ResultsOfCalls
<1> HIDE DEF rest
<1>2. /\ u \in Seq(Message) /\ DOMAIN u = 1 .. (n + 1) /\ u[1] = turn
      /\ \A k \in 1 .. n : u[1 + k] = rest[k]
  BY <1>1
<1>3. DOMAIN turn.calls = 1 .. n /\ \A k \in 1 .. n : turn.calls[k] = calls[k].id
  BY <1>1 DEF Ids
<1> HIDE DEF u, n
<1>4. \A i \in DOMAIN u \ {1} : i - 1 \in 1 .. n /\ i = 1 + (i - 1) /\ u[i] = rest[i - 1]
  <2>1. SUFFICES ASSUME NEW i \in 2 .. (n + 1)
                 PROVE  i - 1 \in 1 .. n /\ i = 1 + (i - 1) /\ u[i] = rest[i - 1]
    BY <1>1, <1>2
  <2>2. i - 1 \in 1 .. n /\ i = 1 + (i - 1)
    BY <1>1
  <2>3. QED
    BY <1>2, <2>2
<1>5. Answered(u, 1)
  <2>1. ASSUME NEW k \in DOMAIN u[1].calls
        PROVE  1 + k \in DOMAIN u /\ u[1 + k].role = "tool" /\ u[1 + k].answers = u[1].calls[k]
    BY <1>1, <1>2, <1>3
  <2>2. QED
    BY <2>1 DEF Answered
<1>6. ASSUME NEW i \in DOMAIN u, i # 1
      PROVE  Answered(u, i) /\ u[i].calls = <<>> /\ Called(u, i)
  <2>1. i - 1 \in 1 .. n /\ u[i] = rest[i - 1]
    BY <1>4, <1>6
  <2>2. u[i].calls = <<>> /\ u[i].answers = calls[i - 1].id
    BY <1>1, <2>1
  <2>3. DOMAIN u[i].calls = {}
    BY <2>2
  <2>4. Answered(u, i)
    BY <2>3 DEF Answered
  <2>5. 1 \in 1 .. i - 1 /\ i - 1 \in DOMAIN u[1].calls /\ u[1].calls[i - 1] = u[i].answers
    BY <1>1, <1>2, <1>3, <2>1, <2>2
  <2>6. QED
    BY <2>2, <2>4, <2>5 DEF Called
<1>7. QED
  BY <1>2, <1>5, <1>6 DEF Paired, u, rest

---------------------------------------------------------------------------
(* What a request carries of the conversation. *)

LEMMA PreviewsArePaired ==
    ASSUME NEW group \in Seq(Message), Paired(group)
    PROVE  Previews(group) \in Seq(Message) /\ Paired(Previews(group))
<1> DEFINE short == Previews(group)
           Shown(m) == IF m.role = "tool" THEN [m EXCEPT !.size = 1] ELSE m
<1>1. ASSUME NEW m \in Message
      PROVE  /\ Shown(m) \in Message /\ Shown(m).role = m.role
             /\ Shown(m).calls = m.calls /\ Shown(m).answers = m.answers
  BY DEF Message
<1>2. DOMAIN group = 1 .. Len(group) /\ Len(group) \in Nat
      /\ \A i \in DOMAIN group : group[i] \in Message
  OBVIOUS
<1>3. short = [i \in 1 .. Len(group) |-> Shown(group[i])]
  BY <1>2 DEF Previews
<1> HIDE DEF Shown, short
<1>4. short \in Seq(Message) /\ DOMAIN short = DOMAIN group
  BY <1>1, <1>2, <1>3
<1>5. SameBut(group, short)
  BY <1>1, <1>2, <1>3, <1>4 DEF SameBut
<1>6. QED
  BY <1>4, <1>5, SizeDoesNotMatter DEF short

LEMMA Longer ==
    ASSUME NEW s \in Seq(Message), Len(s) >= 2, NEW t \in Seq(Message)
    PROVE  /\ s \o t \in Seq(Message) /\ Len(s \o t) >= 2
           /\ (s \o t)[1] = s[1] /\ (s \o t)[2] = s[2]
OBVIOUS

\* A conversation begins with the system prompt and the task.
Opened(s) == Len(s) >= 2 /\ s[1].role = "system" /\ s[2].role = "user"

LEMMA StaysOpened ==
    ASSUME NEW s \in Seq(Message), Opened(s), NEW t \in Seq(Message)
    PROVE  s \o t \in Seq(Message) /\ Opened(s \o t)
BY Longer DEF Opened

LEMMA BoundedIsPaired ==
    ASSUME messages \in Seq(Message), Len(messages) >= 2,
           messages[1] = Say("system"), messages[2] = Say("user"), Paired(messages),
           NEW limit, NEW trailing \in Seq(Message), Paired(trailing),
           Bounded(limit, trailing) # None
    PROVE  /\ Bounded(limit, trailing) \in Seq(Message)
           /\ Paired(Bounded(limit, trailing))
           /\ Opened(Bounded(limit, trailing))
<1> DEFINE base   == SubSeq(messages, 1, 2) \o <<Say("user")>>
           room   == limit - SizeOf(base \o trailing)
           fits   == {i \in GroupStarts : SizeOf(From(i)) <= room}
           newest == Previews(From(Max(GroupStarts)))
           Good(s) == s \in Seq(Message) /\ Paired(s)
<1>1. \/ Bounded(limit, trailing) = messages \o trailing
      \/ fits # {} /\ Bounded(limit, trailing) = base \o From(Min(fits)) \o trailing
      \/ GroupStarts # {} /\ Bounded(limit, trailing) = base \o newest \o trailing
      \/ Bounded(limit, trailing) = base \o trailing
  BY Zenon DEF Bounded
<1>2. ASSUME NEW s, NEW t, Good(s), Good(t)
      PROVE  Good(s \o t)
  BY <1>2, PairedTogether
<1>3. Good(trailing) /\ Good(messages)
  OBVIOUS
<1>4. Good(base)
  <2>1. PICK s : s = SubSeq(messages, 1, 2)
    OBVIOUS
  <2>2. s \in Seq(Message) /\ DOMAIN s = {1, 2} /\ s[1] = messages[1] /\ s[2] = messages[2]
    BY <2>1
  <2>3. \A i \in DOMAIN s : s[i].role # "tool" /\ s[i].calls = <<>>
    BY <2>2, Sayings
  <2>4. Good(s)
    BY <2>2, <2>3, PlainIsPaired
  <2>5. QED
    BY <1>2, <2>1, <2>4, Plain, Zenon
<1>5. ASSUME NEW i \in GroupStarts
      PROVE  Good(From(i))
  BY PairedFromAnswer DEF GroupStarts, From
<1>6. /\ Len(messages) \in Nat /\ DOMAIN messages = 1 .. Len(messages)
      /\ GroupStarts \subseteq 1 .. Len(messages) /\ GroupStarts \subseteq Nat
  BY DEF GroupStarts
<1>7. fits # {} => Good(From(Min(fits)))
  <2>1. fits \subseteq GroupStarts /\ fits \subseteq Nat
    BY <1>6
  <2>2. QED
    BY <1>5, <2>1, MinIsMember
<1>8. GroupStarts # {} => Good(newest)
  BY <1>5, <1>6, MaxIsMember, PreviewsArePaired
<1>9. Opened(messages) /\ Opened(base)
  <2>1. PICK s \in Seq(Message) :
          /\ s = SubSeq(messages, 1, 2) /\ Len(s) = 2 /\ s[1] = messages[1] /\ s[2] = messages[2]
    <3>1. PICK s : s = SubSeq(messages, 1, 2)
      OBVIOUS
    <3>2. s \in Seq(Message) /\ Len(s) = 2 /\ s[1] = messages[1] /\ s[2] = messages[2]
      BY <3>1
    <3>3. QED
      BY <3>1, <3>2
  <2>2. PICK m \in Message : m = Say("user")
    BY Sayings
  <2>3. <<m>> \in Seq(Message) /\ base = s \o <<m>>
    BY <2>1, <2>2
  <2>4. Opened(messages) /\ Opened(s)
    BY <2>1, Sayings DEF Opened
  <2>5. QED
    BY <2>3, <2>4, StaysOpened
<1> DEFINE Fine(s) == Good(s) /\ Opened(s)
<1>10. ASSUME NEW s, NEW t, Fine(s), Good(t)
       PROVE  Fine(s \o t)
  BY <1>2, <1>10, StaysOpened
<1>11. Fine(messages) /\ Fine(base)
  BY <1>3, <1>4, <1>9
<1> HIDE DEF base, fits, newest, Good, Fine
<1>12. Fine(Bounded(limit, trailing))
  BY <1>1, <1>3, <1>7, <1>8, <1>10, <1>11
<1>13. QED
  BY <1>12 DEF Fine, Good

---------------------------------------------------------------------------
(* The conversation stays one a request can carry. *)

\* The calls of the last turn that are still to be answered are the only ones
\* that are not, and their results are what comes next.
Conversing ==
    /\ messages \in Seq(Message) /\ Len(messages) >= 2
    /\ messages[1] = Say("system") /\ messages[2] = Say("user")
    /\ ended = None => Paired(messages \o Results(pending))
    /\ phase \in {"pace", "sent"} => wire \in Seq(Message) /\ Paired(wire) /\ Opened(wire)

LEMMA NothingPending ==
    ASSUME NEW s \in Seq(Message)
    PROVE  s \o Results(<<>>) = s
<1>1. Results(<<>>) = <<>>
  BY DEF Results
<1>2. QED
  BY <1>1

LEMMA Joined ==
    ASSUME NEW s \in Seq(Message), NEW t \in Seq(Message)
    PROVE  /\ s \o t \in Seq(Message)
           /\ DOMAIN (s \o t) = 1 .. (Len(s) + Len(t))
           /\ \A i \in 1 .. Len(s) : (s \o t)[i] = s[i]
           /\ \A k \in 1 .. Len(t) : (s \o t)[Len(s) + k] = t[k]
<1>1. /\ s \o t \in Seq(Message)
      /\ DOMAIN (s \o t) = 1 .. (Len(s) + Len(t))
  OBVIOUS
<1>2. \A i \in 1 .. Len(s) : (s \o t)[i] = s[i]
  OBVIOUS
<1>3. \A k \in 1 .. Len(t) : (s \o t)[Len(s) + k] = t[k]
  OBVIOUS
<1>4. QED
  BY <1>1, <1>2, <1>3

LEMMA Appended ==
    ASSUME NEW s \in Seq(Message), Len(s) >= 2, NEW m \in Message
    PROVE  /\ Append(s, m) \in Seq(Message) /\ Len(Append(s, m)) >= 2
           /\ Append(s, m)[1] = s[1] /\ Append(s, m)[2] = s[2]
OBVIOUS

LEMMA Regrouped ==
    ASSUME NEW s \in Seq(Message), NEW m \in Message, NEW t \in Seq(Message)
    PROVE  s \o (<<m>> \o t) = Append(s, m) \o t
<1> DEFINE u == s \o (<<m>> \o t)
           v == Append(s, m) \o t
<1>1. /\ u \in Seq(Message) /\ v \in Seq(Message)
      /\ Len(u) = Len(v) /\ DOMAIN u = 1 .. Len(u) /\ DOMAIN v = 1 .. Len(v)
  OBVIOUS
<1>2. ASSUME NEW i \in 1 .. Len(u)
      PROVE  u[i] = v[i]
  OBVIOUS
<1> HIDE DEF u, v
<1>3. u = v
  BY <1>1, <1>2
<1>4. QED
  BY <1>3 DEF u, v

\* The result of the first call has come: it has another size than expected.
LEMMA ResultArrives ==
    ASSUME NEW s \in Seq(Message), NEW calls \in Seq(Call), calls # <<>>,
           NEW m \in Message, m.role = "tool", m.calls = <<>>,
           m.answers = Head(calls).id, Paired(s \o Results(calls))
    PROVE  Paired(Append(s, m) \o Results(Tail(calls)))
<1>1. /\ Tail(calls) \in Seq(Call) /\ Len(calls) \in Nat \ {0}
      /\ Len(Tail(calls)) = Len(calls) - 1 /\ Head(calls) = calls[1]
      /\ \A k \in 1 .. Len(calls) - 1 : Tail(calls)[k] = calls[k + 1]
  OBVIOUS
<1>2. PICK n \in Nat : Len(calls) = n + 1
  <2>1. Len(calls) - 1 \in Nat /\ Len(calls) = (Len(calls) - 1) + 1
    BY <1>1
  <2>2. QED
    BY <2>1
<1>3. PICK r \in Seq(Message) :
        /\ r = Results(calls) /\ Len(r) = n + 1
        /\ \A k \in 1 .. n + 1 : /\ r[k].role = "tool" /\ r[k].calls = <<>>
                                 /\ r[k].answers = calls[k].id
  BY <1>2, ResultsOfCalls
<1>4. PICK q \in Seq(Message) :
        /\ q = Results(Tail(calls)) /\ Len(q) = n
        /\ \A k \in 1 .. n : /\ q[k].role = "tool" /\ q[k].calls = <<>>
                             /\ q[k].answers = calls[k + 1].id
  <2>1. PICK rest \in Seq(Call) :
          /\ rest = Tail(calls) /\ Len(rest) = n
          /\ \A k \in 1 .. n : rest[k] = calls[k + 1]
    <3>1. \A k \in 1 .. n : k \in 1 .. Len(calls) - 1
      BY <1>2
    <3>2. \A k \in 1 .. n : Tail(calls)[k] = calls[k + 1]
      BY <1>1, <3>1
    <3>3. Len(Tail(calls)) = n
      BY <1>1, <1>2
    <3>4. QED
      BY <1>1, <3>2, <3>3
  <2>2. Results(rest) \in Seq(Message) /\ Len(Results(rest)) = n
    BY <2>1, ResultsOfCalls
  <2>3. \A k \in 1 .. n : /\ Results(rest)[k].role = "tool"
                         /\ Results(rest)[k].calls = <<>>
                         /\ Results(rest)[k].answers = rest[k].id
    BY <2>1, ResultsOfCalls
  <2>4. QED
    BY <2>1, <2>2, <2>3
<1>5. PICK l \in Nat : Len(s) = l
  OBVIOUS
<1> DEFINE u == s \o r
           v == Append(s, m) \o q
<1>6. /\ u \in Seq(Message) /\ DOMAIN u = 1 .. l + n + 1
      /\ \A i \in 1 .. l : u[i] = s[i]
      /\ \A k \in 1 .. n + 1 : u[l + k] = r[k]
  <2>1. /\ u \in Seq(Message) /\ DOMAIN u = 1 .. (Len(s) + Len(r))
        /\ \A i \in 1 .. Len(s) : u[i] = s[i]
        /\ \A k \in 1 .. Len(r) : u[Len(s) + k] = r[k]
    BY Joined, Zenon
  <2> HIDE DEF u
  <2>2. Len(r) = n + 1 /\ Len(s) = l /\ l + (n + 1) = l + n + 1
    BY <1>3, <1>5
  <2>3. QED
    BY <2>1, <2>2
<1>7. /\ v \in Seq(Message) /\ DOMAIN v = 1 .. l + n + 1
      /\ \A i \in 1 .. l : v[i] = s[i]
      /\ v[l + 1] = m
      /\ \A k \in 1 .. n : v[l + 1 + k] = q[k]
  <2>1. PICK w \in Seq(Message) : w = Append(s, m)
    <3>1. Append(s, m) \in Seq(Message)
      OBVIOUS
    <3>2. QED
      BY <3>1
  <2>2. /\ Len(w) = Len(s) + 1 /\ w[Len(s) + 1] = m
        /\ \A i \in 1 .. Len(s) : w[i] = s[i]
    BY <2>1
  <2>3. v = w \o q
    BY <2>1
  <2> HIDE DEF v
  <2>4. /\ v \in Seq(Message) /\ DOMAIN v = 1 .. (Len(w) + Len(q))
        /\ \A i \in 1 .. Len(w) : v[i] = w[i]
        /\ \A k \in 1 .. Len(q) : v[Len(w) + k] = q[k]
    BY <2>3, Joined, Zenon
  <2>5. Len(w) = l + 1 /\ Len(s) = l /\ Len(q) = n /\ l + 1 + n = l + n + 1
    BY <1>4, <1>5, <2>2
  <2>6. QED
    BY <2>2, <2>4, <2>5
<1> HIDE DEF u, v
<1>8. ASSUME NEW i \in 1 .. l + n + 1
      PROVE  u[i].role = v[i].role /\ u[i].calls = v[i].calls /\ u[i].answers = v[i].answers
  <2>1. CASE i \in 1 .. l
    BY <1>6, <1>7, <2>1
  <2>2. CASE i = l + 1
    <3>1. 1 \in 1 .. n + 1 /\ u[i] = r[1] /\ v[i] = m
      BY <1>6, <1>7, <2>2
    <3>2. QED
      BY <1>1, <1>3, <3>1
  <2>3. ASSUME NEW k \in 1 .. n, i = l + 1 + k
        PROVE  u[i].role = v[i].role /\ u[i].calls = v[i].calls /\ u[i].answers = v[i].answers
    <3>1. k + 1 \in 1 .. n + 1 /\ i = l + (k + 1)
      BY <2>3
    <3>2. u[i] = r[k + 1] /\ v[i] = q[k]
      BY <1>6, <1>7, <2>3, <3>1
    <3>3. QED
      BY <1>3, <1>4, <3>1, <3>2
  <2>4. i \in 1 .. l \/ i = l + 1 \/ \E k \in 1 .. n : i = l + 1 + k
    <3>1. i > l + 1 => i - l - 1 \in 1 .. n /\ i = l + 1 + (i - l - 1)
      OBVIOUS
    <3>2. QED
      BY <3>1
  <2>5. QED
    BY <2>1, <2>2, <2>3, <2>4
<1>9. SameBut(u, v)
  BY <1>6, <1>7, <1>8 DEF SameBut
<1>10. Paired(u)
  BY <1>3 DEF u
<1>11. Paired(v)
  BY <1>6, <1>7, <1>9, <1>10, SizeDoesNotMatter
<1>12. QED
  BY <1>4, <1>11 DEF v

LEMMA ConversationStart == Init => Conversing
<1> SUFFICES ASSUME Init
             PROVE  Conversing
  OBVIOUS
<1>1. PICK a \in Message, b \in Message :
         /\ a = Say("system") /\ a.role = "system" /\ a.calls = <<>>
         /\ b = Say("user") /\ b.role = "user" /\ b.calls = <<>>
  BY Sayings
<1>2. /\ messages = <<a, b>> /\ phase = "turn" /\ pending = <<>>
  BY <1>1 DEF Init
<1>3. /\ messages \in Seq(Message) /\ Len(messages) = 2 /\ DOMAIN messages = {1, 2}
      /\ messages[1] = a /\ messages[2] = b
  BY <1>2
<1>4. Paired(messages)
  <2>1. \A i \in DOMAIN messages : messages[i].role # "tool" /\ messages[i].calls = <<>>
    BY <1>1, <1>3
  <2>2. QED
    BY <1>3, <2>1, PlainIsPaired
<1>5. messages \o Results(pending) = messages
  BY <1>2, <1>3, NothingPending
<1>6. Paired(messages \o Results(pending))
  BY <1>4, <1>5
<1>7. QED
  BY <1>1, <1>2, <1>3, <1>6 DEF Conversing

\* A loop that has ended has no request left.
LEMMA EndKeepsConversation ==
    ASSUME Conversing, NEW reason \in Ending, Ends(reason), UNCHANGED messages
    PROVE  Conversing'
BY Endings DEF Conversing, Ends

LEMMA ErrorKeepsConversation ==
    ASSUME Conversing, RaiseModelError
    PROVE  Conversing'
BY EndKeepsConversation DEF RaiseModelError, Ending

LEMMA RetryKeepsConversation ==
    ASSUME Conversing, phase = "sent", NEW delay, NEW tokens,
           NEW correction \in Seq(Message), Paired(correction),
           TryAgain(delay, correction, tokens)
    PROVE  Conversing'
<1>1. /\ wire' = wire \o correction /\ UNCHANGED <<messages, pending, ended>>
  BY DEF TryAgain
<1>2. wire \in Seq(Message) /\ Paired(wire) /\ Opened(wire)
  BY DEF Conversing
<1>3. wire' \in Seq(Message) /\ Paired(wire') /\ Opened(wire')
  BY <1>1, <1>2, PairedTogether, StaysOpened
<1>4. QED
  BY <1>1, <1>3 DEF Conversing

LEMMA AskConverses ==
    ASSUME Account, Conversing, Ask
    PROVE  Conversing'
<1>1. PICK limit \in ContextLimits, shown \in BOOLEAN :
         Bounded(limit, Notice(shown)) # None /\ wire' = Bounded(limit, Notice(shown))
  BY DEF Ask
<1>2. phase = "turn" /\ ended = None /\ UNCHANGED <<messages, pending, ended>>
  BY DEF Ask, Ready
<1>3. pending = <<>>
  BY <1>2 DEF Account, Exchange
<1>4. Paired(messages)
  BY <1>2, <1>3, NothingPending DEF Conversing
<1>5. PICK trailing \in Seq(Message) : trailing = Notice(shown) /\ Paired(trailing)
  BY Plain
<1>6. wire' \in Seq(Message) /\ Paired(wire') /\ Opened(wire')
  BY <1>1, <1>4, <1>5, BoundedIsPaired DEF Conversing
<1>7. QED
  BY <1>2, <1>6 DEF Conversing

LEMMA ClientConverses ==
    ASSUME Conversing, TransientError \/ FatalError \/ MalformedAnswer \/ EmptyAnswer
                       \/ EmptyAnswerWithBadUsage \/ BrokenContract
    PROVE  Conversing'
<1>1. CASE TransientError
  BY <1>1, ErrorKeepsConversation, RetryKeepsConversation, Plain DEF TransientError
<1>2. CASE FatalError \/ MalformedAnswer
  BY <1>2, ErrorKeepsConversation DEF FatalError, MalformedAnswer
<1>3. CASE EmptyAnswer
  BY <1>3, ErrorKeepsConversation, RetryKeepsConversation, Plain DEF EmptyAnswer
<1>4. CASE EmptyAnswerWithBadUsage
  BY <1>4, EndKeepsConversation DEF EmptyAnswerWithBadUsage, Ending
<1>5. CASE BrokenContract
  <2>1. PICK text \in BOOLEAN, tokens \in Billed :
           /\ phase = "sent"
           /\ RaiseModelError \/ TryAgain(0, Correction(text), tokens)
    BY <1>5 DEF BrokenContract
  <2>2. QED
    BY <2>1, ErrorKeepsConversation, RetryKeepsConversation, Plain
<1>6. QED
  BY <1>1, <1>2, <1>3, <1>4, <1>5

\* The message of a turn.
LEMMA TurnIsMessage ==
    ASSUME NEW calls \in Seq(Call)
    PROVE  LET turn == [Say("assistant") EXCEPT !.calls = Ids(calls)]
           IN  turn \in Message /\ turn.role = "assistant" /\ turn.calls = Ids(calls)
<1>1. PICK ids : ids = Ids(calls)
  OBVIOUS
<1>2. ids \in Seq(1 .. 2)
  <2>1. /\ Len(calls) \in Nat /\ DOMAIN calls = 1 .. Len(calls)
        /\ \A k \in 1 .. Len(calls) : calls[k].id \in 1 .. 2
    BY ResultsOfCalls
  <2>2. ids = [i \in 1 .. Len(calls) |-> calls[i].id]
    BY <1>1, <2>1 DEF Ids
  <2>3. QED
    BY <2>1, <2>2
<1>3. PICK turn : turn = [Say("assistant") EXCEPT !.calls = ids]
  OBVIOUS
<1>4. turn = [role |-> "assistant", calls |-> ids, answers |-> None, size |-> 1]
  BY <1>3 DEF Say
<1>5. turn \in Message /\ turn.role = "assistant" /\ turn.calls = ids
  BY <1>2, <1>4 DEF Message
<1>6. QED
  BY <1>1, <1>3, <1>5

LEMMA ReceiveConverses ==
    ASSUME Account, Conversing, ReceiveTurn
    PROVE  Conversing'
<1>1. phase = "sent" /\ phase' = "tools" /\ ended' = ended
  BY DEF ReceiveTurn
<1>2. request \in Request /\ pending = <<>> /\ ended = None
  BY <1>1 DEF Account, Exchange
<1>3. PICK calls \in Seq(Call) :
         /\ pending' = calls
         /\ messages' = Append(messages, [Say("assistant") EXCEPT !.calls = Ids(calls)])
  BY <1>2, SerializedCalls DEF ReceiveTurn
<1>4. PICK turn \in Message :
         /\ turn.role = "assistant" /\ turn.calls = Ids(calls)
         /\ messages' = Append(messages, turn)
  BY <1>3, TurnIsMessage
<1>5. PICK s \in Seq(Message) : s = messages /\ Paired(s)
  BY <1>2, NothingPending DEF Conversing
<1>6. PICK t \in Seq(Message) : t = Results(calls)
  BY ResultsOfCalls
<1>7. <<turn>> \o t \in Seq(Message) /\ Paired(<<turn>> \o t)
  BY <1>4, <1>6, TurnIsPaired
<1>8. Paired(s \o (<<turn>> \o t))
  BY <1>5, <1>7, PairedTogether
<1>9. Paired(Append(s, turn) \o t)
  BY <1>8, Regrouped
<1>10. QED
  BY <1>1, <1>3, <1>4, <1>5, <1>6, <1>9, Appended DEF Conversing

LEMMA ExecuteConverses ==
    ASSUME Account, Conversing, ExecuteCall
    PROVE  Conversing'
<1>1. phase = "tools" /\ pending # <<>> /\ ended = None /\ pending \in Seq(Call)
  BY DEF ExecuteCall, Account, Exchange
<1>2. PICK size \in ResultSize :
         messages' = Append(messages, [Say("tool") EXCEPT !.answers = Head(pending).id,
                                                          !.size = size])
  BY DEF ExecuteCall
<1>3. PICK id \in 1 .. 2 : id = Head(pending).id
  <2>1. Head(pending) \in Call
    BY <1>1
  <2>2. QED
    BY <2>1 DEF Call
<1>4. PICK m : m = [Say("tool") EXCEPT !.answers = id, !.size = size]
  OBVIOUS
<1>5. m = [role |-> "tool", calls |-> <<>>, answers |-> id, size |-> size]
  BY <1>4 DEF Say
<1>6. m \in Message /\ m.role = "tool" /\ m.calls = <<>> /\ m.answers = id
  <2>1. <<>> \in Seq(1 .. 2) /\ size \in Nat
    BY ExchangeAssumption
  <2>2. QED
    BY <1>5, <2>1 DEF Message
<1>7. messages' = Append(messages, m)
  BY <1>2, <1>3, <1>4
<1>8. /\ messages' \in Seq(Message) /\ Len(messages') >= 2
      /\ messages'[1] = messages[1] /\ messages'[2] = messages[2]
  BY <1>6, <1>7, Appended DEF Conversing
<1>9. CASE pending' = Tail(pending) /\ UNCHANGED <<phase, ended>>
  <2>1. Paired(Append(messages, m) \o Results(Tail(pending)))
    BY <1>1, <1>3, <1>6, ResultArrives DEF Conversing
  <2>2. QED
    BY <1>1, <1>7, <1>8, <1>9, <2>1 DEF Conversing
<1>10. CASE Ends("DECIDED")
  BY <1>8, <1>10, Endings DEF Ends, Conversing
<1>11. QED
  BY <1>9, <1>10 DEF ExecuteCall

LEMMA EndTurnConverses ==
    ASSUME Account, Conversing, EndTurn
    PROVE  Conversing'
<1>1. /\ phase = "tools" /\ phase' = "turn" /\ pending = <<>> /\ ended = None
      /\ UNCHANGED <<pending, ended>>
  BY DEF EndTurn, Account, Exchange
<1>2. PICK noted \in BOOLEAN : messages' = messages \o Notice(noted)
  BY DEF EndTurn
<1>3. PICK s \in Seq(Message) : s = messages /\ Paired(s) /\ Len(s) >= 2
  BY <1>1, NothingPending DEF Conversing
<1>4. PICK t \in Seq(Message) : t = Notice(noted) /\ Paired(t)
  BY Plain
<1>5. Paired(s \o t)
  BY <1>3, <1>4, PairedTogether
<1>6. /\ s \o t \in Seq(Message) /\ Len(s \o t) >= 2
      /\ (s \o t)[1] = s[1] /\ (s \o t)[2] = s[2]
  BY <1>3, Longer
<1>7. (s \o t) \o Results(<<>>) = s \o t
  BY <1>6, NothingPending
<1>8. messages' = s \o t
  BY <1>2, <1>3, <1>4
<1>9. QED
  BY <1>1, <1>3, <1>5, <1>6, <1>7, <1>8 DEF Conversing

LEMMA ConversationStep ==
    ASSUME Account, Conversing, [Next]_vars
    PROVE  Conversing'
<1>1. CASE PreflightStops \/ ContextTooSmall \/ TurnOverruns \/ ToolBudgetStops
  BY <1>1, EndKeepsConversation
     DEF PreflightStops, ContextTooSmall, TurnOverruns, ToolBudgetStops, Ending
<1>2. CASE Ask
  BY <1>2, AskConverses
<1>3. CASE Send \/ TimePasses \/ UNCHANGED vars
  BY <1>3 DEF Send, TimePasses, vars, exchangeVars, Conversing
<1>4. CASE TransientError \/ FatalError \/ MalformedAnswer \/ EmptyAnswer
              \/ EmptyAnswerWithBadUsage \/ BrokenContract
  BY <1>4, ClientConverses
<1>5. CASE ReceiveTurn
  BY <1>5, ReceiveConverses
<1>6. CASE ExecuteCall
  BY <1>6, ExecuteConverses
<1>7. CASE EndTurn
  BY <1>7, EndTurnConverses
<1>8. QED
  BY <1>1, <1>2, <1>3, <1>4, <1>5, <1>6, <1>7 DEF Next

---------------------------------------------------------------------------
(* The turns an Anthropic provider is sent. *)

Block == [kind : {"text", "call", "result"}, id : (1 .. 2) \cup {None}]
Turn  == [role : {"user", "assistant"}, blocks : Seq(Block)]

\* Messages are added to the turns one by one.
LEMMA TurnsOneByOne ==
    ASSUME NEW s \in Seq(Message)
    PROVE  /\ TurnsAfter(s)[0] = <<>>
           /\ \A n \in 1 .. Len(s) : TurnsAfter(s)[n] = AddMessage(TurnsAfter(s)[n - 1], s[n])
<1> DEFINE Step(f, N) == f = [n \in 0 .. N |-> IF n = 0 THEN <<>> ELSE AddMessage(f[n - 1], s[n])]
           Missing == {N \in Nat : ~ \E f : Step(f, N)}
<1>1. ASSUME Missing # {}
      PROVE  FALSE
  <2>1. PICK N \in Missing : \A M \in Missing : N <= M
    BY <1>1, LeastOf
  <2>2. CASE N = 0
    <3>1. Step([n \in 0 .. 0 |-> <<>>], 0)
      OBVIOUS
    <3>2. QED
      BY <2>1, <2>2, <3>1
  <2>3. CASE N # 0
    <3>1. N - 1 \in Nat /\ N - 1 \notin Missing
      BY <2>1, <2>3
    <3>2. PICK g : Step(g, N - 1)
      BY <3>1
    <3> DEFINE f == [n \in 0 .. N |-> IF n = 0 THEN <<>> ELSE AddMessage(g[n - 1], s[n])]
    <3>3. N \in Nat /\ N >= 1 /\ N - 1 \in 0 .. N /\ 0 .. (N - 1) \subseteq 0 .. N
      BY <3>1
    <3>4. \A n \in 0 .. (N - 1) : g[n] = IF n = 0 THEN <<>> ELSE AddMessage(g[n - 1], s[n])
      BY <3>2, Zenon
    <3>5. \A n \in 0 .. N : f[n] = IF n = 0 THEN <<>> ELSE AddMessage(g[n - 1], s[n])
      OBVIOUS
    <3> HIDE DEF f
    <3>6. f = [n \in 0 .. N |-> IF n = 0 THEN <<>> ELSE AddMessage(f[n - 1], s[n])]
      <4>1. \A n \in 0 .. (N - 1) : f[n] = g[n]
        BY <3>3, <3>4, <3>5
      <4>2. ASSUME NEW n \in 0 .. N, n # 0
            PROVE  g[n - 1] = f[n - 1]
        <5>1. n - 1 \in 0 .. (N - 1)
          BY <3>3, <4>2
        <5>2. QED
          BY <4>1, <5>1
      <4>3. \A n \in 0 .. N : (IF n = 0 THEN <<>> ELSE AddMessage(g[n - 1], s[n]))
                              = (IF n = 0 THEN <<>> ELSE AddMessage(f[n - 1], s[n]))
        BY <4>2, Zenon
      <4>4. f = [n \in 0 .. N |-> IF n = 0 THEN <<>> ELSE AddMessage(g[n - 1], s[n])]
        BY DEF f
      <4>5. QED
        BY <4>3, <4>4, Zenon
    <3>7. QED
      BY <2>1, <3>6
  <2>4. QED
    BY <2>2, <2>3
<1>2. Len(s) \in Nat
  OBVIOUS
<1>3. \E f : Step(f, Len(s))
  BY <1>1, <1>2
<1>4. TurnsAfter(s) = CHOOSE f : Step(f, Len(s))
  BY DEF TurnsAfter
<1>5. Step(TurnsAfter(s), Len(s))
  BY <1>3, <1>4
<1> HIDE DEF Missing
<1>6. QED
  BY <1>2, <1>5

LEMMA BlocksTogether ==
    ASSUME NEW b \in Seq(Block), NEW d \in Seq(Block)
    PROVE  /\ b \o d \in Seq(Block) /\ Len(b \o d) = Len(b) + Len(d)
           /\ Len(b) \in Nat /\ Len(d) \in Nat
           /\ DOMAIN b = 1 .. Len(b) /\ DOMAIN d = 1 .. Len(d)
           /\ DOMAIN (b \o d) = 1 .. (Len(b) + Len(d))
           /\ \A k \in 1 .. Len(b) : (b \o d)[k] = b[k]
           /\ \A k \in 1 .. Len(d) : (b \o d)[Len(b) + k] = d[k]
           /\ \A k \in (Len(b) + 1) .. (Len(b) + Len(d)) : (b \o d)[k] = d[k - Len(b)]
OBVIOUS

LEMMA KindsTogether ==
    ASSUME NEW b \in Seq(Block), NEW d \in Seq(Block), NEW kind,
           \A k \in DOMAIN b : b[k].kind # kind, \A k \in DOMAIN d : d[k].kind # kind
    PROVE  \A k \in DOMAIN (b \o d) : (b \o d)[k].kind # kind
<1>1. /\ DOMAIN (b \o d) = 1 .. (Len(b) + Len(d))
      /\ Len(b) \in Nat /\ Len(d) \in Nat
      /\ DOMAIN b = 1 .. Len(b) /\ DOMAIN d = 1 .. Len(d)
      /\ \A k \in 1 .. Len(b) : (b \o d)[k] = b[k]
      /\ \A k \in (Len(b) + 1) .. (Len(b) + Len(d)) : (b \o d)[k] = d[k - Len(b)]
  BY BlocksTogether
<1>2. TAKE k \in DOMAIN (b \o d)
<1>3. CASE k <= Len(b)
  <2>1. k \in DOMAIN b /\ (b \o d)[k] = b[k]
    BY <1>1, <1>3
  <2>2. QED
    BY <2>1
<1>4. CASE k > Len(b)
  <2>1. k - Len(b) \in DOMAIN d /\ (b \o d)[k] = d[k - Len(b)]
    BY <1>1, <1>4
  <2>2. QED
    BY <2>1
<1>5. QED
  BY <1>1, <1>3, <1>4

LEMMA BlocksOfMessage ==
    ASSUME NEW m \in Message
    PROVE  /\ Blocks(m) \in Seq(Block)
           /\ Speaker(m) \in {"user", "assistant"}
           /\ m.role = "tool" =>
                /\ Len(Blocks(m)) = 1
                /\ Blocks(m)[1] = [kind |-> "result", id |-> m.answers]
           /\ m.role # "tool" /\ m.calls = <<>> =>
                \A k \in DOMAIN Blocks(m) : Blocks(m)[k].kind = "text"
           /\ \A k \in DOMAIN Blocks(m) :
                /\ m.role # "tool" => Blocks(m)[k].kind # "result"
                /\ m.role = "tool" \/ m.calls = <<>> => Blocks(m)[k].kind # "call"
           /\ m.role # "tool" /\ m.calls # <<>> =>
                /\ Len(Blocks(m)) = Len(m.calls)
                /\ \A k \in DOMAIN m.calls : Blocks(m)[k] = [kind |-> "call", id |-> m.calls[k]]
<1>1. /\ m.calls \in Seq(1 .. 2) /\ m.answers \in (1 .. 2) \cup {None}
      /\ Speaker(m) \in {"user", "assistant"}
  BY DEF Message, Speaker
<1>2. CASE m.role = "tool"
  <2>1. [kind |-> "result", id |-> m.answers] \in Block
    BY <1>1 DEF Block
  <2>2. QED
    BY <1>1, <1>2, <2>1 DEF Blocks
<1>3. CASE m.role # "tool" /\ m.calls = <<>>
  <2>1. [kind |-> "text", id |-> None] \in Block
    BY DEF Block
  <2>2. Blocks(m) = <<[kind |-> "text", id |-> None]>>
    BY <1>3 DEF Blocks
  <2>3. QED
    BY <1>1, <1>3, <2>1, <2>2
<1>4. CASE m.role # "tool" /\ m.calls # <<>>
  <2>1. Blocks(m) = [k \in DOMAIN m.calls |-> [kind |-> "call", id |-> m.calls[k]]]
    BY <1>4 DEF Blocks
  <2>2. DOMAIN m.calls = 1 .. Len(m.calls) /\ Len(m.calls) \in Nat
        /\ \A k \in DOMAIN m.calls : m.calls[k] \in 1 .. 2
    BY <1>1
  <2>3. \A k \in DOMAIN m.calls : [kind |-> "call", id |-> m.calls[k]] \in Block
    BY <2>2 DEF Block
  <2>4. QED
    BY <1>1, <1>4, <2>1, <2>2, <2>3
<1>5. QED
  BY <1>2, <1>3, <1>4

\* A message continues the last turn or begins one.
Continues(turns, new, m) ==
    LET l == Len(turns)
    IN  /\ turns # <<>> /\ turns[l].role = Speaker(m)
        /\ Len(new) = l
        /\ \A i \in 1 .. (l - 1) : new[i] = turns[i]
        /\ new[l] = [role |-> Speaker(m), blocks |-> turns[l].blocks \o Blocks(m)]

Begins(turns, new, m) ==
    LET l == Len(turns)
    IN  /\ turns # <<>> => turns[l].role # Speaker(m)
        /\ Len(new) = l + 1
        /\ \A i \in 1 .. l : new[i] = turns[i]
        /\ new[l + 1] = [role |-> Speaker(m), blocks |-> Blocks(m)]

LEMMA MessageAdded ==
    ASSUME NEW turns \in Seq(Turn), NEW m \in Message
    PROVE  /\ AddMessage(turns, m) \in Seq(Turn)
           /\ IF m.role = "system" THEN AddMessage(turns, m) = turns
              ELSE \/ Continues(turns, AddMessage(turns, m), m)
                   \/ Begins(turns, AddMessage(turns, m), m)
<1> DEFINE l == Len(turns)
           new == AddMessage(turns, m)
<1>1. /\ l \in Nat /\ DOMAIN turns = 1 .. l
      /\ \A i \in 1 .. l : turns[i] \in Turn
      /\ turns # <<>> => l \in 1 .. l /\ Last(turns) = turns[l]
  BY DEF Last
<1>2. Blocks(m) \in Seq(Block) /\ Speaker(m) \in {"user", "assistant"}
  BY BlocksOfMessage
<1>3. CASE m.role = "system"
  BY <1>3 DEF AddMessage
<1>4. CASE m.role # "system" /\ turns # <<>> /\ Last(turns).role = Speaker(m)
  <2>1. new = [turns EXCEPT ![l].blocks = @ \o Blocks(m)]
    BY <1>4 DEF AddMessage
  <2>2. turns[l].blocks \in Seq(Block) /\ turns[l] \in Turn
    BY <1>1, <1>4 DEF Turn
  <2>3. PICK both \in Seq(Block) : both = turns[l].blocks \o Blocks(m)
    BY <1>2, <2>2, BlocksTogether, Zenon
  <2>4. new = [turns EXCEPT ![l] = [turns[l] EXCEPT !.blocks = both]]
    BY <2>1, <2>3
  <2>5. [turns[l] EXCEPT !.blocks = both] = [role |-> Speaker(m), blocks |-> both]
    BY <1>1, <1>4, <2>2 DEF Turn
  <2>6. [role |-> Speaker(m), blocks |-> both] \in Turn
    BY <1>2 DEF Turn
  <2> HIDE DEF new
  <2>7. new \in Seq(Turn) /\ Len(new) = l /\ new[l] = [role |-> Speaker(m), blocks |-> both]
        /\ \A i \in 1 .. (l - 1) : new[i] = turns[i]
    BY <1>1, <1>4, <2>4, <2>5, <2>6
  <2>8. Continues(turns, new, m)
    BY <1>1, <1>4, <2>3, <2>7 DEF Continues
  <2>9. QED
    BY <1>4, <2>7, <2>8 DEF new
<1>5. CASE m.role # "system" /\ ~ (turns # <<>> /\ Last(turns).role = Speaker(m))
  <2>1. PICK turn \in Turn : turn = [role |-> Speaker(m), blocks |-> Blocks(m)]
    BY <1>2 DEF Turn
  <2>2. new = Append(turns, turn)
    BY <1>5, <2>1 DEF AddMessage
  <2> HIDE DEF new
  <2>3. /\ new \in Seq(Turn) /\ Len(new) = l + 1 /\ new[l + 1] = turn
        /\ \A i \in 1 .. l : new[i] = turns[i]
    BY <1>1, <2>2
  <2>4. Begins(turns, new, m)
    BY <1>1, <1>5, <2>1, <2>3 DEF Begins
  <2>5. QED
    BY <1>5, <2>3, <2>4 DEF new
<1>6. QED
  BY <1>3, <1>4, <1>5

Alternating(turns) ==
    \A i \in DOMAIN turns : turns[i].role = IF i % 2 = 1 THEN "user" ELSE "assistant"

LEMMA TurnsAlternate ==
    ASSUME NEW turns \in Seq(Turn), NEW m \in Message, Alternating(turns),
           turns = <<>> => m.role \in {"system", "user"}
    PROVE  Alternating(AddMessage(turns, m))
<1> DEFINE l == Len(turns)
<1>1. PICK new \in Seq(Turn) : new = AddMessage(turns, m)
  BY MessageAdded
<1>2. l \in Nat /\ DOMAIN turns = 1 .. l /\ DOMAIN new = 1 .. Len(new)
  OBVIOUS
<1>3. CASE new = turns
  BY <1>1, <1>3
<1>4. CASE Continues(turns, new, m)
  <2>1. /\ Len(new) = l /\ \A i \in 1 .. (l - 1) : new[i] = turns[i]
        /\ new[l].role = turns[l].role
    BY <1>4 DEF Continues
  <2>2. \A i \in 1 .. l : new[i].role = turns[i].role
    BY <1>2, <2>1
  <2>3. QED
    BY <1>1, <1>2, <2>1, <2>2 DEF Alternating
<1>5. CASE Begins(turns, new, m)
  <2>1. /\ Len(new) = l + 1 /\ \A i \in 1 .. l : new[i] = turns[i]
        /\ new[l + 1].role = Speaker(m)
        /\ turns # <<>> => turns[l].role # Speaker(m)
    BY <1>5 DEF Begins
  <2>2. Speaker(m) \in {"user", "assistant"}
    BY BlocksOfMessage
  <2>3. Speaker(m) = IF (l + 1) % 2 = 1 THEN "user" ELSE "assistant"
    <3>1. CASE turns = <<>>
      BY <1>2, <3>1 DEF Speaker
    <3>2. CASE turns # <<>>
      <4>1. turns[l].role = IF l % 2 = 1 THEN "user" ELSE "assistant"
        BY <1>2, <3>2 DEF Alternating
      <4>2. (l + 1) % 2 = 1 <=> l % 2 # 1
        BY <1>2
      <4>3. QED
        BY <2>1, <2>2, <3>2, <4>1, <4>2
    <3>3. QED
      BY <3>1, <3>2
  <2>4. QED
    BY <1>1, <1>2, <2>1, <2>3 DEF Alternating
<1>6. QED
  BY <1>1, <1>3, <1>4, <1>5, MessageAdded

\* A turn ends with these calls and has no other.
Asks(turn, calls) ==
    LET before == Len(turn.blocks) - Len(calls)
    IN  /\ before >= 0
        /\ \A k \in DOMAIN turn.blocks : turn.blocks[k].kind = "call" <=> k > before
        /\ \A k \in DOMAIN calls : turn.blocks[before + k].id = calls[k]

LEMMA CallsBehind ==
    ASSUME NEW b \in Seq(Block), NEW d \in Seq(Block), NEW calls \in Seq(1 .. 2), NEW turn,
           turn.blocks = b \o d, Len(d) = Len(calls), DOMAIN d = DOMAIN calls,
           \A k \in DOMAIN b : b[k].kind # "call",
           \A k \in DOMAIN d : d[k] = [kind |-> "call", id |-> calls[k]]
    PROVE  Asks(turn, calls)
<1>1. /\ DOMAIN (b \o d) = 1 .. (Len(b) + Len(d)) /\ Len(b \o d) = Len(b) + Len(d)
      /\ Len(b) \in Nat /\ Len(d) \in Nat
      /\ DOMAIN b = 1 .. Len(b) /\ DOMAIN d = 1 .. Len(d)
      /\ \A k \in 1 .. Len(b) : (b \o d)[k] = b[k]
      /\ \A k \in 1 .. Len(d) : (b \o d)[Len(b) + k] = d[k]
      /\ \A k \in (Len(b) + 1) .. (Len(b) + Len(d)) : (b \o d)[k] = d[k - Len(b)]
  BY BlocksTogether
<1>2. Len(turn.blocks) - Len(calls) = Len(b)
  BY <1>1
<1>3. ASSUME NEW k \in DOMAIN (b \o d)
      PROVE  (b \o d)[k].kind = "call" <=> k > Len(b)
  <2>1. CASE k <= Len(b)
    <3>1. k \in DOMAIN b /\ (b \o d)[k] = b[k] /\ ~ (k > Len(b))
      BY <1>1, <2>1
    <3>2. QED
      BY <3>1
  <2>2. CASE k > Len(b)
    <3>1. k - Len(b) \in DOMAIN d /\ (b \o d)[k] = d[k - Len(b)]
      BY <1>1, <2>2
    <3>2. d[k - Len(b)].kind = "call"
      BY <3>1
    <3>3. QED
      BY <2>2, <3>1, <3>2
  <2>3. QED
    BY <1>1, <2>1, <2>2
<1>4. ASSUME NEW k \in DOMAIN calls
      PROVE  (b \o d)[Len(b) + k].id = calls[k]
  <2>1. k \in DOMAIN d /\ k \in 1 .. Len(d)
    BY <1>1
  <2>2. (b \o d)[Len(b) + k] = d[k] /\ d[k].id = calls[k]
    BY <1>1, <2>1
  <2>3. QED
    BY <2>2
<1>5. QED
  BY <1>1, <1>2, <1>3, <1>4 DEF Asks

\* Up to the turn n every turn but the first begins with the results of the
\* one before it.
Replied(turns, n) ==
    /\ Without("result", turns[1])
    /\ \A i \in 2 .. n : \E c \in 0 .. Len(turns[i].blocks) : Replies(turns[i - 1], turns[i], c)

\* No call is left to answer.
Settled(turns) ==
    /\ turns # <<>>
    /\ Replied(turns, Len(turns))
    /\ Without("call", turns[Len(turns)])

\* The last calls have got the first r of their results.
Awaits(turns, calls, r) ==
    LET l == Len(turns)
    IN  IF r = 0
        THEN /\ l >= 2 /\ turns[l].role = "assistant"
             /\ Replied(turns, l)
             /\ Asks(turns[l], calls)
        ELSE /\ l >= 3 /\ turns[l].role = "user"
             /\ Replied(turns, l - 1)
             /\ Asks(turns[l - 1], calls)
             /\ Len(turns[l].blocks) = r
             /\ \A k \in 1 .. r : turns[l].blocks[k] = [kind |-> "result", id |-> calls[k]]

\* What is said behind the results does not matter.
LEMMA RepliesAnyway ==
    ASSUME NEW turn \in Turn, NEW t \in Turn, NEW u \in Turn, NEW c \in 0 .. Len(t.blocks),
           Replies(turn, t, c), NEW d \in Seq(Block), u.blocks = t.blocks \o d,
           \A k \in DOMAIN d : d[k].kind # "result"
    PROVE  c \in 0 .. Len(u.blocks) /\ Replies(turn, u, c)
<1>1. t.blocks \in Seq(Block) /\ turn.blocks \in Seq(Block)
  BY DEF Turn
<1>2. PICK b \in Seq(Block) : b = t.blocks
  BY <1>1
<1>3. PICK e \in Seq(Block) : e = b \o d
  BY BlocksTogether, Zenon
<1>4. /\ Len(e) = Len(b) + Len(d) /\ Len(b) \in Nat /\ Len(d) \in Nat
      /\ DOMAIN b = 1 .. Len(b) /\ DOMAIN d = 1 .. Len(d) /\ DOMAIN e = 1 .. (Len(b) + Len(d))
      /\ \A k \in 1 .. Len(b) : e[k] = b[k]
      /\ \A k \in (Len(b) + 1) .. (Len(b) + Len(d)) : e[k] = d[k - Len(b)]
  BY <1>3, BlocksTogether
<1>5. c \in 0 .. Len(b) /\ u.blocks = e
  BY <1>2, <1>3
<1>6. ASSUME NEW k \in DOMAIN e
      PROVE  e[k].kind = "result" <=> k <= c
  <2>1. CASE k <= Len(b)
    <3>1. k \in DOMAIN b /\ e[k] = b[k]
      BY <1>4, <2>1
    <3>2. QED
      BY <1>2, <3>1 DEF Replies
  <2>2. CASE k > Len(b)
    <3>1. k - Len(b) \in DOMAIN d /\ e[k] = d[k - Len(b)]
      BY <1>4, <2>2
    <3>2. ~ (k <= c)
      BY <1>4, <1>5, <2>2
    <3>3. QED
      BY <3>1, <3>2
  <2>3. QED
    BY <1>4, <2>1, <2>2
<1>7. \A k \in 1 .. c : e[k] = b[k]
  BY <1>4, <1>5
<1>8. \A k \in 1 .. c : u.blocks[k].id = turn.blocks[Len(turn.blocks) - c + k].id
  <2>1. \A k \in 1 .. c : b[k].id = turn.blocks[Len(turn.blocks) - c + k].id
    BY <1>2 DEF Replies
  <2>2. QED
    BY <1>5, <1>7, <2>1
<1>9. /\ c <= Len(turn.blocks)
      /\ \A k \in DOMAIN turn.blocks :
           turn.blocks[k].kind = "call" <=> k > Len(turn.blocks) - c
  BY Zenon DEF Replies
<1>10. \A k \in DOMAIN u.blocks : u.blocks[k].kind = "result" <=> k <= c
  BY <1>5, <1>6, Zenon
<1>11. c \in 0 .. Len(u.blocks)
  BY <1>4, <1>5
<1>12. QED
  BY <1>8, <1>9, <1>10, <1>11, Zenon DEF Replies

\* Nothing was asked, and nothing is answered.
LEMMA NoCallsNoResults ==
    ASSUME NEW t \in Turn, NEW u \in Turn, Without("call", t), Without("result", u)
    PROVE  0 \in 0 .. Len(u.blocks) /\ Replies(t, u, 0)
<1>1. /\ Len(t.blocks) \in Nat /\ DOMAIN t.blocks = 1 .. Len(t.blocks)
      /\ Len(u.blocks) \in Nat /\ DOMAIN u.blocks = 1 .. Len(u.blocks)
  BY DEF Turn
<1>2. \A k \in DOMAIN t.blocks : t.blocks[k].kind = "call" <=> k > Len(t.blocks) - 0
  BY <1>1 DEF Without
<1>3. \A k \in DOMAIN u.blocks : u.blocks[k].kind = "result" <=> k <= 0
  BY <1>1 DEF Without
<1>4. QED
  BY <1>1, <1>2, <1>3 DEF Replies

\* All that was asked is answered.
LEMMA AllAnswered ==
    ASSUME NEW t \in Turn, NEW u \in Turn, NEW calls \in Seq(1 .. 2), Asks(t, calls),
           Len(u.blocks) = Len(calls),
           \A k \in 1 .. Len(calls) : u.blocks[k] = [kind |-> "result", id |-> calls[k]]
    PROVE  Len(calls) \in 0 .. Len(u.blocks) /\ Replies(t, u, Len(calls))
<1>1. /\ Len(t.blocks) \in Nat /\ DOMAIN t.blocks = 1 .. Len(t.blocks)
      /\ Len(u.blocks) \in Nat /\ DOMAIN u.blocks = 1 .. Len(u.blocks)
      /\ Len(calls) \in Nat /\ DOMAIN calls = 1 .. Len(calls)
  BY DEF Turn
<1>2. ASSUME NEW k \in 1 .. Len(calls)
      PROVE  /\ u.blocks[k].kind = "result" /\ k <= Len(calls)
             /\ u.blocks[k].id = t.blocks[Len(t.blocks) - Len(calls) + k].id
  <2>1. u.blocks[k].kind = "result" /\ u.blocks[k].id = calls[k] /\ k <= Len(calls)
    <3>1. u.blocks[k] = [kind |-> "result", id |-> calls[k]]
      BY Zenon
    <3>2. k <= Len(calls)
      BY <1>1
    <3>3. QED
      BY <3>1, <3>2
  <2>2. t.blocks[Len(t.blocks) - Len(calls) + k].id = calls[k]
    BY <1>1 DEF Asks
  <2>3. QED
    BY <2>1, <2>2
<1>3. DOMAIN u.blocks = 1 .. Len(calls)
  BY <1>1
<1>4. \A k \in DOMAIN u.blocks : u.blocks[k].kind = "result" <=> k <= Len(calls)
  BY <1>2, <1>3, Zenon
<1>5. /\ Len(calls) <= Len(t.blocks)
      /\ \A k \in DOMAIN t.blocks :
            t.blocks[k].kind = "call" <=> k > Len(t.blocks) - Len(calls)
  BY <1>1 DEF Asks
<1>6. Len(calls) \in 0 .. Len(u.blocks)
  BY <1>1
<1>7. QED
  BY <1>2, <1>4, <1>5, <1>6, Zenon DEF Replies

\* Saying more in the last turn, or another turn, keeps what was replied.
LEMMA RepliedStays ==
    ASSUME NEW turns \in Seq(Turn), turns # <<>>, NEW m \in Message, NEW new \in Seq(Turn),
           Replied(turns, Len(turns)), m.role # "system",
           m.role # "tool", Continues(turns, new, m)
    PROVE  Replied(new, Len(new))
<1> DEFINE l == Len(turns)
<1>1. /\ l \in Nat /\ l >= 1 /\ DOMAIN turns = 1 .. l /\ DOMAIN new = 1 .. Len(new)
      /\ Len(new) = l
      /\ \A i \in 1 .. l : turns[i] \in Turn /\ new[i] \in Turn
  BY DEF Continues
<1>2. /\ \A i \in 1 .. (l - 1) : new[i] = turns[i]
      /\ new[l].blocks = turns[l].blocks \o Blocks(m)
  BY DEF Continues
<1>3. PICK d \in Seq(Block) : d = Blocks(m) /\ \A k \in DOMAIN d : d[k].kind # "result"
  BY BlocksOfMessage
<1>4. Without("result", new[1])
  <2>1. Without("result", turns[1])
    BY DEF Replied
  <2>2. CASE l # 1
    BY <1>1, <1>2, <2>1, <2>2
  <2>3. CASE l = 1
    <3>1. PICK b \in Seq(Block) : b = turns[1].blocks
      BY <1>1 DEF Turn
    <3>2. /\ DOMAIN (b \o d) = 1 .. (Len(b) + Len(d))
          /\ Len(b) \in Nat /\ Len(d) \in Nat
          /\ DOMAIN b = 1 .. Len(b) /\ DOMAIN d = 1 .. Len(d)
          /\ \A k \in 1 .. Len(b) : (b \o d)[k] = b[k]
          /\ \A k \in (Len(b) + 1) .. (Len(b) + Len(d)) : (b \o d)[k] = d[k - Len(b)]
      BY BlocksTogether
    <3>3. \A k \in DOMAIN b : b[k].kind # "result"
      BY <2>1, <3>1 DEF Without
    <3>4. ASSUME NEW k \in DOMAIN (b \o d)
          PROVE  (b \o d)[k].kind # "result"
      <4>1. CASE k <= Len(b)
        <5>1. k \in DOMAIN b /\ (b \o d)[k] = b[k]
          BY <3>2, <4>1
        <5>2. QED
          BY <3>3, <5>1
      <4>2. CASE k > Len(b)
        <5>1. k - Len(b) \in DOMAIN d /\ (b \o d)[k] = d[k - Len(b)]
          BY <3>2, <4>2
        <5>2. QED
          BY <1>3, <5>1
      <4>3. QED
        BY <3>2, <4>1, <4>2
    <3>5. new[1].blocks = b \o d
      BY <1>2, <1>3, <2>3, <3>1
    <3>6. QED
      BY <3>4, <3>5 DEF Without
  <2>4. QED
    BY <2>2, <2>3
<1>5. ASSUME NEW i \in 2 .. l
      PROVE  \E c \in 0 .. Len(new[i].blocks) : Replies(new[i - 1], new[i], c)
  <2>1. PICK c \in 0 .. Len(turns[i].blocks) : Replies(turns[i - 1], turns[i], c)
    BY DEF Replied
  <2>2. new[i - 1] = turns[i - 1] /\ turns[i - 1] \in Turn /\ turns[i] \in Turn /\ new[i] \in Turn
    BY <1>1, <1>2
  <2>3. CASE i # l
    <3>1. i \in 1 .. (l - 1)
      <4>1. PICK n \in Nat : n = l
        BY <1>1
      <4>2. QED
        BY <2>3, <4>1
    <3>2. QED
      BY <1>2, <2>1, <2>2, <3>1
  <2>4. CASE i = l
    <3>1. new[i].blocks = turns[i].blocks \o d
      BY <1>2, <1>3, <2>4
    <3>2. QED
      BY <1>3, <2>1, <2>2, <3>1, RepliesAnyway
  <2>5. QED
    BY <2>3, <2>4
<1>6. QED
  BY <1>1, <1>4, <1>5 DEF Replied

\* The next turn does not begin with results, if nothing was asked.
LEMMA RepliedAgain ==
    ASSUME NEW turns \in Seq(Turn), turns # <<>>, NEW new \in Seq(Turn),
           Replied(turns, Len(turns)), Len(new) = Len(turns) + 1,
           \A i \in 1 .. Len(turns) : new[i] = turns[i],
           NEW c \in 0 .. Len(new[Len(new)].blocks),
           Replies(turns[Len(turns)], new[Len(new)], c)
    PROVE  Replied(new, Len(new))
<1>1. PICK n \in Nat : n = Len(turns) /\ n >= 1
  OBVIOUS
<1>2. Len(new) = n + 1 /\ \A i \in 1 .. n : new[i] = turns[i]
  BY <1>1
<1>3. Without("result", new[1])
  BY <1>1, <1>2 DEF Replied
<1>4. ASSUME NEW i \in 2 .. (n + 1)
      PROVE  \E e \in 0 .. Len(new[i].blocks) : Replies(new[i - 1], new[i], e)
  <2>1. i - 1 \in 1 .. n /\ new[i - 1] = turns[i - 1]
    BY <1>2
  <2>2. CASE i \in 2 .. n
    <3>1. new[i] = turns[i]
      BY <1>2, <2>2
    <3>2. QED
      BY <1>1, <2>1, <2>2, <3>1 DEF Replied
  <2>3. CASE i = n + 1
    <3>1. new[i - 1] = turns[Len(turns)] /\ new[i] = new[Len(new)]
      BY <1>1, <1>2, <2>1, <2>3
    <3>2. QED
      BY <3>1
  <2>4. QED
    BY <2>2, <2>3
<1>5. QED
  BY <1>2, <1>3, <1>4 DEF Replied

\* Something is said by the user, or by the model without a call.
LEMMA SettledStays ==
    ASSUME NEW turns \in Seq(Turn), Settled(turns), NEW m \in Message,
           m.role # "tool", m.calls = <<>>
    PROVE  Settled(AddMessage(turns, m))
<1>1. PICK new \in Seq(Turn) : new = AddMessage(turns, m)
  BY MessageAdded
<1>2. PICK d \in Seq(Block) :
        d = Blocks(m) /\ \A k \in DOMAIN d : d[k].kind # "result" /\ d[k].kind # "call"
  BY BlocksOfMessage
<1>3. PICK l \in Nat : l = Len(turns) /\ l >= 1 /\ DOMAIN turns = 1 .. l
                       /\ \A i \in 1 .. l : turns[i] \in Turn
  BY DEF Settled
<1>4. /\ Replied(turns, l) /\ Without("call", turns[l]) /\ turns # <<>>
  BY <1>3 DEF Settled
<1>5. CASE new = turns
  BY <1>1, <1>5
<1>6. CASE m.role # "system" /\ Continues(turns, new, m)
  <2>1. Len(new) = l /\ new[l].blocks = turns[l].blocks \o d
    BY <1>2, <1>3, <1>6 DEF Continues
  <2>2. Replied(new, Len(new))
    BY <1>3, <1>4, <1>6, RepliedStays
  <2>3. PICK b \in Seq(Block) : b = turns[l].blocks
    BY <1>3 DEF Turn
  <2>4. Without("call", new[l])
    <3>1. \A k \in DOMAIN b : b[k].kind # "call"
      BY <1>4, <2>3 DEF Without
    <3>2. \A k \in DOMAIN (b \o d) : (b \o d)[k].kind # "call"
      BY <1>2, <3>1, KindsTogether
    <3>3. QED
      BY <2>1, <2>3, <3>2 DEF Without
  <2>5. QED
    BY <1>1, <1>3, <2>1, <2>2, <2>4 DEF Settled
<1>7. CASE m.role # "system" /\ Begins(turns, new, m)
  <2>1. /\ Len(new) = l + 1 /\ new[l + 1].blocks = d
        /\ \A i \in 1 .. l : new[i] = turns[i]
    BY <1>2, <1>3, <1>7 DEF Begins
  <2>2. new[l + 1] \in Turn /\ turns[l] \in Turn
    BY <1>3, <2>1
  <2>3. Without("result", new[l + 1]) /\ Without("call", new[l + 1])
    BY <1>2, <2>1 DEF Without
  <2>4. 0 \in 0 .. Len(new[l + 1].blocks) /\ Replies(turns[l], new[l + 1], 0)
    BY <1>4, <2>2, <2>3, NoCallsNoResults
  <2>5. Replied(new, Len(new))
    BY <1>3, <1>4, <2>1, <2>4, RepliedAgain
  <2>6. QED
    BY <1>1, <1>3, <2>1, <2>3, <2>5 DEF Settled
<1>8. QED
  BY <1>1, <1>5, <1>6, <1>7, MessageAdded

\* The model calls tools.
LEMMA CallsAwait ==
    ASSUME NEW turns \in Seq(Turn), Alternating(turns), Settled(turns), NEW m \in Message,
           m.role = "assistant", m.calls # <<>>
    PROVE  Awaits(AddMessage(turns, m), m.calls, 0)
<1>1. PICK new \in Seq(Turn) : new = AddMessage(turns, m)
  BY MessageAdded
<1>2. PICK calls \in Seq(1 .. 2) : calls = m.calls /\ DOMAIN calls = 1 .. Len(calls)
                                   /\ Len(calls) \in Nat
  BY DEF Message
<1>3. PICK d \in Seq(Block) :
        /\ d = Blocks(m) /\ Len(d) = Len(calls) /\ DOMAIN d = DOMAIN calls
        /\ \A k \in DOMAIN d : d[k] = [kind |-> "call", id |-> calls[k]]
  <2>1. PICK d \in Seq(Block) :
          /\ d = Blocks(m) /\ Len(d) = Len(m.calls)
          /\ \A k \in DOMAIN m.calls : d[k] = [kind |-> "call", id |-> m.calls[k]]
    BY BlocksOfMessage
  <2>2. DOMAIN d = 1 .. Len(d)
    OBVIOUS
  <2>3. QED
    BY <1>2, <2>1, <2>2
<1>4. PICK l \in Nat : l = Len(turns) /\ l >= 1 /\ DOMAIN turns = 1 .. l
                       /\ \A i \in 1 .. l : turns[i] \in Turn
  BY DEF Settled
<1>5. Replied(turns, l) /\ Without("call", turns[l]) /\ turns # <<>>
  BY <1>4 DEF Settled
<1>6. turns[1].role = "user" /\ Speaker(m) = "assistant"
  BY <1>4 DEF Alternating, Speaker
<1>7. CASE Continues(turns, new, m)
  <2>1. /\ Len(new) = l /\ new[l].blocks = turns[l].blocks \o d
        /\ new[l].role = "assistant" /\ turns[l].role = "assistant"
    BY <1>3, <1>4, <1>6, <1>7 DEF Continues
  <2>2. Replied(new, Len(new))
    BY <1>4, <1>5, <1>7, RepliedStays
  <2>3. l >= 2
    BY <1>4, <1>6, <2>1
  <2>4. PICK b \in Seq(Block) : b = turns[l].blocks
    BY <1>4 DEF Turn
  <2>5. \A k \in DOMAIN b : b[k].kind # "call"
    BY <1>5, <2>4 DEF Without
  <2>6. Asks(new[l], calls)
    BY <1>2, <1>3, <2>1, <2>4, <2>5, CallsBehind
  <2>7. QED
    BY <1>1, <1>2, <2>1, <2>2, <2>3, <2>6 DEF Awaits
<1>8. CASE Begins(turns, new, m)
  <2>1. /\ Len(new) = l + 1 /\ new[l + 1].blocks = d /\ new[l + 1].role = "assistant"
        /\ \A i \in 1 .. l : new[i] = turns[i]
    BY <1>3, <1>4, <1>6, <1>8 DEF Begins
  <2>2. new[l + 1] \in Turn /\ turns[l] \in Turn
    BY <1>4, <2>1
  <2>3. Without("result", new[l + 1])
    BY <1>3, <2>1 DEF Without
  <2>4. 0 \in 0 .. Len(new[l + 1].blocks) /\ Replies(turns[l], new[l + 1], 0)
    BY <1>5, <2>2, <2>3, NoCallsNoResults
  <2>5. Replied(new, Len(new))
    BY <1>4, <1>5, <2>1, <2>4, RepliedAgain
  <2>6. Asks(new[l + 1], calls)
    <3>1. Len(new[l + 1].blocks) - Len(calls) = 0
      BY <1>2, <1>3, <2>1
    <3>2. ASSUME NEW k \in DOMAIN calls
          PROVE  0 + k = k /\ k > 0 /\ d[k].kind = "call" /\ d[k].id = calls[k]
      <4>1. d[k] = [kind |-> "call", id |-> calls[k]]
        BY <1>3, Zenon
      <4>2. QED
        BY <1>2, <4>1
    <3>3. \A k \in DOMAIN d : d[k].kind = "call" /\ k > 0
      BY <1>3, <3>2, Zenon
    <3>4. QED
      BY <2>1, <3>1, <3>2, <3>3 DEF Asks
  <2>7. QED
    BY <1>1, <1>2, <1>4, <2>1, <2>5, <2>6 DEF Awaits
<1>9. QED
  BY <1>1, <1>7, <1>8, MessageAdded

\* A result comes.
LEMMA ResultSettles ==
    ASSUME NEW turns \in Seq(Turn), Alternating(turns), NEW calls \in Seq(1 .. 2),
           NEW r \in Nat, r < Len(calls), Awaits(turns, calls, r),
           NEW m \in Message, m.role = "tool", m.answers = calls[r + 1]
    PROVE  IF r + 1 = Len(calls) THEN Settled(AddMessage(turns, m))
           ELSE Awaits(AddMessage(turns, m), calls, r + 1)
<1>1. PICK new \in Seq(Turn) : new = AddMessage(turns, m)
  BY MessageAdded
<1>2. PICK d \in Seq(Block) :
        d = Blocks(m) /\ Len(d) = 1 /\ d[1] = [kind |-> "result", id |-> calls[r + 1]]
  BY BlocksOfMessage
<1>3. PICK l \in Nat : l = Len(turns) /\ l >= 2 /\ DOMAIN turns = 1 .. l
                       /\ \A i \in 1 .. l : turns[i] \in Turn
  BY DEF Awaits
<1>4. Continues(turns, new, m) \/ Begins(turns, new, m)
  BY <1>1, MessageAdded
<1>5. Speaker(m) = "user" /\ turns # <<>>
  BY <1>3 DEF Speaker
<1>6. PICK n \in Nat :
        /\ Len(new) = n + 1 /\ n >= 2 /\ \A i \in 1 .. n : new[i] = turns[i]
        /\ new[n + 1].role = "user" /\ new[n + 1] \in Turn
        /\ Replied(turns, n) /\ turns[n] \in Turn /\ Asks(turns[n], calls)
        /\ Len(new[n + 1].blocks) = r + 1
        /\ \A k \in 1 .. (r + 1) :
             new[n + 1].blocks[k] = [kind |-> "result", id |-> calls[k]]
  <2>1. CASE r = 0
    <3>1. /\ turns[l].role = "assistant" /\ Replied(turns, l) /\ Asks(turns[l], calls)
      BY <1>3, <2>1 DEF Awaits
    <3>2. Begins(turns, new, m)
      BY <1>3, <1>4, <1>5, <3>1 DEF Continues
    <3>3. /\ Len(new) = l + 1 /\ \A i \in 1 .. l : new[i] = turns[i]
          /\ new[l + 1].role = "user" /\ new[l + 1].blocks = d
      BY <1>2, <1>3, <1>5, <3>2 DEF Begins
    <3>4. new[l + 1] \in Turn
      BY <3>3
    <3>5. ASSUME NEW k \in 1 .. (r + 1)
          PROVE  d[k] = [kind |-> "result", id |-> calls[k]]
      <4>1. k = 1 /\ r + 1 = 1
        BY <2>1
      <4>2. QED
        BY <1>2, <4>1
    <3>6. Len(new[l + 1].blocks) = r + 1 /\ turns[l] \in Turn
      BY <1>2, <1>3, <2>1, <3>3
    <3>7. \A k \in 1 .. (r + 1) :
             new[l + 1].blocks[k] = [kind |-> "result", id |-> calls[k]]
      BY <3>3, <3>5, Zenon
    <3>8. QED
      BY <1>3, <3>1, <3>3, <3>4, <3>6, <3>7, Zenon
  <2>2. CASE r # 0
    <3>1. /\ l >= 3 /\ turns[l].role = "user" /\ Replied(turns, l - 1)
          /\ Asks(turns[l - 1], calls) /\ Len(turns[l].blocks) = r
          /\ \A k \in 1 .. r : turns[l].blocks[k] = [kind |-> "result", id |-> calls[k]]
      BY <1>3, <2>2 DEF Awaits
    <3>2. Continues(turns, new, m)
      BY <1>3, <1>4, <1>5, <3>1 DEF Begins
    <3>3. /\ Len(new) = l /\ \A i \in 1 .. (l - 1) : new[i] = turns[i]
          /\ new[l].role = "user" /\ new[l].blocks = turns[l].blocks \o d
      BY <1>2, <1>3, <1>5, <3>2 DEF Continues
    <3>4. PICK b \in Seq(Block) : b = turns[l].blocks
      BY <1>3, <3>1 DEF Turn
    <3>5. /\ Len(b \o d) = r + 1 /\ \A k \in 1 .. r : (b \o d)[k] = b[k]
          /\ (b \o d)[r + 1] = d[1]
      <4>1. Len(b) = r /\ 1 \in 1 .. Len(d)
        BY <1>2, <3>1, <3>4
      <4>2. /\ Len(b \o d) = Len(b) + Len(d)
            /\ \A k \in 1 .. Len(b) : (b \o d)[k] = b[k]
            /\ \A k \in 1 .. Len(d) : (b \o d)[Len(b) + k] = d[k]
        BY BlocksTogether, Zenon
      <4>3. QED
        BY <1>2, <4>1, <4>2
    <3>6. ASSUME NEW k \in 1 .. (r + 1)
          PROVE  new[l].blocks[k] = [kind |-> "result", id |-> calls[k]]
      <4>1. CASE k = r + 1
        BY <1>2, <3>3, <3>4, <3>5, <4>1
      <4>2. CASE k # r + 1
        <5>1. k \in 1 .. r
          BY <4>2
        <5>2. QED
          BY <3>1, <3>3, <3>4, <3>5, <5>1
      <4>3. QED
        BY <4>1, <4>2
    <3>7. PICK n \in Nat : l = n + 1 /\ n >= 2
      <4>1. l - 1 \in Nat /\ l = (l - 1) + 1 /\ l - 1 >= 2
        BY <3>1
      <4>2. QED
        BY <4>1
    <3>8. l - 1 = n
      BY <3>7
    <3>9. new[n + 1] \in Turn /\ turns[n] \in Turn
      BY <1>3, <3>3, <3>7
    <3>10. /\ Len(new) = n + 1 /\ \A i \in 1 .. n : new[i] = turns[i]
           /\ new[n + 1].role = "user" /\ Len(new[n + 1].blocks) = r + 1
           /\ Replied(turns, n) /\ Asks(turns[n], calls)
      BY <3>1, <3>3, <3>4, <3>5, <3>7, <3>8
    <3>11. \A k \in 1 .. (r + 1) :
              new[n + 1].blocks[k] = [kind |-> "result", id |-> calls[k]]
      BY <3>6, <3>7, Zenon
    <3>12. QED
      BY <3>7, <3>9, <3>10, <3>11, Zenon
  <2>3. QED
    BY <2>1, <2>2
<1>7. Replied(new, n)
  <2>1. 1 \in 1 .. n /\ \A i \in 2 .. n : i \in 1 .. n /\ i - 1 \in 1 .. n
    BY <1>6
  <2>2. QED
    BY <1>6, <2>1 DEF Replied
<1>8. CASE r + 1 = Len(calls)
  <2>1. Len(calls) \in 0 .. Len(new[n + 1].blocks)
        /\ Replies(turns[n], new[n + 1], Len(calls))
    BY <1>6, <1>8, AllAnswered
  <2>2. new[n] = turns[n]
    BY <1>6
  <2>3. Replied(new, n + 1)
    <3>1. ASSUME NEW i \in 2 .. (n + 1)
          PROVE  \E c \in 0 .. Len(new[i].blocks) : Replies(new[i - 1], new[i], c)
      <4>1. CASE i = n + 1
        <5>1. i - 1 = n
          BY <4>1
        <5>2. QED
          BY <2>1, <2>2, <4>1, <5>1
      <4>2. CASE i # n + 1
        <5>1. i \in 2 .. n
          BY <4>2
        <5>2. QED
          BY <1>7, <5>1 DEF Replied
      <4>3. QED
        BY <4>1, <4>2
    <3>2. QED
      BY <1>7, <3>1 DEF Replied
  <2>4. Without("call", new[n + 1])
    <3>1. DOMAIN new[n + 1].blocks = 1 .. (r + 1)
      BY <1>6 DEF Turn
    <3>2. ASSUME NEW k \in 1 .. (r + 1)
          PROVE  new[n + 1].blocks[k].kind # "call"
      <4>1. new[n + 1].blocks[k] = [kind |-> "result", id |-> calls[k]]
        BY <1>6, Zenon
      <4>2. QED
        BY <4>1
    <3>3. QED
      BY <3>1, <3>2, Zenon DEF Without
  <2>5. Settled(new)
    BY <1>6, <2>3, <2>4 DEF Settled
  <2>6. QED
    BY <1>1, <1>8, <2>5
<1>9. CASE r + 1 # Len(calls)
  <2>1. r + 1 # 0 /\ n + 1 >= 3 /\ (n + 1) - 1 = n
    BY <1>6
  <2>2. new[n] = turns[n]
    BY <1>6
  <2>3. Awaits(new, calls, r + 1)
    BY <1>6, <1>7, <2>1, <2>2 DEF Awaits
  <2>4. QED
    BY <1>1, <1>9, <2>3
<1>10. QED
  BY <1>8, <1>9

\* The groups that are open after n messages: there is one at most.
Open(s, n) == {i \in 1 .. n : n - i < Len(s[i].calls)}

Turned(s, n) ==
    LET turns == TurnsAfter(s)[n]
    IN  /\ turns \in Seq(Turn) /\ Alternating(turns)
        /\ n < 2 => turns = <<>>
        /\ n >= 2 /\ Open(s, n) = {} => Settled(turns)
        /\ n >= 2 => \A i \in Open(s, n) : Awaits(turns, s[i].calls, n - i)

\* Between the calls of a message and their last result only results come.
LEMMA OneGroupOpen ==
    ASSUME NEW s \in Seq(Message), Paired(s), NEW n \in 0 .. Len(s),
           NEW i \in Open(s, n), NEW j \in Open(s, n)
    PROVE  i = j
<1>1. n \in Nat /\ n <= Len(s) /\ Len(s) \in Nat /\ DOMAIN s = 1 .. Len(s)
  OBVIOUS
<1>2. ASSUME NEW a \in Open(s, n)
      PROVE  /\ a \in Nat /\ a <= n /\ a \in DOMAIN s
             /\ DOMAIN s[a].calls = 1 .. Len(s[a].calls) /\ Len(s[a].calls) \in Nat
             /\ n - a < Len(s[a].calls) /\ s[a].role # "tool"
  <2>1. a \in 1 .. n /\ n - a < Len(s[a].calls)
    BY DEF Open
  <2>2. a \in Nat /\ a <= n /\ a \in DOMAIN s
    BY <1>1, <2>1
  <2>3. DOMAIN s[a].calls = 1 .. Len(s[a].calls) /\ Len(s[a].calls) \in Nat
    BY <2>2, CallsAreSequence
  <2>4. s[a].calls # <<>>
    BY <1>1, <2>1, <2>2, <2>3
  <2>5. QED
    BY <2>1, <2>2, <2>3, <2>4 DEF Paired
<1>3. ASSUME NEW a \in Open(s, n), NEW b \in Open(s, n), a < b
      PROVE  FALSE
  <2>1. b - a \in DOMAIN s[a].calls /\ a + (b - a) = b
    BY <1>1, <1>2, <1>3
  <2>2. s[a + (b - a)].role = "tool"
    BY <1>2, <2>1 DEF Paired, Answered
  <2>3. QED
    BY <1>2, <2>1, <2>2
<1>4. QED
  BY <1>2, <1>3

LEMMA FirstTurn ==
    ASSUME NEW m \in Message, m.role = "user", m.calls = <<>>
    PROVE  Settled(AddMessage(<<>>, m)) /\ Alternating(AddMessage(<<>>, m))
<1>1. <<>> \in Seq(Turn) /\ Len(<<>>) = 0 /\ Alternating(<<>>)
  BY DEF Alternating
<1>2. PICK new \in Seq(Turn) : new = AddMessage(<<>>, m)
  BY <1>1, MessageAdded
<1>3. Alternating(new)
  BY <1>1, <1>2, TurnsAlternate
<1>4. PICK d \in Seq(Block) :
        d = Blocks(m) /\ \A k \in DOMAIN d : d[k].kind # "result" /\ d[k].kind # "call"
  BY BlocksOfMessage
<1>5. Begins(<<>>, new, m)
  BY <1>1, <1>2, MessageAdded DEF Continues
<1>6. Len(new) = 1 /\ new[1].blocks = d
  BY <1>1, <1>4, <1>5 DEF Begins
<1>7. Without("result", new[1]) /\ Without("call", new[1])
  BY <1>4, <1>6 DEF Without
<1>8. Settled(new)
  <2>1. new # <<>> /\ new[Len(new)] = new[1] /\ 2 .. Len(new) = {}
    <3>1. 2 .. 1 = {}
      OBVIOUS
    <3>2. Len(new) = 1
      BY <1>6
    <3>3. new # <<>>
      <4>1. ASSUME new = <<>>
            PROVE  Len(new) = 0
        BY <1>1, <4>1, Zenon
      <4>2. QED
        BY <3>2, <4>1
    <3>4. QED
      BY <3>1, <3>2, <3>3, Zenon
  <2>2. QED
    BY <1>7, <2>1, Zenon DEF Settled, Replied
<1>9. QED
  BY <1>2, <1>3, <1>8

LEMMA TurnedNext ==
    ASSUME NEW s \in Seq(Message), Paired(s), Len(s) >= 2,
           s[1].role = "system", s[2].role = "user",
           NEW p \in Nat, p + 1 <= Len(s), Turned(s, p)
    PROVE  Turned(s, p + 1)
<1>1. PICK turns \in Seq(Turn) :
        /\ turns = TurnsAfter(s)[p] /\ Alternating(turns)
        /\ p < 2 => turns = <<>>
        /\ p >= 2 /\ Open(s, p) = {} => Settled(turns)
        /\ p >= 2 => \A i \in Open(s, p) : Awaits(turns, s[i].calls, p - i)
  BY DEF Turned
<1>2. PICK m \in Message : m = s[p + 1]
  OBVIOUS
<1>3. TurnsAfter(s)[p + 1] = AddMessage(turns, m)
  <2>1. p + 1 \in 1 .. Len(s) /\ (p + 1) - 1 = p
    OBVIOUS
  <2>2. QED
    BY <1>1, <1>2, <2>1, TurnsOneByOne
<1>4. /\ DOMAIN s = 1 .. Len(s) /\ Len(s) \in Nat
      /\ p + 1 \in DOMAIN s /\ \A i \in 1 .. p : i \in DOMAIN s
  OBVIOUS
<1>5. \A i \in DOMAIN s : /\ s[i].calls \in Seq(1 .. 2) /\ Len(s[i].calls) \in Nat
                          /\ DOMAIN s[i].calls = 1 .. Len(s[i].calls)
                          /\ s[i].role # "assistant" => s[i].calls = <<>>
  BY CallsAreSequence DEF Paired
<1>6. PICK new \in Seq(Turn) : new = AddMessage(turns, m)
  BY MessageAdded
<1>7. \A i \in Open(s, p + 1) : i = p + 1 \/ i \in Open(s, p)
  <2>1. ASSUME NEW i \in Open(s, p + 1), i # p + 1
        PROVE  i \in Open(s, p)
    <3>1. i \in 1 .. (p + 1) /\ (p + 1) - i < Len(s[i].calls)
      BY DEF Open
    <3>2. i \in 1 .. p
      BY <2>1, <3>1
    <3>3. Len(s[i].calls) \in Nat
      BY <1>4, <1>5, <3>2
    <3>4. p - i < Len(s[i].calls)
      BY <3>1, <3>2, <3>3
    <3>5. QED
      BY <3>2, <3>4 DEF Open
  <2>2. QED
    BY <2>1
<1>8. p + 1 \in Open(s, p + 1) <=> m.calls # <<>>
  <2>1. p + 1 \in Open(s, p + 1) <=> 0 < Len(m.calls)
    BY <1>2 DEF Open
  <2>2. QED
    BY <1>2, <1>4, <1>5, <2>1
<1>9. CASE p = 0
  <2>1. turns = <<>> /\ m.role = "system"
    BY <1>1, <1>2, <1>9
  <2>2. new = <<>>
    BY <1>6, <2>1 DEF AddMessage
  <2>3. QED
    BY <1>3, <1>6, <1>9, <2>2 DEF Turned, Alternating
<1>10. CASE p = 1
  <2>1. turns = <<>> /\ m.role = "user" /\ m.calls = <<>>
    BY <1>1, <1>2, <1>4, <1>5, <1>10
  <2>2. Settled(new) /\ Alternating(new)
    BY <1>6, <2>1, FirstTurn
  <2>3. Open(s, p + 1) = {}
    <3>1. s[1].calls = <<>> /\ 1 \in DOMAIN s
      BY <1>4, <1>5
    <3>2. Open(s, p) = {}
      BY <1>10, <3>1 DEF Open
    <3>3. QED
      BY <1>7, <1>8, <2>1, <3>2
  <2>4. QED
    BY <1>3, <1>6, <1>10, <2>2, <2>3 DEF Turned
<1>11. CASE p >= 2
  <2>1. turns # <<>>
    <3>1. Settled(turns) \/ \E calls, r : Awaits(turns, calls, r)
      BY <1>1, <1>11
    <3>2. QED
      BY <3>1 DEF Settled, Awaits
  <2>2. Alternating(new)
    BY <1>1, <1>6, <2>1, TurnsAlternate
  <2>3. CASE Open(s, p) = {}
    <3>1. Settled(turns)
      BY <1>1, <1>11, <2>3
    <3>2. m.role # "tool"
      <4>1. ASSUME m.role = "tool"
            PROVE  FALSE
        <5>1. PICK i \in 1 .. (p + 1) - 1 : (p + 1) - i \in DOMAIN s[i].calls
          BY <1>2, <1>4, <4>1 DEF Paired, Called
        <5>2. i \in 1 .. p
          BY <5>1
        <5>3. p - i < Len(s[i].calls)
          <6>1. (p + 1) - i \in 1 .. Len(s[i].calls) /\ Len(s[i].calls) \in Nat
            BY <1>4, <1>5, <5>1, <5>2
          <6>2. QED
            BY <5>2, <6>1
        <5>4. QED
          BY <2>3, <5>2, <5>3 DEF Open
      <4>2. QED
        BY <4>1
    <3>3. CASE m.calls = <<>>
      <4>1. Settled(new)
        BY <1>6, <3>1, <3>2, <3>3, SettledStays
      <4>2. Open(s, p + 1) = {}
        BY <1>7, <1>8, <2>3, <3>3
      <4>3. QED
        BY <1>3, <1>6, <1>11, <2>2, <4>1, <4>2 DEF Turned
    <3>4. CASE m.calls # <<>>
      <4>1. m.role = "assistant"
        BY <1>2, <1>4, <1>5, <3>4
      <4>2. Awaits(new, m.calls, 0)
        BY <1>1, <1>6, <3>1, <3>4, <4>1, CallsAwait
      <4>3. \A i \in Open(s, p + 1) : s[i].calls = m.calls /\ (p + 1) - i = 0
        BY <1>2, <1>7, <2>3
      <4>4. Open(s, p + 1) # {} /\ ~ (p + 1 < 2)
        BY <1>8, <1>11, <3>4
      <4>5. QED
        BY <1>3, <1>6, <2>2, <4>2, <4>3, <4>4 DEF Turned
    <3>5. QED
      BY <3>3, <3>4
  <2>4. CASE Open(s, p) # {}
    <3>1. PICK i \in Open(s, p) : TRUE
      BY <2>4
    <3>2. PICK r \in Nat : /\ r = p - i /\ r < Len(s[i].calls) /\ p + 1 = i + (r + 1)
                           /\ (p + 1) - i = r + 1 /\ i \in 1 .. p
      <4>1. i \in 1 .. p /\ p - i < Len(s[i].calls)
        BY <3>1 DEF Open
      <4>2. p - i \in Nat /\ p + 1 = i + ((p - i) + 1) /\ (p + 1) - i = (p - i) + 1
        BY <4>1
      <4>3. QED
        BY <4>1, <4>2
    <3>3. PICK calls \in Seq(1 .. 2) : calls = s[i].calls /\ DOMAIN calls = 1 .. Len(calls)
                                       /\ Len(calls) \in Nat
      BY <1>4, <1>5, <3>2
    <3>4. Awaits(turns, calls, r)
      BY <1>1, <1>11, <3>1, <3>2, <3>3
    <3>5. r + 1 \in DOMAIN calls /\ i \in DOMAIN s /\ r < Len(calls)
      BY <1>4, <3>2, <3>3
    <3>6. m.role = "tool" /\ m.answers = calls[r + 1]
      <4>1. Answered(s, i)
        BY <3>5 DEF Paired
      <4>2. s[i + (r + 1)].role = "tool" /\ s[i + (r + 1)].answers = calls[r + 1]
        BY <3>3, <3>5, <4>1 DEF Answered
      <4>3. QED
        BY <1>2, <3>2, <4>2
    <3>7. IF r + 1 = Len(calls) THEN Settled(new) ELSE Awaits(new, calls, r + 1)
      BY <1>1, <1>6, <3>4, <3>5, <3>6, ResultSettles
    <3>8. m.calls = <<>>
      BY <1>2, <1>4, <1>5, <3>6
    <3>9. \A j \in Open(s, p + 1) : j = i
      BY <1>4, <1>7, <1>8, <3>1, <3>8, OneGroupOpen
    <3>10. i \in Open(s, p + 1) <=> r + 1 < Len(calls)
      <4>1. i \in 1 .. (p + 1)
        BY <3>2
      <4>2. QED
        BY <3>2, <3>3, <4>1 DEF Open
    <3>11. CASE r + 1 = Len(calls)
      <4>1. Open(s, p + 1) = {}
        BY <3>9, <3>10, <3>11
      <4>2. QED
        BY <1>3, <1>6, <1>11, <2>2, <3>7, <3>11, <4>1 DEF Turned
    <3>12. CASE r + 1 # Len(calls)
      <4>1. Awaits(new, s[i].calls, (p + 1) - i)
        BY <3>2, <3>3, <3>7, <3>12
      <4>2. i \in Open(s, p + 1) /\ ~ (p + 1 < 2)
        BY <1>11, <3>3, <3>5, <3>10, <3>12
      <4>3. \A j \in Open(s, p + 1) : Awaits(new, s[j].calls, (p + 1) - j)
        BY <3>9, <4>1
      <4>4. Open(s, p + 1) # {}
        BY <4>2
      <4>5. QED
        BY <1>3, <1>6, <2>2, <4>2, <4>3, <4>4 DEF Turned
    <3>13. QED
      BY <3>11, <3>12
  <2>5. QED
    BY <2>3, <2>4
<1>12. QED
  BY <1>9, <1>10, <1>11

LEMMA TurnedAlways ==
    ASSUME NEW s \in Seq(Message), Paired(s), Len(s) >= 2,
           s[1].role = "system", s[2].role = "user"
    PROVE  Turned(s, Len(s))
<1> DEFINE Bad == {n \in 0 .. Len(s) : ~ Turned(s, n)}
<1>1. Turned(s, 0)
  <2>1. TurnsAfter(s)[0] = <<>>
    BY TurnsOneByOne
  <2>2. <<>> \in Seq(Turn) /\ Alternating(<<>>)
    BY DEF Alternating
  <2>3. QED
    BY <2>1, <2>2 DEF Turned
<1>2. ASSUME Bad # {}
      PROVE  FALSE
  <2>1. PICK n \in Bad : \A k \in Bad : n <= k
    <3>1. Bad \subseteq Nat
      OBVIOUS
    <3>2. QED
      BY <1>2, <3>1, LeastOf
  <2>2. PICK p \in Nat : n = p + 1 /\ p + 1 <= Len(s) /\ p \in 0 .. Len(s) /\ ~ (n <= p)
    <3>1. n # 0 /\ n \in 0 .. Len(s)
      BY <1>1, <2>1
    <3>2. n - 1 \in Nat /\ n = (n - 1) + 1 /\ n - 1 \in 0 .. Len(s) /\ ~ (n <= n - 1)
      BY <3>1
    <3>3. QED
      BY <3>1, <3>2
  <2>3. Turned(s, p)
    BY <2>1, <2>2
  <2>4. Turned(s, p + 1)
    BY <2>2, <2>3, TurnedNext
  <2>5. QED
    BY <2>1, <2>2, <2>4
<1>3. Len(s) \in 0 .. Len(s)
  OBVIOUS
<1>4. QED
  BY <1>2, <1>3

\* A conversation a request can carry is one both kinds of provider accept.
LEMMA TurnsAnswered ==
    ASSUME wire \in Seq(Message), Paired(wire), Len(wire) >= 2,
           wire[1].role = "system", wire[2].role = "user"
    PROVE  AnthropicConversation
<1>1. PICK turns \in Seq(Turn) : turns = AnthropicTurns(wire)
  BY TurnedAlways DEF Turned, AnthropicTurns
<1>2. Turned(wire, Len(wire))
  BY TurnedAlways
<1>3. Open(wire, Len(wire)) = {}
  <2>1. ASSUME NEW i \in Open(wire, Len(wire))
        PROVE  FALSE
    <3>1. i \in 1 .. Len(wire) /\ Len(wire) - i < Len(wire[i].calls) /\ Len(wire) \in Nat
      BY <2>1 DEF Open
    <3>2. i \in DOMAIN wire /\ (Len(wire) - i) + 1 \in DOMAIN wire[i].calls
      BY <3>1, CallsAreSequence
    <3>3. i + ((Len(wire) - i) + 1) \in DOMAIN wire
      BY <3>2 DEF Paired, Answered
    <3>4. QED
      BY <3>1, <3>3
  <2>2. QED
    BY <2>1
<1>4. Settled(turns) /\ Alternating(turns)
  BY <1>1, <1>2, <1>3 DEF Turned, AnthropicTurns
<1>5. QED
  BY <1>1, <1>4 DEF AnthropicConversation, Settled, Replied, Alternating

---------------------------------------------------------------------------
(* To the loop, an exchange is one step: what ModelTurns calls offered and *)
(* inHand, and what its steps say of them.                                 *)

Offered == IF request = None THEN None
           ELSE [tools |-> request.tools, several |-> request.parallel /\ ~Named]

InHand == [i \in DOMAIN pending |-> pending[i].name]

LEMMA IsNothing ==
    ASSUME UNCHANGED <<usage, elapsed, Offered, InHand, ended>>
    PROVE  UNCHANGED Turns!turnVars
BY Zenon DEF Turns!turnVars, Offered, InHand

LEMMA IsAsk ==
    ASSUME Ready, Offered = None, InHand = <<>>, Offered' \in Turns!Offer,
           UNCHANGED <<usage, elapsed, InHand, ended>>
    PROVE  Turns!Ask
BY DEF Turns!Ask, Offered, InHand, Ready

LEMMA IsTakeTurn ==
    ASSUME Offered # None, ended = None,
           NEW n \in Turns!RetriesLeft, NEW tokens \in 0 .. Remaining("inputTokens"),
           Charge(ModelCall(Manager, tokens, 0, 0, n)),
           Offered' = None, InHand' # <<>>,
           \A i \in DOMAIN InHand' : InHand'[i] \in Offered.tools,
           Len(InHand') = 1 \/ Offered.several,
           UNCHANGED ended
    PROVE  Turns!TakeTurn
BY Zenon DEF Turns!TakeTurn, Offered, InHand, Turns!Charge, Charge, Turns!Exceeded, Exceeded,
             Turns!Expired, Expired, Turns!Plus, Plus, Turns!ModelCall, ModelCall,
             Turns!NoCharge, NoCharge, Turns!TurnResource, TurnResource, Turns!Manager, Manager,
             Turns!Resource, Resource, Turns!Remaining, Remaining

LEMMA IsFail ==
    ASSUME Offered # None, ended = None, NEW n \in Turns!RetriesLeft,
           Charge(ModelCall(Manager, 0, 0, 0, n)),
           Offered' = None, ended' = "MODEL_UNAVAILABLE", UNCHANGED InHand
    PROVE  Turns!Fail
BY Zenon DEF Turns!Fail, Offered, InHand, Turns!Charge, Charge, Turns!Exceeded, Exceeded,
             Turns!Expired, Expired, Turns!Plus, Plus, Turns!ModelCall, ModelCall,
             Turns!NoCharge, NoCharge, Turns!TurnResource, TurnResource, Turns!Manager, Manager,
             Turns!Resource, Resource

LEMMA IsStop ==
    ASSUME ended = None, Offered' = None, InHand' = <<>>,
           ended' \in {"SAFETY_LIMIT_REACHED", "RUNTIME_FAILURE"},
           UNCHANGED <<usage, elapsed>>
    PROVE  Turns!Stop
BY Zenon DEF Turns!Stop, Offered, InHand

LEMMA IsExecute ==
    ASSUME ended = None, InHand # <<>>, Charge(ToolCall) \/ UNCHANGED budgetVars,
           \/ InHand' = Tail(InHand) /\ UNCHANGED ended
           \/ InHand' = <<>> /\ ended' = "DECIDED",
           UNCHANGED Offered
    PROVE  Turns!Execute
BY Zenon DEF Turns!Execute, Offered, InHand, Turns!Charge, Charge, Turns!Exceeded, Exceeded,
             Turns!Expired, Expired, Turns!Plus, Plus, Turns!ToolCall, ToolCall,
             Turns!NoCharge, NoCharge, Turns!Resource, Resource, Turns!budgetVars, budgetVars

LEMMA IsClock ==
    ASSUME Tick, UNCHANGED <<Offered, InHand, ended>>
    PROVE  Turns!Clock
BY Zenon DEF Turns!Clock, Turns!Tick, Tick, Turns!Expired, Expired, Offered, InHand

LEMMA NothingOffered ==
    /\ request = None => Offered = None
    /\ request' = None => Offered' = None
    /\ pending = <<>> => InHand = <<>>
    /\ pending' = <<>> => InHand' = <<>>
    /\ UNCHANGED request => UNCHANGED Offered
    /\ UNCHANGED pending => UNCHANGED InHand
BY DEF Offered, InHand, Named

LEMMA SomethingOffered ==
    ASSUME request \in Request
    PROVE  /\ Offered # None /\ Offered.tools = request.tools
           /\ Offered.several <=> request.parallel /\ ~Named
<1>1. PICK offer : offer = [tools |-> request.tools, several |-> request.parallel /\ ~Named]
  OBVIOUS
<1>2. offer \in Turns!Offer
  BY <1>1 DEF Request, Turns!Offer
<1>3. QED
  BY <1>1, <1>2, ExchangeAssumption, Endings DEF Offered, Turns!Offer

\* The retries an exchange has made are retries the loop had left.
LEMMA RetriesWereLeft ==
    ASSUME Account, phase = "sent"
    PROVE  /\ attempt - 1 \in Turns!RetriesLeft
           /\ Offered # None /\ ended = None /\ pending = <<>>
           /\ request \in Request
<1>1. /\ request \in Request /\ ended = None /\ pending = <<>>
      /\ attempt \in 1 .. Most /\ Most \in 1 .. 6 /\ Most <= request.attempts
      /\ request.attempts \in 1 .. 6
      /\ request.attempts <= Remaining("modelCalls")
      /\ request.attempts - 1 <= Remaining("retries")
  BY MostAttempts DEF Account, Exchange
<1>2. Remaining("modelCalls") \in Int /\ Remaining("retries") \in Int
  BY Counted DEF Account, Remaining
<1>3. PICK calls \in Int, retries \in Int :
         calls = Remaining("modelCalls") /\ retries = Remaining("retries")
  BY <1>2
<1>4. attempt - 1 \in 0 .. 5 /\ attempt - 1 < calls /\ attempt - 1 <= retries
  BY <1>1, <1>3
<1>5. attempt - 1 \in Turns!RetriesLeft
  BY <1>3, <1>4 DEF Turns!RetriesLeft, Turns!Remaining, Remaining
<1>6. QED
  BY <1>1, <1>5, SomethingOffered

LEMMA EndIsStop ==
    ASSUME ended = None, NEW reason \in {"SAFETY_LIMIT_REACHED", "RUNTIME_FAILURE"},
           Ends(reason), UNCHANGED budgetVars
    PROVE  Turns!Stop
BY NothingOffered, IsStop DEF Ends, budgetVars

LEMMA ErrorIsFailOrStop ==
    ASSUME Account, phase = "sent", RaiseModelError
    PROVE  Turns!Fail \/ Turns!Stop
<1>1. PICK n \in Turns!RetriesLeft : n = attempt - 1
  BY RetriesWereLeft
<1>2. Offered # None /\ ended = None /\ pending = <<>>
  BY RetriesWereLeft
<1>3. CASE Charge(ModelCall(Manager, 0, 0, 0, attempt - 1)) /\ Ends("MODEL_UNAVAILABLE")
  <2>1. Charge(ModelCall(Manager, 0, 0, 0, n))
    BY <1>1, <1>3, Zenon
  <2>2. Offered' = None /\ UNCHANGED InHand /\ ended' = "MODEL_UNAVAILABLE"
    BY <1>2, <1>3, NothingOffered DEF Ends
  <2>3. QED
    BY <1>2, <2>1, <2>2, IsFail
<1>4. CASE Ends("SAFETY_LIMIT_REACHED") /\ UNCHANGED budgetVars
  BY <1>2, <1>4, EndIsStop
<1>5. QED
  BY <1>3, <1>4 DEF RaiseModelError

LEMMA RetryIsNothing ==
    ASSUME NEW delay, NEW correction, NEW tokens, TryAgain(delay, correction, tokens)
    PROVE  UNCHANGED Turns!turnVars
BY NothingOffered, IsNothing DEF TryAgain, budgetVars

LEMMA AskIsAsk ==
    ASSUME Account, Ask
    PROVE  Turns!Ask
<1>1. PICK tools \in SUBSET Tool \ {{}}, parallel \in BOOLEAN :
         request' = [tools |-> tools, parallel |-> parallel, attempts |-> AttemptLimit]
  BY DEF Ask
<1>2. Ready /\ request = None /\ pending = <<>>
      /\ UNCHANGED <<usage, elapsed, pending, ended>>
  BY DEF Ask, Ready, budgetVars, Account, Exchange
<1>3. request' # None
  <2>1. Account' /\ phase' = "pace"
    BY AskStep DEF Ask
  <2>2. QED
    BY <2>1, Endings DEF Account, Exchange
<1>4. Offered' = [tools |-> tools, several |-> parallel /\ ~Named']
  BY <1>1, <1>3 DEF Offered
<1>5. (parallel /\ ~Named') \in BOOLEAN
  BY Zenon
<1>6. Offered' \in Turns!Offer
  BY <1>4, <1>5 DEF Turns!Offer
<1>7. QED
  BY <1>2, <1>6, NothingOffered, IsAsk

LEMMA ReceiveIsTakeTurn ==
    ASSUME Account, ReceiveTurn
    PROVE  Turns!TakeTurn
<1>1. phase = "sent" /\ request' = None /\ ended' = ended
  BY DEF ReceiveTurn
<1>2. PICK answer \in Answers, tokens \in Nat :
         /\ MeetsContract(Serialized(answer)) /\ pending' = Serialized(answer)
         /\ Charge(TurnCharge(tokens))
  BY ExchangeAssumption DEF ReceiveTurn
<1>3. PICK n \in Turns!RetriesLeft : n = attempt - 1
  BY <1>1, RetriesWereLeft
<1>4. request \in Request /\ Offered # None /\ ended = None
  BY <1>1, RetriesWereLeft
<1>5. PICK total \in 0 .. Remaining("inputTokens") : total = owed + tokens
  <2>1. usage["inputTokens"] + (owed + tokens) <= Limit["inputTokens"]
    BY <1>1, <1>2, TurnIsCharged
  <2>2. usage["inputTokens"] \in Nat /\ Limit["inputTokens"] \in Nat /\ owed \in Nat
    BY Counted, LimitAssumption DEF Account, Clocks, Resource
  <2>3. owed + tokens \in 0 .. Remaining("inputTokens")
    BY <2>1, <2>2 DEF Remaining
  <2>4. QED
    BY <2>3
<1>6. Charge(ModelCall(Manager, total, 0, 0, n))
  BY <1>2, <1>3, <1>5, Zenon DEF TurnCharge
<1>7. PICK calls \in Seq(Call) :
         /\ calls = Serialized(answer)
         /\ ~request.parallel => Len(calls) <= 1
  BY <1>4, SerializedCalls
<1>8. /\ calls # <<>>
      /\ Named => Len(calls) = 1
      /\ \A i \in DOMAIN calls : calls[i].name \in request.tools
  <2>1. MeetsContract(calls)
    BY <1>2, <1>7, Zenon
  <2>2. QED
    BY <2>1 DEF MeetsContract, UndeclaredCalls
<1>9. InHand' = [i \in DOMAIN calls |-> calls[i].name]
  <2>1. pending' = calls
    BY <1>2, <1>7, Zenon
  <2>2. QED
    BY <2>1, Zenon DEF InHand
<1>10. /\ DOMAIN calls = 1 .. Len(calls) /\ Len(calls) \in Nat \ {0}
  BY <1>7, <1>8
<1>11. PICK hand : hand = [i \in 1 .. Len(calls) |-> calls[i].name]
  OBVIOUS
<1>12. /\ InHand' = hand /\ hand # <<>> /\ Len(hand) = Len(calls)
       /\ DOMAIN hand = DOMAIN calls
       /\ \A i \in DOMAIN hand : hand[i] = calls[i].name
  BY <1>9, <1>10, <1>11
<1>13. \A i \in DOMAIN InHand' : InHand'[i] \in Offered.tools
  BY <1>4, <1>8, <1>12, SomethingOffered
<1>14. Len(InHand') = 1 \/ Offered.several
  <2>1. Len(InHand') = Len(calls)
    BY <1>12
  <2>2. CASE Named \/ ~request.parallel
    <3>1. Len(calls) = 1
      BY <1>7, <1>8, <1>10, <2>2
    <3>2. QED
      BY <2>1, <3>1
  <2>3. CASE ~Named /\ request.parallel
    BY <1>4, <2>3, SomethingOffered, Zenon
  <2>4. QED
    BY <2>2, <2>3
<1>15. Offered' = None
  BY <1>1, NothingOffered
<1>16. QED
  BY <1>1, <1>4, <1>6, <1>12, <1>13, <1>14, <1>15, IsTakeTurn

LEMMA ExecuteIsExecute ==
    ASSUME Account, ExecuteCall
    PROVE  Turns!Execute
<1>1. /\ phase = "tools" /\ ended = None /\ request = None
      /\ pending \in Seq(Call) /\ pending # <<>>
      /\ Charge(ToolCall) \/ UNCHANGED budgetVars
  BY DEF ExecuteCall, Account, Exchange
<1>2. /\ Len(pending) \in Nat \ {0} /\ DOMAIN pending = 1 .. Len(pending)
      /\ Tail(pending) \in Seq(Call) /\ Len(Tail(pending)) = Len(pending) - 1
      /\ \A i \in 1 .. Len(pending) - 1 : Tail(pending)[i] = pending[i + 1]
  BY <1>1
<1>3. InHand # <<>>
  BY <1>2 DEF InHand
<1>4. CASE pending' = Tail(pending) /\ UNCHANGED <<request, ended>>
  <2>1. InHand' = [i \in 1 .. Len(pending) - 1 |-> pending[i + 1].name]
    BY <1>2, <1>4 DEF InHand
  <2>2. Tail(InHand) = [i \in 1 .. Len(pending) - 1 |-> pending[i + 1].name]
    BY <1>2 DEF InHand
  <2>3. QED
    BY <1>1, <1>3, <1>4, <2>1, <2>2, NothingOffered, IsExecute
<1>5. CASE Ends("DECIDED")
  <2>1. pending' = <<>> /\ request' = request /\ ended' = "DECIDED"
    BY <1>1, <1>5 DEF Ends
  <2>2. QED
    BY <1>1, <1>3, <2>1, NothingOffered, IsExecute
<1>6. QED
  BY <1>4, <1>5 DEF ExecuteCall

LEMMA TimeIsClock ==
    ASSUME TimePasses
    PROVE  Turns!Clock \/ UNCHANGED Turns!turnVars
<1>1. UNCHANGED <<usage, Offered, InHand, ended>>
  BY NothingOffered DEF TimePasses
<1>2. CASE elapsed' = elapsed
  BY <1>1, <1>2, IsNothing
<1>3. CASE ~Expired /\ elapsed' = elapsed + 1
  BY <1>1, <1>3, IsClock DEF Tick
<1>4. QED
  BY <1>2, <1>3 DEF TimePasses

\* Every step of an exchange is one of the loop, or nothing to it.
LEMMA TurnsStep ==
    ASSUME Account, [Next]_vars
    PROVE  [Turns!TurnsNext]_Turns!turnVars
<1>1. CASE PreflightStops \/ ContextTooSmall \/ TurnOverruns \/ ToolBudgetStops
             \/ EmptyAnswerWithBadUsage
  <2>1. ended = None /\ UNCHANGED budgetVars
    BY <1>1 DEF PreflightStops, ContextTooSmall, TurnOverruns, ToolBudgetStops,
                EmptyAnswerWithBadUsage, Ready, Account, Exchange
  <2>2. \E reason \in {"SAFETY_LIMIT_REACHED", "RUNTIME_FAILURE"} : Ends(reason)
    BY <1>1 DEF PreflightStops, ContextTooSmall, TurnOverruns, ToolBudgetStops,
                EmptyAnswerWithBadUsage
  <2>3. QED
    BY <2>1, <2>2, EndIsStop DEF Turns!TurnsNext
<1>2. CASE Ask
  BY <1>2, AskIsAsk DEF Turns!TurnsNext
<1>3. CASE TransientError \/ FatalError \/ MalformedAnswer \/ EmptyAnswer \/ BrokenContract
  <2>1. /\ phase = "sent"
        /\ \/ RaiseModelError
           \/ \E delay, correction, tokens : TryAgain(delay, correction, tokens)
    BY <1>3 DEF TransientError, FatalError, MalformedAnswer, EmptyAnswer, BrokenContract
  <2>2. QED
    BY <2>1, ErrorIsFailOrStop, RetryIsNothing DEF Turns!TurnsNext
<1>4. CASE Send \/ EndTurn \/ UNCHANGED vars
  BY <1>4, NothingOffered, IsNothing DEF Send, EndTurn, vars, budgetVars, exchangeVars
<1>5. CASE ReceiveTurn
  BY <1>5, ReceiveIsTakeTurn DEF Turns!TurnsNext
<1>6. CASE ExecuteCall
  BY <1>6, ExecuteIsExecute DEF Turns!TurnsNext
<1>7. CASE TimePasses
  BY <1>7, TimeIsClock DEF Turns!TurnsNext
<1>8. QED
  BY <1>1, <1>2, <1>3, <1>4, <1>5, <1>6, <1>7 DEF Next

LEMMA TurnsStart == Init => Turns!TurnsInit
BY NothingOffered
   DEF Init, Turns!TurnsInit, Turns!BudgetInit, BudgetInit, Turns!Resource, Resource,
       Offered, InHand

---------------------------------------------------------------------------
(* The theorems. *)

LEMMA Invariant == Spec => [](Account /\ Conversing)
<1>1. Init => Account /\ Conversing
  BY AccountStart, ConversationStart
<1>2. Account /\ Conversing /\ [Next]_vars => (Account /\ Conversing)'
  BY AccountStep, ConversationStep
<1>3. QED
  BY <1>1, <1>2, PTL DEF Spec

\* The state of the loop, of the client and of the ledger has its shape: there
\* is a request exactly during an exchange, and only a loop that goes on has
\* calls to execute (agent_loop.py:187-253, model_client.py:193-264).
THEOREM TypeCorrectness == Spec => []TypeOK
<1>1. Account => TypeOK
  <2> SUFFICES ASSUME Account
                 PROVE  TypeOK
    OBVIOUS
  <2>2. attempt \in 0 .. 6
    <3>1. Most \in 1 .. 6 \/ phase \in {"turn", "tools"}
      BY MostAttempts DEF Account, Exchange
    <3>2. QED
      BY <3>1 DEF Account, Exchange
  <2>3. request # None <=> phase \in {"pace", "sent"}
    BY Endings DEF Account, Exchange
  <2>4. QED
    BY <2>2, <2>3 DEF Account, Ledger, Clocks, Exchange, TypeOK
<1>2. QED
  BY <1>1, Invariant, PTL

\* What the provider saw is in the ledger whenever the loop goes on, and what
\* is under way fits it (model_client.py:193-264, agent_loop.py:187-253).
THEOREM AttemptsAreAccounted == Spec => []AttemptsAccounted
<1>1. Account => AttemptsAccounted
  <2> SUFFICES ASSUME Account
                 PROVE  AttemptsAccounted
    OBVIOUS
  <2>2. ASSUME phase = "sent"
        PROVE  /\ usage["modelCalls"] + attempt <= Limit["modelCalls"]
               /\ usage["retries"] + attempt - 1 <= Limit["retries"]
    <3>1. /\ attempt \in 1 .. Most /\ Most \in 1 .. 6 /\ Most <= request.attempts
          /\ request.attempts \in 1 .. 6
          /\ request.attempts <= Limit["modelCalls"] - usage["modelCalls"]
          /\ request.attempts - 1 <= Limit["retries"] - usage["retries"]
      BY <2>2, MostAttempts DEF Account, Exchange, Remaining
    <3>2. QED
      BY <3>1, Counted DEF Account
  <2>3. QED
    BY <2>2 DEF Account, Metered, AttemptsAccounted
<1>2. QED
  BY <1>1, Invariant, PTL

\* However the conversation was compacted, repaired or interrupted, a request
\* carries every call directly followed by its results, and no other results;
\* and as turns of user and assistant it is one that begins with the user and
\* answers all calls of a turn before anything else is said
\* (agent_loop.py:388-456, model_client.py:376-394, anthropic_transport.py:56).
THEOREM ConversationsAreWellFormed == Spec => []ConversationsWellFormed
<1>1. Conversing => ConversationsWellFormed
  <2>1. SUFFICES ASSUME Conversing, phase = "sent"
                 PROVE  WireConversation /\ AnthropicConversation
    BY DEF ConversationsWellFormed
  <2>2. wire \in Seq(Message) /\ Paired(wire) /\ Opened(wire)
    BY <2>1 DEF Conversing
  <2>3. \A i \in DOMAIN wire : \A k \in DOMAIN wire[i].calls :
           i + k \in DOMAIN wire /\ wire[i + k].answers = wire[i].calls[k]
    BY <2>2 DEF Paired, Answered
  <2>4. \A j \in DOMAIN wire : wire[j].role = "tool" => Called(wire, j)
    BY <2>2 DEF Paired
  <2>5. WireConversation
    BY <2>3, <2>4 DEF WireConversation, Called
  <2>6. AnthropicConversation
    BY <2>2, TurnsAnswered DEF Opened
  <2>7. QED
    BY <2>5, <2>6
<1>2. QED
  BY <1>1, Invariant, PTL

\* The loop may take an exchange to be one atomic step, however often the
\* client retried, repaired or waited (agent_loop.py:187-253).
THEOREM TurnsAreImplemented == Spec => ImplementsTurns
<1>1. QED
  BY TurnsStart, TurnsStep, Invariant, PTL DEF Spec, ImplementsTurns, Turns!TurnsSpec
===============================================================================
