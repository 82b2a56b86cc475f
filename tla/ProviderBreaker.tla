-------------------------- MODULE ProviderBreaker --------------------------
(***************************************************************************)
(* The circuit breaker that all model calls of the API process share       *)
(* (model-providers, breaker.py), and the calls of complete() and stream() *)
(* that walk down their chain of providers through it (router.py).         *)
(*                                                                         *)
(* A call is a task of the event loop: between two awaits it is alone, so  *)
(* that skipping rungs, asking the breaker and sending the request is one  *)
(* action, and so is what an answer brings about.  The 60 seconds of the   *)
(* cooldown are an action of their own; a request can outlast them (the    *)
(* clients' default timeout is ten minutes).                               *)
(*                                                                         *)
(* Abstracted: what a provider answers and why it fails.  The one retry of *)
(* _attempt after a schema violation reports nothing to the breaker.       *)
(***************************************************************************)
EXTENDS Integers, Sequences, FiniteSets

CONSTANTS
  Provider,
  Call,        \* callers, each of which calls over and over
  Chain,       \* the providers of a caller's chain that serve it and have a key
  Streams,     \* the callers that use stream()
  Window,      \* WINDOW
  Threshold    \* FAILURE_THRESHOLD

ASSUME ChainAssumption ==
  /\ Chain \in [Call -> Seq(Provider)] /\ Streams \subseteq Call
  /\ \A c \in Call : \A i, j \in DOMAIN Chain[c] : Chain[c][i] = Chain[c][j] => i = j
ASSUME WindowAssumption == Window \in Nat \ {0} /\ Threshold \in 1..Window

NoProvider == "none"
ASSUME ProviderAssumption == NoProvider \notin Provider

VARIABLES
  outcomes,   \* the last results of each provider, TRUE for a success
  gate,       \* opened_at: "closed" is None, "cooled" is past the cooldown
  probing,
  asks,       \* the provider whose answer a call awaits
  streaming,  \* calls that forward the events of a provider
  probe,      \* history: calls let through half open, no result reported since
  lost        \* history: providers whose probe ended and reported nothing

vars == <<outcomes, gate, probing, asks, streaming, probe, lost>>

TypeOK ==
  /\ outcomes \in [Provider -> Seq(BOOLEAN)]
  /\ \A p \in Provider : Len(outcomes[p]) <= Window
  /\ gate \in [Provider -> {"closed", "open", "cooled"}]
  /\ probing \in [Provider -> BOOLEAN]
  /\ asks \in [Call -> Provider \cup {NoProvider}]
  /\ streaming \subseteq Streams
  /\ probe \subseteq Call /\ lost \subseteq Provider

Init ==
  /\ outcomes = [p \in Provider |-> <<>>]
  /\ gate = [p \in Provider |-> "closed"] /\ probing = [p \in Provider |-> FALSE]
  /\ asks = [c \in Call |-> NoProvider] /\ streaming = {}
  /\ probe = {} /\ lost = {}

-----------------------------------------------------------------------------
(* The breaker *)

\* Mutant: only the time tells when the breaker closes.
Allowed_ClosedOnly(p) == gate[p] = "closed"

Allowed(p) == gate[p] = "closed" \/ (gate[p] = "cooled" /\ ~probing[p])

\* Mutant: the probe is not remembered.
TakesProbe_Forgets(p) == FALSE

TakesProbe(p) == gate[p] = "cooled"

\* Mutant: a deque without maxlen.
Recorded_All(p, result) == Append(outcomes[p], result)

\* deque(maxlen=WINDOW)
Recorded(p, result) ==
  LET all == Append(outcomes[p], result)
  IN IF Len(all) > Window THEN Tail(all) ELSE all

Failures(s) == Cardinality({i \in DOMAIN s : ~s[i]})

record_success(p) ==
  /\ outcomes' = [outcomes EXCEPT ![p] = Recorded(p, TRUE)]
  /\ gate' = [gate EXCEPT ![p] = "closed"]

\* A failed probe opens the breaker for a fresh cooldown, and so does a failed
\* call that was let through before it opened.
record_failure(p) ==
  LET trips == gate[p] = "closed" /\ Failures(Recorded(p, FALSE)) >= Threshold
  IN /\ outcomes' = [outcomes EXCEPT ![p] = IF trips THEN <<>> ELSE Recorded(p, FALSE)]
     /\ gate' = [gate EXCEPT ![p] = IF trips \/ @ # "closed" THEN "open" ELSE @]

\* COOLDOWN has passed since opened_at.
CoolDown(p) ==
  /\ gate[p] = "open"
  /\ gate' = [gate EXCEPT ![p] = "cooled"]
  /\ UNCHANGED <<outcomes, probing, asks, streaming, probe, lost>>

-----------------------------------------------------------------------------
(* The router *)

\* What the loop over the chain does after rung i, without an await: it skips
\* the rungs whose circuit is open and asks the next one, or raises
\* ChainExhaustedError.  The probe on a provider of "freed" is over.
Walk(c, i, freed) ==
  LET rungs == {j \in DOMAIN Chain[c] : j > i /\ Allowed(Chain[c][j])}
      next  == {Chain[c][j] : j \in {k \in rungs : \A l \in rungs : k <= l}}
  IN \E q \in IF rungs = {} THEN {NoProvider} ELSE next :
       /\ asks' = [asks EXCEPT ![c] = q]
       /\ probing' = [p \in Provider |-> IF p = q THEN TakesProbe(p)
                                         ELSE probing[p] /\ p \notin freed]
       /\ probe' = {d \in probe : asks[d] \notin freed /\ d # c}
                   \cup {d \in {c} : q \in Provider /\ gate[q] = "cooled"}

Begin(c) ==
  /\ asks[c] = NoProvider /\ c \notin streaming
  /\ Walk(c, 0, {})
  /\ UNCHANGED <<outcomes, gate, streaming, lost>>

\* Mutant: a failure leaves the probe of the provider taken.
Reported_KeepsProbe(p) == {}

\* A result that is recorded ends the probe on its provider, whosever it is.
Reported(p) == {p}

\* A response, or the first event of a stream.
Succeeds(c) ==
  /\ asks[c] # NoProvider
  /\ record_success(asks[c])
  /\ asks' = [asks EXCEPT ![c] = NoProvider]
  /\ probing' = [probing EXCEPT ![asks[c]] = FALSE]
  /\ probe' = {d \in probe : asks[d] # asks[c]}
  /\ lost' = lost \ {asks[c]}
  /\ streaming' = streaming \cup ({c} \cap Streams)

\* A ProviderError, or a stream without events: on to the next rung.
FallsThrough(c) ==
  /\ asks[c] # NoProvider
  /\ record_failure(asks[c])
  /\ \E i \in DOMAIN Chain[c] : Chain[c][i] = asks[c] /\ Walk(c, i, Reported(asks[c]))
  /\ lost' = lost \ {asks[c]}
  /\ UNCHANGED streaming

\* A ProviderAuthError, or the caller is cancelled: the breaker hears nothing.
EndsUnreported(c) ==
  /\ asks[c] # NoProvider
  /\ lost' = lost \cup {asks[d] : d \in {c} \cap probe}
  /\ probe' = probe \ {c}
  /\ asks' = [asks EXCEPT ![c] = NoProvider]
  /\ UNCHANGED <<outcomes, gate, probing, streaming>>

\* The last event of a stream, its failure or its cancellation.
StreamEnds(c) ==
  /\ c \in streaming
  /\ streaming' = streaming \ {c}
  /\ UNCHANGED <<outcomes, gate, probing, asks, probe, lost>>

Ends(c) == Succeeds(c) \/ FallsThrough(c) \/ EndsUnreported(c) \/ StreamEnds(c)

Next ==
  \/ \E p \in Provider : CoolDown(p)
  \/ \E c \in Call : Begin(c) \/ Ends(c)

Spec == Init /\ [][Next]_vars

\* Time passes, every request is answered or cancelled, and callers call again.
Fairness ==
  /\ \A p \in Provider : WF_vars(CoolDown(p))
  /\ \A c \in Call : WF_vars(Begin(c)) /\ WF_vars(Ends(c))

FairSpec == Spec /\ Fairness

-----------------------------------------------------------------------------

Probes(p) == {c \in probe : asks[c] = p}

\* Half-open lets one probe through: no other one is admitted until a result of
\* the provider has been recorded, also when the recorded one is that of a call
\* which was let through before the breaker opened.
OneProbe == \A p \in Provider : \A c, d \in Probes(p) : c = d

\* Whoever finds the probe taken can count on it: somebody awaits its answer, or
\* it ended without a report.
ProbeAccounted ==
  \A p \in Provider : probing[p] =>
    /\ gate[p] = "cooled"
    /\ Probes(p) # {} \/ p \in lost

\* A provider whose cooldown has passed is tried again or found to work, when it
\* leads a caller's chain, unless its probe was lost.
CooledIsTried ==
  \A p \in {Chain[c][1] : c \in {d \in Call : Chain[d] # <<>>}} :
    gate[p] = "cooled" ~> (gate[p] = "closed" \/ Probes(p) # {} \/ p \in lost)

=============================================================================
