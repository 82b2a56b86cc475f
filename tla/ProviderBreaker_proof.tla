----------------------- MODULE ProviderBreaker_proof -----------------------
(***************************************************************************)
(* Proofs about ProviderBreaker, for any set of providers, callers and     *)
(* chains, any window and any threshold.                                   *)
(*                                                                         *)
(* OneProbe and ProbeAccounted are inductive only together with their      *)
(* converse: whoever is counted as the probe of a provider holds its mark, *)
(* which is why nobody else is let through.                                *)
(***************************************************************************)
EXTENDS ProviderBreaker, TLAPS

\* The part of the type invariant that the argument needs.
Types ==
  /\ gate \in [Provider -> {"closed", "open", "cooled"}]
  /\ probing \in [Provider -> BOOLEAN]
  /\ asks \in [Call -> Provider \cup {NoProvider}]
  /\ probe \subseteq Call

\* A probe in flight has marked its provider.
ProbesMark == \A c \in probe : asks[c] \in Provider /\ probing[asks[c]] = TRUE

IInv == Types /\ ProbesMark /\ OneProbe /\ ProbeAccounted

LEMMA InitIInv == Init => IInv
BY DEF Init, IInv, Types, ProbesMark, OneProbe, ProbeAccounted, Probes

\* What a caller finds from rung i on, once a result of its provider is recorded
\* (freed = {asks[c]}) or before it asks anybody (freed = {}).
LEMMA WalkKeeps ==
  ASSUME IInv, NEW c \in Call, NEW i \in Nat, Chain[c] \in Seq(Provider),
         NEW freed, (freed = {} /\ asks[c] = NoProvider) \/ freed = {asks[c]},
         \A j \in DOMAIN Chain[c] : j > i => Chain[c][j] \notin freed,
         Walk(c, i, freed),
         \A p \in Provider \ freed : gate'[p] = gate[p] /\ (p \in lost => p \in lost'),
         gate' \in [Provider -> {"closed", "open", "cooled"}]
  PROVE  IInv'
<1>1. PICK q \in Provider \cup {NoProvider} :
        /\ q \in Provider => Allowed(q) /\ q \notin freed
        /\ asks' = [asks EXCEPT ![c] = q]
        /\ probing' = [p \in Provider |-> IF p = q THEN TakesProbe(p)
                                          ELSE probing[p] /\ p \notin freed]
        /\ probe' = {d \in probe : asks[d] \notin freed /\ d # c}
                    \cup {d \in {c} : q \in Provider /\ gate[q] = "cooled"}
  <2> DEFINE rungs == {j \in DOMAIN Chain[c] : j > i /\ Allowed(Chain[c][j])}
             next  == {Chain[c][j] : j \in {k \in rungs : \A l \in rungs : k <= l}}
  <2>1. PICK q \in IF rungs = {} THEN {NoProvider} ELSE next :
          /\ asks' = [asks EXCEPT ![c] = q]
          /\ probing' = [p \in Provider |-> IF p = q THEN TakesProbe(p)
                                            ELSE probing[p] /\ p \notin freed]
          /\ probe' = {d \in probe : asks[d] \notin freed /\ d # c}
                      \cup {d \in {c} : q \in Provider /\ gate[q] = "cooled"}
    BY DEF Walk
  <2>2. \A r \in next : r \in Provider /\ Allowed(r) /\ r \notin freed
    OBVIOUS
  <2> HIDE DEF rungs, next
  <2>3. q \in Provider \cup {NoProvider} /\ (q \in Provider => Allowed(q) /\ q \notin freed)
    BY <2>1, <2>2, ProviderAssumption
  <2>4. QED
    BY <2>1, <2>3
<1>2. Types /\ ProbesMark /\ OneProbe /\ ProbeAccounted
  BY DEF IInv
<1>3. Types'
  <2>1. asks' \in [Call -> Provider \cup {NoProvider}] /\ probe' \subseteq Call
    BY <1>1, <1>2 DEF Types
  <2>2. \A p \in Provider : (IF p = q THEN TakesProbe(p) ELSE probing[p] /\ p \notin freed) \in BOOLEAN
    BY <1>2 DEF Types, TakesProbe
  <2>3. probing' \in [Provider -> BOOLEAN]
    BY <1>1, <2>2
  <2>4. QED
    BY <2>1, <2>3 DEF Types
\* Nobody probes the provider that the call goes to: its mark was free.
<1>4. q \in Provider /\ gate[q] = "cooled" => \A d \in probe : asks[d] # q
  BY <1>1, <1>2, ProviderAssumption DEF Allowed, ProbesMark, Types
<1>5. \A d \in probe' : d # c => d \in probe /\ asks'[d] = asks[d] /\ asks[d] \notin freed
  BY <1>1, <1>2 DEF Types
<1>6. c \in probe' => q \in Provider /\ gate[q] = "cooled" /\ asks'[c] = q
  BY <1>1, <1>2 DEF Types
<1>7. ProbesMark'
  <2> SUFFICES ASSUME NEW d \in probe' PROVE asks'[d] \in Provider /\ probing'[asks'[d]] = TRUE
    BY DEF ProbesMark
  <2>1. CASE d = c
    BY <2>1, <1>1, <1>6 DEF TakesProbe
  <2>2. CASE d # c
    <3>1. asks[d] \in Provider /\ probing[asks[d]] = TRUE /\ asks[d] \notin freed /\ asks'[d] = asks[d]
      BY <2>2, <1>2, <1>5 DEF ProbesMark
    <3>2. asks[d] # q
      BY <3>1, <2>2, <1>1, <1>2, <1>5 DEF Allowed, ProbeAccounted
    <3>3. QED
      BY <3>1, <3>2, <1>1
  <2>3. QED
    BY <2>1, <2>2
<1>8. OneProbe'
  <2> SUFFICES ASSUME NEW p \in Provider,
                      NEW d \in probe', NEW e \in probe', asks'[d] = p, asks'[e] = p
               PROVE  d = e
    BY DEF OneProbe, Probes
  <2>1. CASE d # c /\ e # c
    BY <2>1, <1>2, <1>5 DEF OneProbe, Probes
  <2>2. CASE d = c /\ e # c
    BY <2>2, <1>4, <1>5, <1>6
  <2>3. CASE d # c /\ e = c
    BY <2>3, <1>4, <1>5, <1>6
  <2>4. QED
    BY <2>1, <2>2, <2>3
<1>9. ProbeAccounted'
  <2> SUFFICES ASSUME NEW p \in Provider, probing'[p]
               PROVE  gate'[p] = "cooled" /\ (Probes(p)' # {} \/ p \in lost')
    BY DEF ProbeAccounted
  <2>1. CASE p = q
    <3>1. gate[p] = "cooled" /\ p \notin freed
      BY <2>1, <1>1 DEF TakesProbe
    <3>2. c \in probe' /\ asks'[c] = p
      BY <2>1, <3>1, <1>1, <1>2 DEF Types
    <3>3. QED
      BY <3>1, <3>2 DEF Probes
  <2>2. CASE p # q
    <3>1. probing[p] /\ p \notin freed
      BY <2>2, <1>1
    <3>2. gate[p] = "cooled" /\ gate'[p] = gate[p] /\ (Probes(p) # {} \/ p \in lost)
      BY <3>1, <1>2 DEF ProbeAccounted
    <3>3. CASE p \in lost
      BY <3>1, <3>2, <3>3
    <3>4. ASSUME NEW d \in probe, asks[d] = p PROVE Probes(p)' # {}
      <4>1. d # c
        BY <3>1, <3>4, ProviderAssumption
      <4>2. d \in probe' /\ asks'[d] = p
        BY <3>1, <3>4, <4>1, <1>1, <1>2 DEF Types
      <4>3. QED
        BY <4>2 DEF Probes
    <3>5. QED
      BY <3>2, <3>3, <3>4 DEF Probes
  <2>3. QED
    BY <2>1, <2>2
<1>10. QED
  BY <1>3, <1>7, <1>8, <1>9 DEF IInv

\* A recorded result that is not followed by a walk: nobody probes the provider
\* any more, and nothing changes for the others.
LEMMA SuccessKeeps == ASSUME IInv, NEW c \in Call, Succeeds(c) PROVE IInv'
<1> DEFINE p == asks[c]
<1>1. Types /\ ProbesMark /\ OneProbe /\ ProbeAccounted /\ p \in Provider
  BY DEF IInv, Succeeds, Types
<1>2. /\ gate' = [gate EXCEPT ![p] = "closed"] /\ probing' = [probing EXCEPT ![p] = FALSE]
      /\ asks' = [asks EXCEPT ![c] = NoProvider]
      /\ probe' = {d \in probe : asks[d] # p} /\ lost' = lost \ {p}
  BY DEF Succeeds, record_success
<1> HIDE DEF p
<1>3. Types'
  BY <1>1, <1>2 DEF Types
<1>4. c \notin probe' /\ \A d \in probe' : d \in probe /\ asks'[d] = asks[d] /\ asks[d] # p
  BY <1>1, <1>2 DEF Types, p
<1>5. ProbesMark'
  BY <1>1, <1>2, <1>4 DEF ProbesMark, Types
<1>6. OneProbe'
  BY <1>1, <1>4 DEF OneProbe, Probes
<1>7. ProbeAccounted'
  <2> SUFFICES ASSUME NEW q \in Provider, probing'[q]
               PROVE  gate'[q] = "cooled" /\ (Probes(q)' # {} \/ q \in lost')
    BY DEF ProbeAccounted
  <2>1. q # p /\ probing[q]
    BY <1>1, <1>2 DEF Types
  <2>2. gate[q] = "cooled" /\ gate'[q] = gate[q] /\ (Probes(q) # {} \/ q \in lost)
    BY <2>1, <1>1, <1>2 DEF ProbeAccounted, Types
  <2>3. \A d \in Probes(q) : d \in Probes(q)'
    BY <2>1, <1>1, <1>2 DEF Probes, Types, p
  <2>4. QED
    BY <2>1, <2>2, <2>3, <1>2
<1>8. QED
  BY <1>3, <1>5, <1>6, <1>7 DEF IInv

LEMMA UnreportedKeeps == ASSUME IInv, NEW c \in Call, EndsUnreported(c) PROVE IInv'
<1>1. Types /\ ProbesMark /\ OneProbe /\ ProbeAccounted
  BY DEF IInv
<1>2. /\ UNCHANGED <<gate, probing>> /\ asks' = [asks EXCEPT ![c] = NoProvider]
      /\ probe' = probe \ {c} /\ lost' = lost \cup {asks[d] : d \in {c} \cap probe}
  BY DEF EndsUnreported
<1>3. Types'
  BY <1>1, <1>2 DEF Types
<1>4. \A d \in probe' : d \in probe /\ d # c /\ asks'[d] = asks[d]
  BY <1>1, <1>2 DEF Types
<1>5. ProbesMark' /\ OneProbe'
  BY <1>1, <1>2, <1>4 DEF ProbesMark, OneProbe, Probes
<1>6. ProbeAccounted'
  <2> SUFFICES ASSUME NEW q \in Provider, probing[q]
               PROVE  gate[q] = "cooled" /\ (Probes(q)' # {} \/ q \in lost')
    BY <1>2 DEF ProbeAccounted
  <2>1. gate[q] = "cooled" /\ (Probes(q) # {} \/ q \in lost)
    BY <1>1 DEF ProbeAccounted
  <2>2. \A d \in Probes(q) : d \in Probes(q)' \/ q \in lost'
    BY <1>1, <1>2 DEF Probes, Types
  <2>3. QED
    BY <2>1, <2>2, <1>2
<1>7. QED
  BY <1>3, <1>5, <1>6 DEF IInv

LEMMA FallKeeps == ASSUME IInv, NEW c \in Call, FallsThrough(c) PROVE IInv'
<1> DEFINE p == asks[c]
<1>1. p \in Provider /\ gate \in [Provider -> {"closed", "open", "cooled"}]
  BY DEF IInv, FallsThrough, Types
<1>2. PICK i \in DOMAIN Chain[c] : Chain[c][i] = p /\ Walk(c, i, {p})
  BY DEF FallsThrough, Reported
<1>3. /\ gate' \in [Provider -> {"closed", "open", "cooled"}]
      /\ \A q \in Provider \ {p} : gate'[q] = gate[q] /\ (q \in lost => q \in lost')
  BY <1>1 DEF FallsThrough, record_failure
<1>4. Chain[c] \in Seq(Provider) /\ i \in Nat
  BY <1>2, ChainAssumption
<1>5. \A j \in DOMAIN Chain[c] : j > i => Chain[c][j] \notin {p}
  BY <1>2, <1>4, ChainAssumption
<1> HIDE DEF p
<1>6. ({p} = {} /\ asks[c] = NoProvider) \/ {p} = {asks[c]}
  BY DEF p
<1>7. QED
  BY <1>2, <1>3, <1>4, <1>5, <1>6, WalkKeeps

LEMMA BeginKeeps == ASSUME IInv, NEW c \in Call, Begin(c) PROVE IInv'
<1>1. asks[c] = NoProvider /\ Walk(c, 0, {}) /\ UNCHANGED <<gate, lost>>
  BY DEF Begin
<1>2. gate \in [Provider -> {"closed", "open", "cooled"}]
  BY DEF IInv, Types
<1>3. QED
  BY <1>1, <1>2, ChainAssumption, WalkKeeps

LEMMA StepIInv == IInv /\ [Next]_vars => IInv'
<1> SUFFICES ASSUME IInv, [Next]_vars PROVE IInv'
  OBVIOUS
<1>1. ASSUME NEW p \in Provider, CoolDown(p) PROVE IInv'
  BY <1>1 DEF IInv, Types, ProbesMark, OneProbe, ProbeAccounted, Probes, CoolDown
<1>2. ASSUME NEW c \in Call, StreamEnds(c) PROVE IInv'
  BY <1>2 DEF IInv, Types, ProbesMark, OneProbe, ProbeAccounted, Probes, StreamEnds
<1>3. CASE UNCHANGED vars
  BY <1>3 DEF IInv, Types, ProbesMark, OneProbe, ProbeAccounted, Probes, vars
<1>4. QED
  BY <1>1, <1>2, <1>3, BeginKeeps, SuccessKeeps, FallKeeps, UnreportedKeeps DEF Next, Ends

-----------------------------------------------------------------------------

\* Of the calls that a half-open breaker let through to a provider at most one is
\* under way, as long as no result of the provider has come in since
\* (breaker.py:51, allow).
THEOREM OneProbeHolds == Spec => []OneProbe
<1>1. IInv => OneProbe
  BY DEF IInv
<1>2. QED
  BY InitIInv, StepIInv, <1>1, PTL DEF Spec

\* The mark of the probe is set only while the cooldown has passed, and for a call
\* that is under way or has ended without a report (breaker.py:62, allow).
THEOREM ProbeAccountedHolds == Spec => []ProbeAccounted
<1>1. IInv => ProbeAccounted
  BY DEF IInv
<1>2. QED
  BY InitIInv, StepIInv, <1>1, PTL DEF Spec

-----------------------------------------------------------------------------

\* A window never holds more than its size (deque(maxlen=WINDOW)).
LEMMA RecordedBounded ==
  ASSUME NEW p \in Provider, outcomes[p] \in Seq(BOOLEAN), Len(outcomes[p]) <= Window,
         NEW r \in BOOLEAN
  PROVE  Recorded(p, r) \in Seq(BOOLEAN) /\ Len(Recorded(p, r)) <= Window
<1> DEFINE all == Append(outcomes[p], r)
<1>1. all \in Seq(BOOLEAN) /\ Len(all) = Len(outcomes[p]) + 1 /\ Len(outcomes[p]) \in Nat
  OBVIOUS
<1> HIDE DEF all
<1>2. Len(all) > Window => Tail(all) \in Seq(BOOLEAN) /\ Len(Tail(all)) = Len(all) - 1
  BY <1>1
<1>3. Recorded(p, r) = IF Len(all) > Window THEN Tail(all) ELSE all
  BY DEF Recorded, all
<1>4. Window \in Nat /\ Len(all) <= Window + 1 /\ Len(all) \in Nat
  BY <1>1, WindowAssumption
<1>5. CASE Len(all) > Window
  BY <1>2, <1>3, <1>4, <1>5
<1>6. CASE ~(Len(all) > Window)
  BY <1>1, <1>3, <1>4, <1>6
<1>7. QED
  BY <1>5, <1>6

LEMMA WalkTypes ==
  ASSUME TypeOK, NEW c \in Call, NEW i, NEW freed, Chain[c] \in Seq(Provider),
         Walk(c, i, freed)
  PROVE  /\ probing' \in [Provider -> BOOLEAN]
         /\ asks' \in [Call -> Provider \cup {NoProvider}]
         /\ probe' \subseteq Call
<1> DEFINE rungs == {j \in DOMAIN Chain[c] : j > i /\ Allowed(Chain[c][j])}
           next  == {Chain[c][j] : j \in {k \in rungs : \A l \in rungs : k <= l}}
<1>1. PICK q \in IF rungs = {} THEN {NoProvider} ELSE next :
        /\ asks' = [asks EXCEPT ![c] = q]
        /\ probing' = [p \in Provider |-> IF p = q THEN TakesProbe(p)
                                          ELSE probing[p] /\ p \notin freed]
        /\ probe' = {d \in probe : asks[d] \notin freed /\ d # c}
                    \cup {d \in {c} : q \in Provider /\ gate[q] = "cooled"}
  BY DEF Walk
<1>2. \A r \in next : r \in Provider
  OBVIOUS
<1> HIDE DEF rungs, next
<1>3. q \in Provider \cup {NoProvider}
  BY <1>1, <1>2
<1>4. \A p \in Provider : (IF p = q THEN TakesProbe(p) ELSE probing[p] /\ p \notin freed) \in BOOLEAN
  BY DEF TypeOK, TakesProbe
<1>5. probing' \in [Provider -> BOOLEAN]
  BY <1>1, <1>4
<1>6. QED
  BY <1>1, <1>3, <1>5 DEF TypeOK

LEMMA StepTypeOK == TypeOK /\ [Next]_vars => TypeOK'
<1> SUFFICES ASSUME TypeOK, [Next]_vars PROVE TypeOK'
  OBVIOUS
<1>1. ASSUME NEW p \in Provider, CoolDown(p) PROVE TypeOK'
  BY <1>1 DEF TypeOK, CoolDown
<1>2. ASSUME NEW c \in Call, Begin(c) PROVE TypeOK'
  <2>1. UNCHANGED <<outcomes, gate, streaming, lost>> /\ Walk(c, 0, {})
    BY <1>2 DEF Begin
  <2>2. QED
    BY <2>1, ChainAssumption, WalkTypes DEF TypeOK
<1>3. ASSUME NEW c \in Call, Succeeds(c) PROVE TypeOK'
  <2> DEFINE p == asks[c]
  <2>1. p \in Provider
    BY <1>3 DEF Succeeds, TypeOK
  <2>2. /\ outcomes' = [outcomes EXCEPT ![p] = Recorded(p, TRUE)]
        /\ gate' = [gate EXCEPT ![p] = "closed"] /\ probing' = [probing EXCEPT ![p] = FALSE]
        /\ asks' = [asks EXCEPT ![c] = NoProvider]
        /\ probe' \subseteq probe /\ lost' \subseteq lost
        /\ streaming' = streaming \cup ({c} \cap Streams)
    BY <1>3 DEF Succeeds, record_success
  <2> HIDE DEF p
  <2>3. Recorded(p, TRUE) \in Seq(BOOLEAN) /\ Len(Recorded(p, TRUE)) <= Window
    BY <2>1, RecordedBounded DEF TypeOK
  <2>4. QED
    BY <2>1, <2>2, <2>3 DEF TypeOK
<1>4. ASSUME NEW c \in Call, FallsThrough(c) PROVE TypeOK'
  <2> DEFINE p == asks[c]
             trips == gate[p] = "closed" /\ Failures(Recorded(p, FALSE)) >= Threshold
  <2>1. p \in Provider
    BY <1>4 DEF FallsThrough, TypeOK
  <2>2. /\ outcomes' = [outcomes EXCEPT ![p] = IF trips THEN <<>> ELSE Recorded(p, FALSE)]
        /\ gate' = [gate EXCEPT ![p] = IF trips \/ @ # "closed" THEN "open" ELSE @]
        /\ lost' \subseteq lost /\ streaming' = streaming
    BY <1>4 DEF FallsThrough, record_failure
  <2>3. PICK i \in DOMAIN Chain[c] : Walk(c, i, Reported(p))
    BY <1>4 DEF FallsThrough
  <2> HIDE DEF p, trips
  <2>4. Recorded(p, FALSE) \in Seq(BOOLEAN) /\ Len(Recorded(p, FALSE)) <= Window
    BY <2>1, RecordedBounded DEF TypeOK
  <2>5. <<>> \in Seq(BOOLEAN) /\ Len(<<>>) <= Window
    BY WindowAssumption
  <2>6. /\ outcomes' \in [Provider -> Seq(BOOLEAN)] /\ \A q \in Provider : Len(outcomes'[q]) <= Window
        /\ gate' \in [Provider -> {"closed", "open", "cooled"}]
    BY <2>1, <2>2, <2>4, <2>5 DEF TypeOK
  <2>7. /\ probing' \in [Provider -> BOOLEAN] /\ asks' \in [Call -> Provider \cup {NoProvider}]
        /\ probe' \subseteq Call
    BY <2>3, ChainAssumption, WalkTypes
  <2>8. QED
    BY <2>2, <2>6, <2>7 DEF TypeOK
<1>5. ASSUME NEW c \in Call, EndsUnreported(c) PROVE TypeOK'
  <2>1. \A d \in {c} \cap probe : asks[d] \in Provider
    BY <1>5 DEF EndsUnreported, TypeOK
  <2>2. {asks[d] : d \in {c} \cap probe} \subseteq Provider
    BY <2>1
  <2>3. QED
    BY <1>5, <2>2 DEF TypeOK, EndsUnreported
<1>6. ASSUME NEW c \in Call, StreamEnds(c) PROVE TypeOK'
  BY <1>6 DEF TypeOK, StreamEnds
<1>7. CASE UNCHANGED vars
  BY <1>7 DEF TypeOK, vars
<1>8. QED
  BY <1>1, <1>2, <1>3, <1>4, <1>5, <1>6, <1>7 DEF Next, Ends

\* The breaker and the router keep to their types, and a window to its size.
THEOREM TypeCorrect == Spec => []TypeOK
<1>1. Init => TypeOK
  <2>1. <<>> \in Seq(BOOLEAN) /\ Len(<<>>) <= Window
    BY WindowAssumption
  <2>2. QED
    BY <2>1 DEF Init, TypeOK
<1>2. QED
  BY <1>1, StepTypeOK, PTL DEF Spec

=============================================================================
