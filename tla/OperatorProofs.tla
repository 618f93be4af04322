---------------------------- MODULE OperatorProofs ----------------------------
(***************************************************************************)
(* Machine-checked proofs about the functions without state, for every     *)
(* input: the configuration of both SDKs and the replay policy only        *)
(* tighten, both SDKs resolve the options they share alike, no descriptor  *)
(* or address says what it must not, no text leaves the scrubber unless    *)
(* it was scrubbed, the two SDKs scrub, check digits and write identifiers *)
(* alike, and the schema accepts what they send.                           *)
(*                                                                         *)
(* The invariant they rest on is Inputs: an input is one of those the      *)
(* constants offer.  What remains is about the operators, and three kinds  *)
(* of argument recur.  A resolver's result is known once all its checks    *)
(* are known to hold, so a lemma says what it means that none failed.      *)
(* Texts, bags, sums and numbers are recursive functions: that one exists  *)
(* is shown first, and what its values are along the natural numbers, from *)
(* the least number at which it would fail.  A payload is put together     *)
(* from parts, each of which has only fields the schema knows.             *)
(***************************************************************************)
EXTENDS Payloads, FiniteSetTheorems, SequenceTheorems, WellFoundedInduction, TLAPS

(* The input is one of those the constants offer.                          *)
Inputs ==
  /\ given.for = "value" => given.value \in Values /\ given.inTime \in Times
  /\ given.for = "digits" => given.digits \in DigitRuns
  /\ given.for = "target" => given.chain \in Chains
  /\ given.for = "options" => given.opts \in ClientOptions
  /\ given.for = "policy" => given.asked \in Policies
  /\ given.for = "address" => given.raw \in Addresses
  /\ given.for = "event" =>
       given.event \in Events /\ given.page \in Pages /\ given.who \in Identities
  /\ given.for = "session" => given.who \in Identities /\ given.attrs \in HostBags
  /\ given.for = "ulid" => given.moments \in Moments \X Moments /\ given.bytes \in RandomBytes

(* Every input a behaviour picks is one the constants offer, for any       *)
(* constants: what the assumption says of inputs holds of every input.     *)
THEOREM InputsAlways == Spec => []Inputs
<1>1. Init => Inputs
  BY DEF Init, Nothing, Inputs
<1>2. Inputs /\ [Next]_given => Inputs'
  <2> SUFFICES ASSUME Inputs, [Next]_given PROVE Inputs'
    OBVIOUS
  <2>1. CASE Value
    BY <2>1 DEF Value, Inputs
  <2>2. CASE Digits
    BY <2>2 DEF Digits, Inputs
  <2>3. CASE Target
    BY <2>3 DEF Target, Inputs
  <2>4. CASE Fetch
    BY <2>4 DEF Fetch, Inputs
  <2>5. CASE Construct
    BY <2>5 DEF Construct, Inputs
  <2>6. CASE Record
    BY <2>6 DEF Record, Inputs
  <2>7. CASE Capture
    BY <2>7 DEF Capture, Inputs
  <2>8. CASE StartSession
    BY <2>8 DEF StartSession, Inputs
  <2>9. CASE Identify
    BY <2>9 DEF Identify, Inputs
  <2>10. CASE UNCHANGED given
    BY <2>10 DEF Inputs
  <2> QED BY <2>1, <2>2, <2>3, <2>4, <2>5, <2>6, <2>7, <2>8, <2>9, <2>10 DEF Next
<1> QED BY <1>1, <1>2, PTL DEF Spec

-----------------------------------------------------------------------------
(* Numbers and flattened lists.                                            *)

(* A set of numbers that is not empty has a least one.                     *)
LEMMA LeastOf ==
  ASSUME NEW S, S \subseteq Nat, S # {}
  PROVE  \E n \in S : \A m \in S : n <= m
<1> DEFINE R == {ss \in Nat \X Nat : ss[1] < ss[2]}
<1>1. IsWellFoundedOn(R, Nat)
  BY NatLessThanWellFounded DEF OpToRel
<1>2. \A x, y \in Nat : x < y => <<x, y>> \in R
  OBVIOUS
<1> HIDE DEF R
<1>3. PICK x \in S : \A y \in S : ~(<<y, x>> \in R)
  BY <1>1, WFMin
<1>4. ASSUME NEW y \in S PROVE x <= y
  <2>1. x \in Nat /\ y \in Nat
    OBVIOUS
  <2>2. ~(<<y, x>> \in R)
    BY <1>3
  <2>3. ~(y < x)
    BY <1>2, <2>1, <2>2
  <2> QED BY <2>1, <2>3
<1> QED BY <1>4

(* Induction along the natural numbers, for a set.                         *)
LEMMA Induct ==
  ASSUME NEW S, 0 \in S, \A n \in Nat : n \in S => n + 1 \in S
  PROVE  \A n \in Nat : n \in S
<1> DEFINE Missing == {n \in Nat : n \notin S}
<1>1. SUFFICES ASSUME Missing # {} PROVE FALSE
  OBVIOUS
<1>2. Missing \subseteq Nat
  OBVIOUS
<1>3. PICK least \in Missing : \A m \in Missing : least <= m
  <2> HIDE DEF Missing
  <2> QED BY <1>1, <1>2, LeastOf
<1>4. least \in Nat /\ least \notin S /\ least # 0
  OBVIOUS
<1>5. least - 1 \in Nat
  BY <1>4
<1>6. least - 1 \in S
  <2>1. ~(least <= least - 1)
    BY <1>4
  <2> QED BY <1>3, <1>5, <2>1
<1>7. (least - 1) + 1 \in S
  BY <1>5, <1>6
<1> QED BY <1>4, <1>7

(* The function that flattens a list of lists step by step exists.         *)
LEMMA FlattenExists ==
  ASSUME NEW T, NEW lists \in Seq(Seq(T)), lists # <<>>
  PROVE  \E p : p = [i \in 1..Len(lists) |-> IF i = 1 THEN lists[i] ELSE p[i - 1] \o lists[i]]
<1>1. Len(lists) \in Nat /\ 1 <= Len(lists)
  BY LenProperties, EmptySeq
<1> DEFINE Upto(k, p) ==
             p = [i \in 1..k |-> IF i = 1 THEN lists[i] ELSE p[i - 1] \o lists[i]]
           S == {k \in Nat : \E p : Upto(k + 1, p)}
<1>2. 0 \in S
  <2>1. Upto(1, [i \in 1..1 |-> lists[i]])
    OBVIOUS
  <2>2. 0 + 1 = 1
    OBVIOUS
  <2> HIDE DEF Upto
  <2> QED BY <2>1, <2>2
<1>3. ASSUME NEW k \in Nat, k \in S PROVE k + 1 \in S
  <2> SUFFICES \E p : Upto((k + 1) + 1, p)
    <3> HIDE DEF Upto
    <3> QED OBVIOUS
  <2>1. PICK p : Upto(k + 1, p)
    <3> HIDE DEF Upto
    <3> QED BY <1>3
  <2> DEFINE q == [i \in 1..k + 2 |-> IF i = k + 2 THEN p[k + 1] \o lists[k + 2] ELSE p[i]]
  <2>2. ASSUME NEW i \in 1..k + 2
        PROVE  q[i] = IF i = 1 THEN lists[i] ELSE q[i - 1] \o lists[i]
    <3>1. CASE i = k + 2
      <4>1. i # 1 /\ i - 1 = k + 1 /\ k + 1 \in 1..k + 2 /\ k + 1 # k + 2
        BY <3>1
      <4> QED BY <3>1, <4>1
    <3>2. CASE i # k + 2
      <4>1. i \in 1..k + 1 /\ q[i] = p[i]
        BY <3>2
      <4>2. p[i] = IF i = 1 THEN lists[i] ELSE p[i - 1] \o lists[i]
        BY <2>1, <4>1
      <4>3. i # 1 => i - 1 \in 1..k + 2 /\ i - 1 # k + 2
        BY <4>1
      <4> QED BY <4>1, <4>2, <4>3
    <3> QED BY <3>1, <3>2
  <2>3. Upto(k + 2, q)
    <3>1. q = [i \in 1..k + 2 |-> q[i]]
      OBVIOUS
    <3> HIDE DEF q
    <3> QED BY <2>2, <3>1
  <2>4. (k + 1) + 1 = k + 2
    OBVIOUS
  <2> HIDE DEF Upto, q
  <2> QED BY <2>3, <2>4
<1>4. Len(lists) - 1 \in S
  <2>1. Len(lists) - 1 \in Nat
    BY <1>1
  <2> HIDE DEF S
  <2> QED BY <1>2, <1>3, <2>1, Induct
<1>5. (Len(lists) - 1) + 1 = Len(lists)
  BY <1>1
<1>6. \E p : Upto(Len(lists), p)
  <2> HIDE DEF Upto
  <2> QED BY <1>4, <1>5
<1> QED BY <1>6

(* Flattening lists of elements gives a list of elements.                  *)
LEMMA FlattenIn ==
  ASSUME NEW T, NEW lists \in Seq(Seq(T))
  PROVE  FlattenSeq(lists) \in Seq(T)
<1>1. Len(lists) \in Nat
  BY LenProperties
<1>2. CASE lists = <<>>
  <2>1. Len(lists) = 0 /\ FlattenSeq(lists) = <<>>
    BY <1>2, EmptySeq DEF FlattenSeq
  <2> QED BY <2>1, EmptySeq
<1>3. CASE lists # <<>>
  <2> DEFINE Eq(f) ==
               f = [i \in 1..Len(lists) |-> IF i = 1 THEN lists[i] ELSE f[i - 1] \o lists[i]]
             chosen == CHOOSE f : Eq(f)
             S == {k \in Nat : k + 1 <= Len(lists) => chosen[k + 1] \in Seq(T)}
  <2>1. Len(lists) # 0 /\ 1 \in 1..Len(lists)
    BY <1>1, <1>3, EmptySeq
  <2>2. FlattenSeq(lists) = chosen[Len(lists)]
    BY <2>1 DEF FlattenSeq
  <2>3. \E f : Eq(f)
    BY <1>3, FlattenExists
  <2>4. Eq(chosen)
    <3> HIDE DEF Eq
    <3> QED BY <2>3
  <2> HIDE DEF chosen
  <2>5. \A i \in 1..Len(lists) : chosen[i] = IF i = 1 THEN lists[i] ELSE chosen[i - 1] \o lists[i]
    BY <2>4
  <2>6. 0 \in S
    <3>1. chosen[1] = lists[1] /\ 0 + 1 = 1 /\ lists[1] \in Seq(T)
      BY <2>1, <2>5, ElementOfSeq
    <3> QED BY <3>1
  <2>7. ASSUME NEW k \in Nat, k \in S PROVE k + 1 \in S
    <3> SUFFICES ASSUME (k + 1) + 1 <= Len(lists)
                 PROVE  chosen[(k + 1) + 1] \in Seq(T)
      OBVIOUS
    <3> DEFINE m == k + 1
    <3>1. /\ m \in 1..Len(lists) /\ m + 1 <= Len(lists)
          /\ m + 1 \in 1..Len(lists) /\ m + 1 # 1 /\ (m + 1) - 1 = m
      BY <1>1
    <3>2. chosen[m] \in Seq(T)
      BY <1>1, <2>7, <3>1
    <3> HIDE DEF m
    <3>3. chosen[m + 1] = chosen[m] \o lists[m + 1]
      BY <2>5, <3>1
    <3>4. lists[m + 1] \in Seq(T)
      BY <3>1, ElementOfSeq
    <3>5. chosen[m + 1] \in Seq(T)
      BY <3>2, <3>3, <3>4, ConcatProperties
    <3> QED BY <3>5 DEF m
  <2>8. Len(lists) - 1 \in Nat /\ (Len(lists) - 1) + 1 = Len(lists) /\ Len(lists) <= Len(lists)
    BY <1>1, <2>1
  <2>9. Len(lists) - 1 \in S
    <3> HIDE DEF S
    <3> QED BY <2>6, <2>7, <2>8, Induct
  <2>10. chosen[Len(lists)] \in Seq(T)
    BY <2>8, <2>9
  <2> QED BY <2>2, <2>10
<1> QED BY <1>2, <1>3

(* What the least number of a set is.                                      *)
LEMMA MinFacts ==
  ASSUME NEW S, S \subseteq Nat, S # {}
  PROVE  Min(S) \in S /\ \A n \in S : Min(S) <= n
BY LeastOf DEF Min

-----------------------------------------------------------------------------
(* What the TypeScript client accepts.                                     *)

(* The options the TypeScript client accepts.                              *)
ClientIsFine(opts) ==
  /\ DOMAIN opts \subseteq ALLOWED_OPTION_KEYS
  /\ IsWord(Option(opts, "apiKey"))
  /\ IsWord(Option(opts, "apiKey")) =>
       utf8ByteLength(Option(opts, "apiKey")) <= MAX_API_KEY_BYTES
  /\ EndpointIsFine(Option(opts, "endpoint"))
  /\ \A key \in {"onError", "beforeSend", "transport", "sessionAttributes"} :
       Unset(Option(opts, key)) \/ Option(opts, key) = Function
  /\ Unset(Option(opts, "beforeSendTimeoutMs")) \/ AtLeast(Option(opts, "beforeSendTimeoutMs"), 1)
  /\ Unset(Option(opts, "maskSelectors")) \/ Words(Option(opts, "maskSelectors"))
  /\ \/ Unset(Option(opts, "sessionInactivityMs"))
     \/ Within(Option(opts, "sessionInactivityMs"), MIN_SESSION_TIMEOUT, DEFAULT_SESSION_INACTIVITY)
  /\ \/ Unset(Option(opts, "sessionMaxDurationMs"))
     \/ Within(Option(opts, "sessionMaxDurationMs"), MIN_SESSION_TIMEOUT,
               DEFAULT_SESSION_MAX_DURATION)
  /\ Unset(Option(opts, "autoSession")) \/ IsBool(Option(opts, "autoSession"))
  /\ resolveAutoCapture(Option(opts, "autoCapture")).ok
  /\ resolveReportWidget(Option(opts, "reportWidget")).ok

(* None of the fifteen checks of resolveConfig() fails just when the       *)
(* options are fine.                                                       *)
LEMMA ChecksOfClient ==
  ASSUME NEW opts
  PROVE  Failed(ClientChecks(opts)) = {} <=> ClientIsFine(opts)
<1> DEFINE checks == ClientChecks(opts)
           H == [i \in 1..15 |-> checks[i].holds]
<1>1. DOMAIN checks = 1..15
  BY DEF ClientChecks
<1>2. /\ checks[1].holds <=> DOMAIN opts \subseteq ALLOWED_OPTION_KEYS
      /\ checks[2].holds <=> IsWord(Option(opts, "apiKey"))
      /\ checks[3].holds <=> (IsWord(Option(opts, "apiKey")) =>
                              utf8ByteLength(Option(opts, "apiKey")) <= MAX_API_KEY_BYTES)
      /\ checks[4].holds <=> EndpointIsFine(Option(opts, "endpoint"))
      /\ checks[13].holds <=> resolveAutoCapture(Option(opts, "autoCapture")).ok
      /\ checks[14].holds <=> resolveReportWidget(Option(opts, "reportWidget")).ok
  BY DEF ClientChecks, Check
<1>3. /\ checks[5].holds <=> Unset(Option(opts, "onError")) \/ Option(opts, "onError") = Function
      /\ checks[6].holds <=>
           Unset(Option(opts, "beforeSend")) \/ Option(opts, "beforeSend") = Function
      /\ checks[8].holds <=>
           Unset(Option(opts, "transport")) \/ Option(opts, "transport") = Function
      /\ checks[15].holds <=>
           Unset(Option(opts, "sessionAttributes")) \/ Option(opts, "sessionAttributes") = Function
  BY DEF ClientChecks, Check
<1>4. /\ checks[7].holds <=> \/ Unset(Option(opts, "beforeSendTimeoutMs"))
                             \/ AtLeast(Option(opts, "beforeSendTimeoutMs"), 1)
      /\ checks[9].holds <=>
           Unset(Option(opts, "maskSelectors")) \/ Words(Option(opts, "maskSelectors"))
      /\ checks[10].holds <=> \/ Unset(Option(opts, "sessionInactivityMs"))
                              \/ Within(Option(opts, "sessionInactivityMs"), MIN_SESSION_TIMEOUT,
                                        DEFAULT_SESSION_INACTIVITY)
      /\ checks[11].holds <=> \/ Unset(Option(opts, "sessionMaxDurationMs"))
                              \/ Within(Option(opts, "sessionMaxDurationMs"), MIN_SESSION_TIMEOUT,
                                        DEFAULT_SESSION_MAX_DURATION)
      /\ checks[12].holds <=>
           Unset(Option(opts, "autoSession")) \/ IsBool(Option(opts, "autoSession"))
  BY DEF ClientChecks, Check
<1>5. Failed(checks) = {} <=> \A i \in 1..15 : checks[i].holds
  BY <1>1 DEF Failed
<1> HIDE DEF checks
<1>6. (\A i \in 1..15 : checks[i].holds) <=>
        /\ checks[1].holds /\ checks[2].holds /\ checks[3].holds /\ checks[4].holds
        /\ checks[5].holds /\ checks[6].holds /\ checks[7].holds /\ checks[8].holds
        /\ checks[9].holds /\ checks[10].holds /\ checks[11].holds /\ checks[12].holds
        /\ checks[13].holds /\ checks[14].holds /\ checks[15].holds
  OBVIOUS
<1>7. Failed(checks) = {} <=> ClientIsFine(opts)
  BY <1>2, <1>3, <1>4, <1>5, <1>6 DEF ClientIsFine
<1> QED BY <1>7 DEF checks

(* resolveConfig() accepts just the options that are fine.                 *)
LEMMA AcceptedClient ==
  ASSUME NEW opts
  PROVE  /\ resolveConfig(opts).ok <=> ClientIsFine(opts)
         /\ resolveConfig(opts).ok => resolveConfig(opts).config = ResolvedClient(opts)
BY ChecksOfClient DEF resolveConfig, Accepted, Rejected

(* The replay options, the part that matters for masking.                  *)
LEMMA ReplayChecksOfSelectors ==
  ASSUME NEW opts, Failed(ReplayChecks(opts)) = {}
  PROVE  /\ Unset(Option(opts, "maskTextSelector")) \/ IsWord(Option(opts, "maskTextSelector"))
         /\ Unset(Option(opts, "blockSelector")) \/ IsWord(Option(opts, "blockSelector"))
<1> DEFINE checks == ReplayChecks(opts)
<1>1. DOMAIN checks = 1..9
  BY DEF ReplayChecks
<1>2. /\ checks[8].holds <=>
           Unset(Option(opts, "maskTextSelector")) \/ IsWord(Option(opts, "maskTextSelector"))
      /\ checks[9].holds <=>
           Unset(Option(opts, "blockSelector")) \/ IsWord(Option(opts, "blockSelector"))
  BY DEF ReplayChecks, Check
<1>3. \A i \in 1..9 : checks[i].holds
  BY <1>1 DEF Failed
<1> QED BY <1>2, <1>3

(* The masking of replay never falls under the floor of the SDK.           *)
FloorHolds(masking) ==
  /\ masking.maskAllInputs
  /\ Covers(masking.blockSelector, DEFAULT_REPLAY_BLOCK_SELECTOR)
  /\ Covers(masking.maskTextSelector, DEFAULT_REPLAY_BLOCK_SELECTOR)

(* resolveReplayConfig() keeps the floor in every configuration it         *)
(* accepts.                                                                *)
LEMMA ReplayFloor ==
  ASSUME NEW raw, resolveReplayConfig(raw).ok
  PROVE  FloorHolds(resolveReplayConfig(raw).config.masking)
<1>1. FloorHolds(defaultMaskingConfig)
  BY DEF FloorHolds, defaultMaskingConfig, Covers, DEFAULT_REPLAY_BLOCK_SELECTOR,
         DEFAULT_REPLAY_MASK_TEXT_SELECTOR
<1>2. CASE Unset(raw)
  <2>1. ~IsBool(raw) /\ raw.is # "object"
    BY <1>2 DEF Unset, Undefined, IsBool
  <2>2. resolveReplayConfig(raw).config = defaultReplayConfig
    BY <1>2, <2>1 DEF resolveReplayConfig, Accepted
  <2> QED BY <1>1, <2>2 DEF defaultReplayConfig
<1>3. CASE ~Unset(raw) /\ IsBool(raw)
  <2>1. raw.is # "object"
    BY <1>3 DEF IsBool
  <2>2. resolveReplayConfig(raw).config = [defaultReplayConfig EXCEPT !.enabled = raw.boolean]
    BY <1>3, <2>1 DEF resolveReplayConfig, Accepted
  <2> QED BY <1>1, <2>2 DEF defaultReplayConfig
<1>4. CASE ~Unset(raw) /\ ~IsBool(raw)
  <2>1. /\ raw.is = "object" /\ Failed(ReplayChecks(raw.object)) = {}
        /\ resolveReplayConfig(raw).config = ResolvedReplay(raw.object)
    BY <1>4 DEF resolveReplayConfig, Accepted, Rejected
  <2>2. /\ ResolvedReplay(raw.object).masking.maskAllInputs
        /\ ResolvedReplay(raw.object).masking.blockSelector = BlockSelector(raw.object)
        /\ ResolvedReplay(raw.object).masking.maskTextSelector = MaskTextSelector(raw.object)
    BY DEF ResolvedReplay, defaultMaskingConfig
  <2>3. Covers(BlockSelector(raw.object), DEFAULT_REPLAY_BLOCK_SELECTOR)
    BY DEF Covers, BlockSelector
  <2>4. Covers(MaskTextSelector(raw.object), DEFAULT_REPLAY_BLOCK_SELECTOR)
    BY DEF Covers, MaskTextSelector, DEFAULT_REPLAY_MASK_TEXT_SELECTOR
  <2> QED BY <2>1, <2>2, <2>3, <2>4 DEF FloorHolds
<1> QED BY <1>2, <1>3, <1>4

(* resolveAutoCapture() keeps it with every replay policy it accepts.      *)
LEMMA AutoCaptureFloor ==
  ASSUME NEW raw, resolveAutoCapture(raw).ok
  PROVE  FloorHolds(resolveAutoCapture(raw).config["replay"].masking)
<1> DEFINE opts == CASE Unset(raw) -> NoOptions
                     [] IsBool(raw) -> [key \in {"enabled"} |-> raw]
                     [] raw.is = "object" -> raw.object
                     [] OTHER -> NoOptions
           replay == resolveReplayConfig(Option(opts, "replay"))
<1>1. /\ AutoCaptureIsFine(opts) /\ replay.ok
      /\ resolveAutoCapture(raw).config = ResolvedAutoCapture(opts, replay.config)
  BY DEF resolveAutoCapture, Accepted, Rejected
<1> HIDE DEF opts
<1>3. FloorHolds(replay.config.masking)
  BY <1>1, ReplayFloor
<1> HIDE DEF replay
<1> DEFINE config == ResolvedAutoCapture(opts, replay.config)
<1>4. config["replay"] = replay.config
  BY DEF ResolvedAutoCapture, ALLOWED_AUTOCAPTURE_KEYS, AUTOCAPTURE_SWITCHES, AUTOCAPTURE_COUNTS
<1> QED BY <1>1, <1>3, <1>4

-----------------------------------------------------------------------------
(* What was accepted stays within the limits.                              *)

(* What the proofs need of options: their numbers and switches.            *)
IsOptions(opts) ==
  \A key \in DOMAIN opts :
    /\ IsValue(opts[key])
    /\ opts[key].is = "object" =>
         \A sub \in DOMAIN opts[key].object : IsValue(opts[key].object[sub])

(* What is known of an option that may be missing.                         *)
LEMMA OptionFacts ==
  ASSUME NEW opts, IsOptions(opts), NEW key
  PROVE  /\ IsValue(Option(opts, key))
         /\ Option(opts, key).is = "object" =>
              \A sub \in DOMAIN Option(opts, key).object : IsValue(Option(opts, key).object[sub])
         /\ ~Unset(Option(opts, key)) => key \in DOMAIN opts /\ Option(opts, key) = opts[key]
<1>1. CASE key \in DOMAIN opts
  BY <1>1 DEF IsOptions, Option
<1>2. CASE key \notin DOMAIN opts
  BY <1>2 DEF Option, IsValue, Undefined, Unset
<1> QED BY <1>1, <1>2

(* The limits of the two SDKs, one against the other.                      *)
LEMMA Limits ==
  /\ MIN_SESSION_TIMEOUT \in Nat /\ DEFAULT_SESSION_INACTIVITY \in Nat
  /\ DEFAULT_SESSION_MAX_DURATION \in Nat
  /\ MIN_SESSION_TIMEOUT <= DEFAULT_SESSION_INACTIVITY
  /\ MIN_SESSION_TIMEOUT <= DEFAULT_SESSION_MAX_DURATION
  /\ MAX_BEFORE_SEND_TIMEOUT \in Nat /\ 1 <= MAX_BEFORE_SEND_TIMEOUT
  /\ MAX_BEFORE_SEND_TIMEOUT <= DEFAULT_SESSION_INACTIVITY
BY DEF MIN_SESSION_TIMEOUT, DEFAULT_SESSION_INACTIVITY, DEFAULT_SESSION_MAX_DURATION,
       MAX_BEFORE_SEND_TIMEOUT

(* Every configuration the TypeScript client accepts is within the limits. *)
LEMMA ClientStaysWithin ==
  ASSUME NEW opts, IsOptions(opts), resolveConfig(opts).ok
  PROVE  StaysWithin(resolveConfig(opts).config)
<1>1. ClientIsFine(opts) /\ resolveConfig(opts).config = ResolvedClient(opts)
  BY AcceptedClient
<1> DEFINE config == ResolvedClient(opts)
<1>2. config.beforeSendTimeoutMs \in 1..MAX_BEFORE_SEND_TIMEOUT
  <2> DEFINE v == Option(opts, "beforeSendTimeoutMs")
  <2>1. config.beforeSendTimeoutMs = BeforeSendTimeout(v)
    BY DEF ResolvedClient
  <2>2. IsValue(v) /\ (Unset(v) \/ AtLeast(v, 1))
    BY <1>1, OptionFacts DEF ClientIsFine
  <2> HIDE DEF v, config
  <2>3. CASE Unset(v)
    BY <2>1, <2>3, Limits DEF BeforeSendTimeout
  <2>4. CASE ~Unset(v)
    <3>1. v.tenths \in Int /\ v.tenths >= 1
      BY <2>2, <2>4 DEF AtLeast, IsValue
    <3> QED BY <2>1, <2>4, <3>1, Limits DEF BeforeSendTimeout
  <2> QED BY <2>3, <2>4
<1>3. FloorHolds(config.autoCapture["replay"].masking)
  <2> DEFINE raw == Option(opts, "autoCapture")
  <2>1. config.autoCapture = resolveAutoCapture(raw).config
    BY DEF ResolvedClient
  <2>2. resolveAutoCapture(raw).ok
    BY <1>1 DEF ClientIsFine
  <2> HIDE DEF raw, config
  <2> QED BY <2>1, <2>2, AutoCaptureFloor
<1> HIDE DEF config
<1> QED BY <1>1, <1>2, <1>3 DEF StaysWithin, BudgetIsKept, FloorHolds, config

(* The number the Python client makes of an option.                        *)
PyNumber(opts, key, default) ==
  IF Option(opts, key) \in {Undefined, Null} THEN default
  ELSE IF opts[key] = Bool(TRUE) THEN 10 ELSE opts[key].tenths

(* The configuration of the Python client, field by field.                 *)
LEMMA PyConfigFields ==
  ASSUME NEW opts, pyConfig(opts).ok
  PROVE  LET config == pyConfig(opts).config IN
         /\ validateOptions(opts) /\ validateSessionConfig(opts)
         /\ DOMAIN config = {"apiKey", "endpoint", "beforeSendTimeoutMs", "debug",
                             "sessionInactivityMs", "sessionMaxDurationMs", "autoSession"}
         /\ config.apiKey = opts["apiKey"]
         /\ config.endpoint = WithoutSlashes(opts["endpoint"])
         /\ config.beforeSendTimeoutMs =
              IF Option(opts, "beforeSendTimeoutMs") = NaN THEN NOT_A_NUMBER
              ELSE PyNumber(opts, "beforeSendTimeoutMs", MAX_BEFORE_SEND_TIMEOUT)
         /\ config.debug = resolveBool(Option(opts, "debug"), FALSE)
         /\ config.sessionInactivityMs =
              PyNumber(opts, "sessionInactivityMs", DEFAULT_SESSION_INACTIVITY)
         /\ config.sessionMaxDurationMs =
              PyNumber(opts, "sessionMaxDurationMs", DEFAULT_SESSION_MAX_DURATION)
         /\ config.autoSession = resolveBool(Option(opts, "autoSession"), TRUE)
<1> DEFINE config == pyConfig(opts).config
<1>1. validateOptions(opts) /\ validateSessionConfig(opts)
  BY DEF pyConfig, Rejected
<1>2. config =
        [apiKey |-> opts["apiKey"],
         endpoint |-> WithoutSlashes(opts["endpoint"]),
         beforeSendTimeoutMs |->
           IF Option(opts, "beforeSendTimeoutMs") = NaN THEN NOT_A_NUMBER
           ELSE PyNumber(opts, "beforeSendTimeoutMs", MAX_BEFORE_SEND_TIMEOUT),
         debug |-> resolveBool(Option(opts, "debug"), FALSE),
         sessionInactivityMs |->
           PyNumber(opts, "sessionInactivityMs", DEFAULT_SESSION_INACTIVITY),
         sessionMaxDurationMs |->
           PyNumber(opts, "sessionMaxDurationMs", DEFAULT_SESSION_MAX_DURATION),
         autoSession |-> resolveBool(Option(opts, "autoSession"), TRUE)]
  BY <1>1 DEF pyConfig, Accepted, PyNumber
<1> HIDE DEF config
<1> QED BY <1>1, <1>2 DEF config

(* Every configuration the Python client accepts with a budget that is a   *)
(* number is within the limits.                                            *)
LEMMA PyStaysWithin ==
  ASSUME NEW opts, IsOptions(opts), pyConfig(opts).ok,
         Option(opts, "beforeSendTimeoutMs") # NaN
  PROVE  StaysWithin(pyConfig(opts).config)
<1> DEFINE config == pyConfig(opts).config
<1>1. validateOptions(opts) /\ validateSessionConfig(opts)
  BY PyConfigFields
<1>3. /\ DOMAIN config = {"apiKey", "endpoint", "beforeSendTimeoutMs", "debug",
                          "sessionInactivityMs", "sessionMaxDurationMs", "autoSession"}
      /\ config.beforeSendTimeoutMs =
           PyNumber(opts, "beforeSendTimeoutMs", MAX_BEFORE_SEND_TIMEOUT)
  BY PyConfigFields
<1> HIDE DEF config
<1>5. config.beforeSendTimeoutMs \in 1..MAX_BEFORE_SEND_TIMEOUT
  <2> DEFINE v == Option(opts, "beforeSendTimeoutMs")
  <2>1. BeforeSendTimeoutInPython(v)
    BY <1>1 DEF validateOptions
  <2>3. CASE v = Undefined
    BY <1>3, <2>3, Limits DEF PyNumber
  <2>4. CASE v # Undefined
    <3>1. v = opts["beforeSendTimeoutMs"] /\ IsValue(v)
      BY <2>4, OptionFacts DEF Unset
    <3>2. CASE v = Bool(TRUE)
      <4>1. v # Null
        BY <3>2 DEF Bool, Null
      <4>2. config.beforeSendTimeoutMs = 10
        BY <1>3, <2>4, <3>1, <3>2, <4>1 DEF PyNumber
      <4> QED BY <4>2 DEF MAX_BEFORE_SEND_TIMEOUT
    <3>3. CASE v # Bool(TRUE)
      <4>1. Within(v, 1, MAX_BEFORE_SEND_TIMEOUT)
        BY <2>1, <2>4, <3>3 DEF BeforeSendTimeoutInPython
      <4>2. /\ v # Null /\ v.tenths \in Int
            /\ v.tenths >= 1 /\ v.tenths <= MAX_BEFORE_SEND_TIMEOUT
        BY <3>1, <4>1 DEF Within, AtLeast, IsValue, Null
      <4>3. config.beforeSendTimeoutMs = v.tenths
        BY <1>3, <2>4, <3>1, <3>3, <4>2 DEF PyNumber
      <4> HIDE DEF v
      <4> QED BY <4>2, <4>3, Limits
    <3> QED BY <3>2, <3>3
  <2> QED BY <2>3, <2>4
<1>9. "autoCapture" \notin DOMAIN config
  BY <1>3
<1>10. StaysWithin(config)
  BY <1>5, <1>9 DEF StaysWithin, BudgetIsKept
<1> QED BY <1>10 DEF config

(* A session that a tightened policy makes eligible the policy it tightens *)
(* makes eligible.                                                         *)
LEMMA TighterRecordsLess ==
  ASSUME NEW tight \in Policy, NEW loose \in Policy, NEW level \in DOMAIN Level \cup {NoLevel},
         NEW route, NEW roll \in Nat,
         IsTightened(tight, loose), eligible(tight, level, route, roll)
  PROVE  eligible(loose, level, route, roll)
<1>1. loose.enabled
  BY DEF IsTightened, eligible
<1>2. ASSUME level # NoLevel PROVE diagnosticsLevelAllows(level, loose.minDiagnosticsLevel)
  <2> DEFINE at(x) == Level[x]
  <2>1. diagnosticsLevelAllows(level, tight.minDiagnosticsLevel)
    BY <1>2 DEF eligible
  <2>2. \A x \in DOMAIN Level : Level[x] \in Nat
    BY DEF Level
  <2>3. /\ level \in DOMAIN Level /\ tight.minDiagnosticsLevel \in DOMAIN Level
        /\ loose.minDiagnosticsLevel \in DOMAIN Level
    BY <1>2 DEF Policy
  <2>4. Level[loose.minDiagnosticsLevel] <= Level[tight.minDiagnosticsLevel]
    BY DEF IsTightened
  <2> QED BY <2>1, <2>2, <2>3, <2>4 DEF diagnosticsLevelAllows
<1>3. ~routeIsDenied(route, loose.denyRoutes)
  <2>1. ~routeIsDenied(route, tight.denyRoutes)
    BY DEF eligible
  <2>2. ASSUME NEW i \in DOMAIN loose.denyRoutes
        PROVE  \E j \in DOMAIN tight.denyRoutes : tight.denyRoutes[j] = loose.denyRoutes[i]
    BY DEF IsTightened, ToSet
  <2> QED BY <2>1, <2>2 DEF routeIsDenied
<1>4. roll < loose.sampleRate
  <2>1. tight.sampleRate \in Int /\ loose.sampleRate \in Int
    BY DEF Policy
  <2> QED BY <2>1 DEF eligible, IsTightened
<1> QED BY <1>1, <1>2, <1>3, <1>4 DEF eligible

(* The host may tighten, never loosen (config.ts:516, config.py:159-161,   *)
(* policy.ts:150-151): what either SDK makes of options it accepts,        *)
(* however long the lists and strings in them, keeps the budget of a hook  *)
(* and the floor of masking, Python as long as the budget it is given is a *)
(* number; and a tightened policy never makes a session eligible.          *)
THEOREM OptionsOnlyTightenAlways == Spec => []OptionsOnlyTighten
<1>1. Inputs => OptionsOnlyTighten
  <2> SUFFICES ASSUME Inputs PROVE OptionsOnlyTighten
    OBVIOUS
  <2>1. ASSUME given.for = "options"
        PROVE  /\ resolveConfig(given.opts).ok => StaysWithin(resolveConfig(given.opts).config)
               /\ pyConfig(given.opts).ok /\ Option(given.opts, "beforeSendTimeoutMs") # NaN =>
                    StaysWithin(pyConfig(given.opts).config)
    <3>1. IsOptions(given.opts)
      BY <2>1, OperatorsAssumption DEF Inputs, IsOptions
    <3> QED BY <3>1, ClientStaysWithin, PyStaysWithin
  <2>2. ASSUME given.for = "policy", IsTightened(given.asked.tight, given.asked.loose),
               eligible(given.asked.tight, given.asked.level, given.asked.route, given.asked.roll)
        PROVE  eligible(given.asked.loose, given.asked.level, given.asked.route, given.asked.roll)
    <3>1. /\ given.asked.tight \in Policy /\ given.asked.loose \in Policy
          /\ given.asked.level \in DOMAIN Level \cup {NoLevel} /\ given.asked.roll \in Nat
      BY <2>2, OperatorsAssumption DEF Inputs
    <3> QED BY <2>2, <3>1, TighterRecordsLess
  <2> QED BY <2>1, <2>2 DEF OptionsOnlyTighten
<1> QED BY <1>1, InputsAlways, PTL

-----------------------------------------------------------------------------
(* The options of both SDKs.                                               *)

(* The options of auto-capture and of the widget may be left out.          *)
LEMMA DefaultsAreFine ==
  resolveAutoCapture(Undefined).ok /\ resolveReportWidget(Undefined).ok
<1>1. resolveReportWidget(Undefined).ok
  BY DEF resolveReportWidget, Accepted
<1>2. Unset(Undefined) /\ Undefined.is = "undefined" /\ ~IsBool(Undefined)
  BY DEF Unset, Undefined, IsBool
<1>3. resolveReplayConfig(Undefined).ok
  BY <1>2 DEF resolveReplayConfig, Accepted
<1>4. AutoCaptureIsFine(NoOptions) /\ Option(NoOptions, "replay") = Undefined
  BY <1>2 DEF AutoCaptureIsFine, NoOptions, Option
<1> DEFINE opts == CASE Unset(Undefined) -> NoOptions
                     [] IsBool(Undefined) -> [key \in {"enabled"} |-> Undefined]
                     [] Undefined.is = "object" -> Undefined.object
                     [] OTHER -> NoOptions
<1>5. opts = NoOptions
  BY <1>2
<1>6. resolveAutoCapture(Undefined) =
        IF Undefined.is \notin {"undefined", "boolean", "object"} \/ ~AutoCaptureIsFine(opts)
        THEN Rejected("config.invalid")
        ELSE IF ~resolveReplayConfig(Option(opts, "replay")).ok
        THEN resolveReplayConfig(Option(opts, "replay"))
        ELSE Accepted(ResolvedAutoCapture(opts, resolveReplayConfig(Option(opts, "replay")).config))
  BY DEF resolveAutoCapture
<1> HIDE DEF opts
<1>7. resolveAutoCapture(Undefined).ok
  BY <1>2, <1>3, <1>4, <1>5, <1>6 DEF Accepted
<1> QED BY <1>1, <1>7

(* What an option both SDKs know can be: missing, or a value that is not   *)
(* null and, if a number or a switch, one.                                 *)
LEMMA CommonFacts ==
  ASSUME NEW opts, IsOptions(opts), CommonOptions(opts), NEW key
  PROVE  LET v == Option(opts, key) IN
         /\ IsValue(v) /\ v # Null
         /\ IsWord(v) => v.string # " "
         /\ v = Undefined <=> Unset(v)
         /\ v # Undefined => key \in DOMAIN opts /\ v = opts[key]
<1>1. CASE key \in DOMAIN opts
  BY <1>1, OptionFacts DEF CommonOptions, Option, Unset
<1>2. CASE key \notin DOMAIN opts
  <2>1. Option(opts, key) = Undefined
    BY <1>2 DEF Option
  <2>2. Undefined # Null /\ ~IsWord(Undefined)
    BY DEF Undefined, Null, IsWord
  <2> QED BY <2>1, <2>2, OptionFacts DEF Unset
<1> QED BY <1>1, <1>2

(* The constructor of the Python SDK passes on what it was given.          *)
PyIsFine(opts) == validateOptions(opts) /\ validateSessionConfig(opts)

(* Both SDKs accept the same session timeouts.                             *)
LEMMA TimeoutsAgree ==
  ASSUME NEW opts, IsOptions(opts), CommonOptions(opts),
         NEW key \in {"sessionInactivityMs", "sessionMaxDurationMs"}, NEW default
  PROVE  LET v == Option(opts, key) IN
         SessionTimeoutInPython(v, default) <=>
           Unset(v) \/ Within(v, MIN_SESSION_TIMEOUT, default)
<1> DEFINE v == Option(opts, key)
<1>1. v # Null /\ (v = Undefined <=> Unset(v)) /\ (v # Undefined => key \in DOMAIN opts /\ v = opts[key])
  BY CommonFacts
<1>2. ASSUME v # Undefined, v.is = "number" PROVE v.tenths % 10 = 0
  BY <1>1, <1>2 DEF CommonOptions
<1>3. Within(v, MIN_SESSION_TIMEOUT, default) => v.is = "number"
  BY DEF Within, AtLeast
<1> HIDE DEF v
<1>4. SessionTimeoutInPython(v, default) <=> Unset(v) \/ Within(v, MIN_SESSION_TIMEOUT, default)
  BY <1>1, <1>2, <1>3 DEF SessionTimeoutInPython
<1> QED BY <1>4 DEF v

(* Both SDKs accept the same budgets for the hook.                         *)
LEMMA BudgetsAgree ==
  ASSUME NEW opts, IsOptions(opts), CommonOptions(opts)
  PROVE  LET v == Option(opts, "beforeSendTimeoutMs") IN
         BeforeSendTimeoutInPython(v) <=> Unset(v) \/ AtLeast(v, 1)
<1> DEFINE v == Option(opts, "beforeSendTimeoutMs")
<1>1. /\ v # NaN /\ v # Bool(TRUE)
      /\ v = Undefined <=> Unset(v)
      /\ v # Undefined => v = opts["beforeSendTimeoutMs"]
  BY CommonFacts DEF CommonOptions
<1>2. AtLeast(v, 1) => v # Undefined
  BY DEF AtLeast, Undefined
<1>3. AtLeast(v, 1) => v.tenths <= MAX_BEFORE_SEND_TIMEOUT
  BY <1>1, <1>2 DEF CommonOptions
<1> HIDE DEF v
<1>4. BeforeSendTimeoutInPython(v) <=> Unset(v) \/ AtLeast(v, 1)
  BY <1>1, <1>3 DEF BeforeSendTimeoutInPython, Within
<1> QED BY <1>4 DEF v

(* Both SDKs accept the same endpoints.                                    *)
LEMMA EndpointsAgree ==
  ASSUME NEW opts, CommonOptions(opts)
  PROVE  LET v == Option(opts, "endpoint") IN EndpointIsFine(v) <=> assertValidEndpointUrl(v)
<1> DEFINE v == Option(opts, "endpoint")
<1>1. v.is = "address" => v = opts["endpoint"]
  BY DEF Option, Undefined
<1>2. v.is = "address" => v.host \notin {"printer.local", "app.localhost"}
  BY <1>1 DEF CommonOptions
<1>3. ~("http" = "https")
  OBVIOUS
<1> HIDE DEF v
<1>4. EndpointIsFine(v) <=> assertValidEndpointUrl(v)
  BY <1>2, <1>3 DEF EndpointIsFine, assertValidEndpointUrl, isLoopbackOrLocalHost
<1> QED BY <1>4 DEF v

(* Both SDKs accept the same common options.                               *)
LEMMA BothAccept ==
  ASSUME NEW opts, IsOptions(opts), CommonOptions(opts)
  PROVE  ClientIsFine(opts) <=> PyIsFine(opts)
<1> DEFINE v(key) == Option(opts, key)
<1>1. DOMAIN opts \subseteq PERMITTED_LOCAL_KWARGS \cup {"apiKey", "endpoint"}
  BY DEF CommonOptions
<1>2. DOMAIN opts \subseteq ALLOWED_OPTION_KEYS
  BY <1>1 DEF PERMITTED_LOCAL_KWARGS, ALLOWED_OPTION_KEYS
<1>3. /\ v("autoCapture") = Undefined /\ v("reportWidget") = Undefined
      /\ v("maskSelectors") = Undefined
  BY <1>1 DEF PERMITTED_LOCAL_KWARGS, Option
<1>4. /\ resolveAutoCapture(v("autoCapture")).ok /\ resolveReportWidget(v("reportWidget")).ok
      /\ Unset(v("maskSelectors"))
  BY <1>3, DefaultsAreFine DEF Unset
<1>5. IsWord(v("apiKey")) <=> assertNonEmptyString(v("apiKey"))
  BY CommonFacts DEF assertNonEmptyString
<1>6. IsWord(v("apiKey")) => v("apiKey") = opts["apiKey"]
  <2>1. ~IsWord(Undefined)
    BY DEF IsWord, Undefined
  <2> QED BY <2>1, CommonFacts
<1>7. EndpointIsFine(v("endpoint")) <=> assertValidEndpointUrl(v("endpoint"))
  BY EndpointsAgree
<1>8. \A key \in {"onError", "beforeSend", "transport"} : Unset(v(key)) \/ v(key) = Function
  BY DEF CommonOptions, Unset
<1>9. (Unset(v("sessionAttributes")) \/ v("sessionAttributes") = Function)
        <=> v("sessionAttributes") \in {Undefined, Null, Function}
  BY CommonFacts
<1>10. BeforeSendTimeoutInPython(v("beforeSendTimeoutMs"))
         <=> Unset(v("beforeSendTimeoutMs")) \/ AtLeast(v("beforeSendTimeoutMs"), 1)
  BY BudgetsAgree
<1>11. /\ SessionTimeoutInPython(v("sessionInactivityMs"), DEFAULT_SESSION_INACTIVITY) <=>
            \/ Unset(v("sessionInactivityMs"))
            \/ Within(v("sessionInactivityMs"), MIN_SESSION_TIMEOUT, DEFAULT_SESSION_INACTIVITY)
       /\ SessionTimeoutInPython(v("sessionMaxDurationMs"), DEFAULT_SESSION_MAX_DURATION) <=>
            \/ Unset(v("sessionMaxDurationMs"))
            \/ Within(v("sessionMaxDurationMs"), MIN_SESSION_TIMEOUT, DEFAULT_SESSION_MAX_DURATION)
  BY TimeoutsAgree
<1>12. (Unset(v("autoSession")) \/ IsBool(v("autoSession")))
         <=> (Unset(v("autoSession")) \/ IsBool(opts["autoSession"]))
  BY CommonFacts
<1>13. Unset(v("debug")) \/ IsBool(opts["debug"])
  BY DEF CommonOptions
<1> HIDE DEF v
<1>14. ClientIsFine(opts) <=>
         /\ IsWord(v("apiKey")) /\ utf8ByteLength(v("apiKey")) <= MAX_API_KEY_BYTES
         /\ EndpointIsFine(v("endpoint"))
         /\ Unset(v("sessionAttributes")) \/ v("sessionAttributes") = Function
         /\ Unset(v("beforeSendTimeoutMs")) \/ AtLeast(v("beforeSendTimeoutMs"), 1)
         /\ \/ Unset(v("sessionInactivityMs"))
            \/ Within(v("sessionInactivityMs"), MIN_SESSION_TIMEOUT, DEFAULT_SESSION_INACTIVITY)
         /\ \/ Unset(v("sessionMaxDurationMs"))
            \/ Within(v("sessionMaxDurationMs"), MIN_SESSION_TIMEOUT, DEFAULT_SESSION_MAX_DURATION)
         /\ Unset(v("autoSession")) \/ IsBool(v("autoSession"))
  BY <1>2, <1>4, <1>8 DEF ClientIsFine, v
<1>15. PyIsFine(opts) <=>
         /\ assertNonEmptyString(v("apiKey"))
         /\ utf8ByteLength(opts["apiKey"]) <= MAX_API_KEY_BYTES
         /\ assertValidEndpointUrl(v("endpoint"))
         /\ BeforeSendTimeoutInPython(v("beforeSendTimeoutMs"))
         /\ Unset(v("autoSession")) \/ IsBool(opts["autoSession"])
         /\ v("sessionAttributes") \in {Undefined, Null, Function}
         /\ SessionTimeoutInPython(v("sessionInactivityMs"), DEFAULT_SESSION_INACTIVITY)
         /\ SessionTimeoutInPython(v("sessionMaxDurationMs"), DEFAULT_SESSION_MAX_DURATION)
  BY <1>1, <1>13 DEF PyIsFine, validateOptions, validateSessionConfig, v
<1> QED BY <1>5, <1>6, <1>7, <1>9, <1>10, <1>11, <1>12, <1>14, <1>15

(* Both SDKs post the events of an endpoint without a path to one address. *)
LEMMA UrlsAgree ==
  ASSUME NEW endpoint, endpoint.path = <<>>
  PROVE  eventsUrl(endpoint) = pyEventsUrl(WithoutSlashes(endpoint))
<1> DEFINE kept == WithoutSlashes(endpoint)
<1>1. /\ kept.scheme = endpoint.scheme /\ kept.host = endpoint.host
      /\ kept.path = <<>> /\ kept.slashes = 0
  BY DEF WithoutSlashes, Url
<1> HIDE DEF kept
<1>2. [i \in 1..kept.slashes |-> ""] = <<>>
  BY <1>1
<1>3. <<>> \o <<>> \o EVENTS_PATH = EVENTS_PATH
  BY DEF EVENTS_PATH
<1>4. eventsUrl(endpoint) = pyEventsUrl(kept)
  BY <1>1, <1>2, <1>3 DEF eventsUrl, pyEventsUrl
<1> QED BY <1>4 DEF kept

(* Both SDKs make the same of the common options they accept, but for the  *)
(* slashes at the end of the endpoint.                                     *)
LEMMA SameConfig ==
  ASSUME NEW opts, IsOptions(opts), CommonOptions(opts), ClientIsFine(opts), pyConfig(opts).ok
  PROVE  LET ts == ResolvedClient(opts)
             py == pyConfig(opts).config
         IN  /\ \A key \in DOMAIN py \ {"endpoint"} : ts[key] = py[key]
             /\ eventsUrl(ts.endpoint) = pyEventsUrl(py.endpoint)
<1> DEFINE ts == ResolvedClient(opts)
           py == pyConfig(opts).config
           v(key) == Option(opts, key)
<1>1. /\ ts.apiKey = opts["apiKey"] /\ ts.endpoint = opts["endpoint"]
      /\ ts.beforeSendTimeoutMs = BeforeSendTimeout(v("beforeSendTimeoutMs"))
      /\ ts.debug = (v("debug") = Bool(TRUE))
      /\ ts.sessionInactivityMs = Timeout(v("sessionInactivityMs"), DEFAULT_SESSION_INACTIVITY)
      /\ ts.sessionMaxDurationMs =
           Timeout(v("sessionMaxDurationMs"), DEFAULT_SESSION_MAX_DURATION)
      /\ ts.autoSession = resolveBool(v("autoSession"), TRUE)
  BY DEF ResolvedClient
<1>2. /\ DOMAIN py = {"apiKey", "endpoint", "beforeSendTimeoutMs", "debug",
                      "sessionInactivityMs", "sessionMaxDurationMs", "autoSession"}
      /\ py.apiKey = opts["apiKey"] /\ py.endpoint = WithoutSlashes(opts["endpoint"])
      /\ py.beforeSendTimeoutMs =
           IF v("beforeSendTimeoutMs") = NaN THEN NOT_A_NUMBER
           ELSE PyNumber(opts, "beforeSendTimeoutMs", MAX_BEFORE_SEND_TIMEOUT)
      /\ py.debug = resolveBool(v("debug"), FALSE)
      /\ py.sessionInactivityMs =
           PyNumber(opts, "sessionInactivityMs", DEFAULT_SESSION_INACTIVITY)
      /\ py.sessionMaxDurationMs =
           PyNumber(opts, "sessionMaxDurationMs", DEFAULT_SESSION_MAX_DURATION)
      /\ py.autoSession = resolveBool(v("autoSession"), TRUE)
  BY PyConfigFields
<1> HIDE DEF ts, py
<1>3. ASSUME NEW key, NEW default, NEW low \in Nat,
             Unset(v(key)) \/ AtLeast(v(key), low)
      PROVE  PyNumber(opts, key, default) = Timeout(v(key), default)
  <2>1. /\ v(key) # Null /\ (v(key) = Undefined <=> Unset(v(key)))
        /\ v(key) # Undefined => v(key) = opts[key]
    BY CommonFacts
  <2>2. CASE Unset(v(key))
    BY <2>1, <2>2 DEF PyNumber, Timeout
  <2>3. CASE ~Unset(v(key))
    <3>1. v(key) # Bool(TRUE)
      BY <1>3, <2>3 DEF AtLeast, Bool
    <3> QED BY <2>1, <2>3, <3>1 DEF PyNumber, Timeout
  <2> QED BY <2>2, <2>3
<1>4. py.beforeSendTimeoutMs = ts.beforeSendTimeoutMs
  <2> DEFINE w == v("beforeSendTimeoutMs")
  <2>1. /\ w # NaN /\ (Unset(w) \/ AtLeast(w, 1))
        /\ w # Undefined => w = opts["beforeSendTimeoutMs"]
        /\ w = Undefined <=> Unset(w)
        /\ IsValue(w)
    BY CommonFacts DEF CommonOptions, ClientIsFine
  <2>2. AtLeast(w, 1) => w.tenths <= MAX_BEFORE_SEND_TIMEOUT
    <3>1. AtLeast(w, 1) => w # Undefined
      BY DEF AtLeast, Undefined
    <3> QED BY <2>1, <3>1 DEF CommonOptions
  <2>3. py.beforeSendTimeoutMs = Timeout(w, MAX_BEFORE_SEND_TIMEOUT)
    BY <1>2, <1>3, <2>1
  <2> HIDE DEF v, w
  <2>4. BeforeSendTimeout(w) = Timeout(w, MAX_BEFORE_SEND_TIMEOUT)
    <3>1. CASE Unset(w)
      BY <3>1 DEF BeforeSendTimeout, Timeout
    <3>2. CASE ~Unset(w)
      <4>1. w.tenths \in Int /\ w.tenths <= MAX_BEFORE_SEND_TIMEOUT
        BY <2>1, <2>2, <3>2 DEF AtLeast, IsValue
      <4> QED BY <3>2, <4>1, Limits DEF BeforeSendTimeout, Timeout
    <3> QED BY <3>1, <3>2
  <2> QED BY <1>1, <2>3, <2>4 DEF w
<1>5. py.debug = ts.debug
  <2>1. /\ IsValue(v("debug"))
        /\ v("debug") = Undefined <=> Unset(v("debug"))
        /\ v("debug") # Undefined => v("debug") = opts["debug"]
        /\ Unset(v("debug")) \/ IsBool(opts["debug"])
    BY CommonFacts DEF CommonOptions
  <2>2. CASE Unset(v("debug"))
    <3>1. v("debug") # Bool(TRUE)
      BY <2>2 DEF Unset, Undefined, Bool
    <3> QED BY <1>1, <1>2, <2>2, <3>1 DEF resolveBool
  <2>3. CASE ~Unset(v("debug"))
    <3>1. v("debug") \in {Bool(TRUE), Bool(FALSE)}
      BY <2>1, <2>3 DEF IsValue, IsBool
    <3>2. Bool(TRUE).boolean = TRUE /\ Bool(FALSE).boolean = FALSE /\ Bool(TRUE) # Bool(FALSE)
      BY DEF Bool
    <3> QED BY <1>1, <1>2, <2>3, <3>1, <3>2 DEF resolveBool
  <2> QED BY <2>2, <2>3
<1>6. /\ py.sessionInactivityMs = ts.sessionInactivityMs
      /\ py.sessionMaxDurationMs = ts.sessionMaxDurationMs
  <2>1. /\ Unset(v("sessionInactivityMs")) \/ AtLeast(v("sessionInactivityMs"), MIN_SESSION_TIMEOUT)
        /\ Unset(v("sessionMaxDurationMs")) \/ AtLeast(v("sessionMaxDurationMs"), MIN_SESSION_TIMEOUT)
    BY DEF ClientIsFine, Within
  <2> QED BY <1>1, <1>2, <1>3, <2>1, Limits
<1>7. \A key \in DOMAIN py \ {"endpoint"} : ts[key] = py[key]
  BY <1>1, <1>2, <1>4, <1>5, <1>6
<1>8. opts["endpoint"].path = <<>>
  <2>1. EndpointIsFine(v("endpoint"))
    BY DEF ClientIsFine
  <2>2. v("endpoint").is = "address"
    BY <2>1 DEF EndpointIsFine
  <2> QED BY <2>2 DEF CommonOptions
<1>9. eventsUrl(ts.endpoint) = pyEventsUrl(py.endpoint)
  BY <1>1, <1>2, <1>8, UrlsAgree
<1> QED BY <1>7, <1>9 DEF ts, py

(* The two clients accept the same options, resolve them alike and post to *)
(* the same address, whatever the options are, as far as both document     *)
(* them and mean the same by them (CommonOptions; config.ts:497-562,       *)
(* config.py:96-181, transport.ts:509, transport.py:250).                  *)
THEOREM OptionsAgreeAlways == Spec => []OptionsAgree
<1>1. Inputs => OptionsAgree
  <2> SUFFICES ASSUME Inputs, given.for = "options", CommonOptions(given.opts)
               PROVE  LET ts == resolveConfig(given.opts)
                          py == pyConfig(given.opts)
                      IN  /\ ts.ok = py.ok
                          /\ ts.ok =>
                               /\ \A key \in DOMAIN py.config \ {"endpoint"} :
                                    ts.config[key] = py.config[key]
                               /\ eventsUrl(ts.config.endpoint) = pyEventsUrl(py.config.endpoint)
    BY DEF OptionsAgree
  <2> DEFINE opts == given.opts
  <2>1. IsOptions(opts)
    BY OperatorsAssumption DEF Inputs, IsOptions
  <2>2. ClientIsFine(opts) <=> PyIsFine(opts)
    BY <2>1, BothAccept
  <2>3. /\ resolveConfig(opts).ok <=> ClientIsFine(opts)
        /\ resolveConfig(opts).ok => resolveConfig(opts).config = ResolvedClient(opts)
    BY AcceptedClient
  <2>4. pyConfig(opts).ok <=> PyIsFine(opts)
    BY DEF pyConfig, PyIsFine, Accepted, Rejected
  <2>5. resolveConfig(opts).ok \in BOOLEAN /\ pyConfig(opts).ok \in BOOLEAN
    BY DEF resolveConfig, pyConfig, Accepted, Rejected
  <2>6. resolveConfig(opts).ok = pyConfig(opts).ok
    BY <2>2, <2>3, <2>4, <2>5
  <2>7. ASSUME resolveConfig(opts).ok
        PROVE  LET ts == resolveConfig(opts).config
                   py == pyConfig(opts).config
               IN  /\ \A key \in DOMAIN py \ {"endpoint"} : ts[key] = py[key]
                   /\ eventsUrl(ts.endpoint) = pyEventsUrl(py.endpoint)
    BY <2>1, <2>3, <2>6, <2>7, SameConfig
  <2> QED BY <2>6, <2>7
<1> QED BY <1>1, InputsAlways, PTL

-----------------------------------------------------------------------------
(* A scrubbed text.                                                        *)

(* A text whose fragments were kept or replaced by the token of a rule.    *)
RedactedBy(text, out) ==
  /\ DOMAIN out = DOMAIN text
  /\ \A i \in DOMAIN text :
       \/ out[i] = text[i]
       \/ \E j \in 1..5 : out[i] = redactionToken(Rules[j])

(* Five elements make a sequence of length five.                           *)
LEMMA FiveLong ==
  ASSUME NEW a, NEW b, NEW c, NEW d, NEW e
  PROVE  Len(<<a, b, c, d, e>>) = 5 /\ DOMAIN <<a, b, c, d, e>> = 1..5
<1>1. <<a, b, c, d, e>> \in Seq({a, b, c, d, e})
  OBVIOUS
<1>2. Len(<<a, b, c, d, e>>) = 5
  OBVIOUS
<1> QED BY <1>1, <1>2, LenProperties

(* There are five rules.                                                   *)
LEMMA RulesFacts ==
  Len(Rules) = 5 /\ DOMAIN Rules = 1..5
BY FiveLong DEF Rules

(* No rule finds anything in the token of a rule.                          *)
LEMMA TokenIsClean ==
  ASSUME NEW rule, NEW other, NEW dialect
  PROVE  ~Detects(other, redactionToken(rule), dialect)
BY DEF Detects, redactionToken, IsRun, Foreign, Bordered

(* The passes of the rules, one after another.                             *)
Passes(text, dialect, after) ==
  after = [n \in 0..Len(Rules) |-> IF n = 0 THEN text ELSE Pass(after[n - 1], Rules[n], dialect)]

(* What every pass leaves, and what the last one does.                     *)
Stages(text, dialect, after) ==
  /\ after[0] = text
  /\ \A n \in 1..5 : after[n] = Pass(after[n - 1], Rules[n], dialect)
  /\ Redacted(text, dialect) = after[5]

(* The function that runs one pass after another exists.                   *)
LEMMA PassesOver ==
  ASSUME NEW text, NEW dialect
  PROVE  \E after : Passes(text, dialect, after)
<1> DEFINE p1 == Pass(text, Rules[1], dialect)
           p2 == Pass(p1, Rules[2], dialect)
           p3 == Pass(p2, Rules[3], dialect)
           p4 == Pass(p3, Rules[4], dialect)
           p5 == Pass(p4, Rules[5], dialect)
           after == [n \in 0..5 |-> IF n = 0 THEN text ELSE IF n = 1 THEN p1 ELSE IF n = 2 THEN p2
                                    ELSE IF n = 3 THEN p3 ELSE IF n = 4 THEN p4 ELSE p5]
<1>1. ASSUME NEW n \in 0..5
      PROVE  after[n] = IF n = 0 THEN text ELSE Pass(after[n - 1], Rules[n], dialect)
  <2>1. n = 0 \/ n = 1 \/ n = 2 \/ n = 3 \/ n = 4 \/ n = 5
    OBVIOUS
  <2>2. /\ after[0] = text /\ after[1] = p1 /\ after[2] = p2 /\ after[3] = p3 /\ after[4] = p4
        /\ after[5] = p5
    <3> HIDE DEF p1, p2, p3, p4, p5
    <3> QED OBVIOUS
  <2> HIDE DEF after
  <2>3. after[n] = IF n = 0 THEN text ELSE Pass(after[n - 1], Rules[n], dialect)
    <3>1. 1 - 1 = 0 /\ 2 - 1 = 1 /\ 3 - 1 = 2 /\ 4 - 1 = 3 /\ 5 - 1 = 4
      OBVIOUS
    <3> QED BY <2>1, <2>2, <3>1
  <2> QED BY <2>3
<1>2. after = [n \in 0..5 |-> after[n]]
  OBVIOUS
<1> HIDE DEF after
<1>3. after = [n \in 0..5 |-> IF n = 0 THEN text ELSE Pass(after[n - 1], Rules[n], dialect)]
  BY <1>1, <1>2
<1> QED BY <1>3, RulesFacts DEF Passes

(* What the rules make of a text, pass by pass.                            *)
LEMMA PassByPass ==
  ASSUME NEW text, NEW dialect
  PROVE  \E after : Stages(text, dialect, after)
<1> DEFINE after == CHOOSE f : Passes(text, dialect, f)
<1>1. Redacted(text, dialect) = after[5]
  BY RulesFacts DEF Redacted, Passes
<1>2. Passes(text, dialect, after)
  BY PassesOver
<1> HIDE DEF after
<1>3. after[0] = text /\ \A n \in 1..5 : after[n] = Pass(after[n - 1], Rules[n], dialect)
  <2>1. \A n \in 0..5 : after[n] = IF n = 0 THEN text ELSE Pass(after[n - 1], Rules[n], dialect)
    BY <1>2, RulesFacts DEF Passes
  <2> QED BY <2>1
<1> QED BY <1>1, <1>3 DEF Stages

(* The rules of a dialect keep or replace every fragment of a text, and    *)
(* what they keep they do not find.                                        *)
LEMMA RedactedIsClean ==
  ASSUME NEW text, NEW dialect
  PROVE  /\ RedactedBy(text, Redacted(text, dialect))
         /\ \A i \in DOMAIN text : IsClean(Redacted(text, dialect)[i], dialect)
<1>1. PICK after : Stages(text, dialect, after)
  BY PassByPass
<1> DEFINE Done(n) ==
             /\ DOMAIN after[n] = DOMAIN text
             /\ \A i \in DOMAIN text :
                  \/ after[n][i] = text[i] /\ \A j \in 1..n : ~Detects(Rules[j], text[i], dialect)
                  \/ \E j \in 1..5 : after[n][i] = redactionToken(Rules[j])
<1>4. Done(0)
  <2>1. after[0] = text
    BY <1>1 DEF Stages
  <2> QED BY <2>1
<1>5. ASSUME NEW n \in 1..5, Done(n - 1) PROVE Done(n)
  <2>1. after[n] = Pass(after[n - 1], Rules[n], dialect)
    BY <1>1 DEF Stages
  <2> DEFINE before == after[n - 1]
  <2>2. /\ DOMAIN after[n] = DOMAIN text
        /\ \A i \in DOMAIN text :
             after[n][i] = IF Detects(Rules[n], before[i], dialect) THEN redactionToken(Rules[n])
                           ELSE before[i]
    BY <1>5, <2>1 DEF Pass
  <2>3. ASSUME NEW i \in DOMAIN text
        PROVE  \/ /\ after[n][i] = text[i]
                  /\ \A j \in 1..n : ~Detects(Rules[j], text[i], dialect)
               \/ \E j \in 1..5 : after[n][i] = redactionToken(Rules[j])
    <3>1. CASE Detects(Rules[n], before[i], dialect)
      <4>1. after[n][i] = redactionToken(Rules[n])
        BY <2>2, <3>1
      <4> QED BY <4>1
    <3>2. CASE ~Detects(Rules[n], before[i], dialect)
      <4>1. after[n][i] = before[i]
        BY <2>2, <3>2
      <4>2. CASE /\ before[i] = text[i]
                 /\ \A j \in 1..n - 1 : ~Detects(Rules[j], text[i], dialect)
        <5>1. ~Detects(Rules[n], text[i], dialect)
          BY <3>2, <4>2
        <5>2. \A j \in 1..n : j = n \/ j \in 1..n - 1
          OBVIOUS
        <5>3. \A j \in 1..n : ~Detects(Rules[j], text[i], dialect)
          BY <4>2, <5>1, <5>2
        <5> QED BY <4>1, <4>2, <5>3
      <4>3. CASE \E j \in 1..5 : before[i] = redactionToken(Rules[j])
        BY <4>1, <4>3
      <4> QED BY <1>5, <4>2, <4>3
    <3> QED BY <3>1, <3>2
  <2> QED BY <2>2, <2>3
<1>6. Done(5)
  <2>1. /\ 1 \in 1..5 /\ 2 \in 1..5 /\ 3 \in 1..5 /\ 4 \in 1..5 /\ 5 \in 1..5
        /\ 1 - 1 = 0 /\ 2 - 1 = 1 /\ 3 - 1 = 2 /\ 4 - 1 = 3 /\ 5 - 1 = 4
    OBVIOUS
  <2> HIDE DEF Done
  <2>2. Done(1)
    BY <1>4, <1>5, <2>1
  <2>3. Done(2)
    BY <1>5, <2>1, <2>2
  <2>4. Done(3)
    BY <1>5, <2>1, <2>3
  <2>5. Done(4)
    BY <1>5, <2>1, <2>4
  <2> QED BY <1>5, <2>1, <2>5
<1>7. ASSUME NEW i \in DOMAIN text PROVE IsClean(after[5][i], dialect)
  <2>1. CASE /\ after[5][i] = text[i]
             /\ \A j \in 1..5 : ~Detects(Rules[j], text[i], dialect)
    BY <2>1, RulesFacts DEF IsClean
  <2>2. CASE \E j \in 1..5 : after[5][i] = redactionToken(Rules[j])
    BY <2>2, TokenIsClean DEF IsClean
  <2> QED BY <1>6, <2>1, <2>2
<1> QED BY <1>1, <1>6, <1>7 DEF RedactedBy, Stages

(* So it is with scrubString().                                            *)
LEMMA ScrubbedIsClean ==
  ASSUME NEW text
  PROVE  /\ RedactedBy(text, scrubString(text))
         /\ \A i \in DOMAIN text : IsClean(scrubString(text)[i], "ecma")
BY RedactedIsClean DEF scrubString

-----------------------------------------------------------------------------
(* Descriptors and addresses.                                              *)

(* The fragments a descriptor may have of an element.                      *)
Said(el) ==
  ({TagName(el.tag), Masked} \cup {el.attrs[name] : name \in DOMAIN el.attrs}
    \cup {hook.name : hook \in ToSet(el.hooks)} \cup {hook.value : hook \in ToSet(el.hooks)}
    \cup ToSet(el.classes)) \ {Prose}

(* A safe value is not prose.                                              *)
LEMMA SafeIsNotProse ==
  ASSUME NEW v, Safe(v)
  PROVE  v # Prose
BY DEF Safe, isSafeAttrToken, Prose

(* Neither is what the SDK says itself.                                    *)
LEMMA NoneIsProse ==
  /\ Masked # Prose /\ Plain # Prose
  /\ \A tag : TagName(tag) # Prose
  /\ \A rule : redactionToken(rule) # Prose
<1>1. /\ Prose.shape = "prose" /\ Masked.shape = "masked" /\ Plain.shape = "plain"
      /\ \A tag : TagName(tag).shape = "tag"
      /\ \A rule : redactionToken(rule).shape = "redacted"
  BY DEF Prose, Masked, Plain, TagName, redactionToken
<1> QED BY <1>1

(* A text of one fragment.                                                 *)
LEMMA OneIn ==
  ASSUME NEW T, NEW a \in T
  PROVE  <<a>> \in Seq(T)
OBVIOUS

(* A list of six.                                                          *)
LEMMA SixIn ==
  ASSUME NEW T, NEW a \in T, NEW b \in T, NEW c \in T, NEW d \in T, NEW e \in T, NEW f \in T
  PROVE  <<a, b, c, d, e, f>> \in Seq(T)
OBVIOUS

(* An attribute says nothing or a safe value.                              *)
LEMMA SafeAttrIn ==
  ASSUME NEW el, NEW name
  PROVE  safeAttr(el, name) \in Seq(Said(el))
<1>1. CASE name \in DOMAIN el.attrs /\ Safe(el.attrs[name])
  <2>1. el.attrs[name] \in Said(el)
    BY <1>1, SafeIsNotProse DEF Said
  <2> QED BY <1>1, <2>1, OneIn DEF safeAttr
<1>2. CASE ~(name \in DOMAIN el.attrs /\ Safe(el.attrs[name]))
  <2>1. safeAttr(el, name) = <<>>
    BY <1>2 DEF safeAttr
  <2> QED BY <2>1, EmptySeq
<1> QED BY <1>1, <1>2

(* The classes say nothing or a safe one.                                  *)
LEMMA ClassIn ==
  ASSUME NEW el, IsElement(el)
  PROVE  safeClassToken(el) \in Seq(Said(el))
<1> DEFINE safe == {i \in DOMAIN el.classes : Safe(el.classes[i])}
<1>1. safe \subseteq Nat
  <2>1. DOMAIN el.classes = 1..Len(el.classes) /\ Len(el.classes) \in Nat
    BY LenProperties DEF IsElement
  <2> QED BY <2>1
<1>2. CASE safe = {}
  <2>1. safeClassToken(el) = <<>>
    BY <1>2 DEF safeClassToken
  <2> QED BY <2>1, EmptySeq
<1>3. CASE safe # {}
  <2>1. Min(safe) \in safe
    <3> HIDE DEF safe
    <3> QED BY <1>1, <1>3, MinFacts
  <2> DEFINE first == Min(safe)
  <2>2. safeClassToken(el) = <<el.classes[first]>>
    BY <1>3 DEF safeClassToken
  <2>3. first \in DOMAIN el.classes /\ Safe(el.classes[first])
    BY <2>1
  <2> HIDE DEF first
  <2>4. el.classes[first] \in Said(el)
    BY <2>3, SafeIsNotProse DEF Said, ToSet
  <2> QED BY <2>2, <2>4, OneIn
<1> QED BY <1>2, <1>3

(* The hooks say their names and their safe values.                        *)
LEMMA HooksIn ==
  ASSUME NEW el, IsElement(el)
  PROVE  FlattenSeq([i \in DOMAIN el.hooks |-> HookText(el.hooks[i])]) \in Seq(Said(el))
<1>1. DOMAIN el.hooks = 1..Len(el.hooks) /\ Len(el.hooks) \in Nat
  BY LenProperties DEF IsElement
<1>2. ASSUME NEW i \in DOMAIN el.hooks PROVE HookText(el.hooks[i]) \in Seq(Said(el))
  <2>1. el.hooks[i] \in ToSet(el.hooks)
    BY DEF ToSet
  <2>2. el.hooks[i].name \in Said(el)
    BY <2>1 DEF Said, IsElement
  <2>3. <<el.hooks[i].name>> \in Seq(Said(el))
    BY <2>2, OneIn
  <2> DEFINE value == IF Safe(el.hooks[i].value) THEN <<el.hooks[i].value>> ELSE <<>>
  <2>4. value \in Seq(Said(el))
    <3>1. CASE Safe(el.hooks[i].value)
      <4>1. el.hooks[i].value \in Said(el)
        BY <2>1, <3>1, SafeIsNotProse DEF Said
      <4> QED BY <3>1, <4>1, OneIn
    <3>2. CASE ~Safe(el.hooks[i].value)
      BY <3>2, EmptySeq
    <3> QED BY <3>1, <3>2
  <2>5. HookText(el.hooks[i]) = <<el.hooks[i].name>> \o value
    BY DEF HookText
  <2> HIDE DEF value
  <2> QED BY <2>3, <2>4, <2>5, ConcatProperties
<1> DEFINE texts == [i \in DOMAIN el.hooks |-> HookText(el.hooks[i])]
<1>3. texts \in Seq(Seq(Said(el)))
  <2>1. texts \in [1..Len(el.hooks) -> Seq(Said(el))]
    BY <1>1, <1>2
  <2> HIDE DEF texts
  <2> QED BY <1>1, <2>1
<1> HIDE DEF texts
<1>4. FlattenSeq(texts) \in Seq(Said(el))
  BY <1>3, FlattenIn
<1> QED BY <1>4 DEF texts

(* An element says of itself what it may.                                  *)
LEMMA DescribeIn ==
  ASSUME NEW el, IsElement(el), NEW selectors
  PROVE  describeElement(el, selectors) \in Seq(Said(el))
<1>1. CASE shouldMaskElement(el, selectors)
  <2>1. Masked \in Said(el)
    BY NoneIsProse DEF Said
  <2> QED BY <1>1, <2>1, OneIn DEF describeElement
<1>2. CASE ~shouldMaskElement(el, selectors)
  <2> DEFINE a == <<TagName(el.tag)>>
             b == safeAttr(el, "role")
             c == FlattenSeq([i \in DOMAIN el.hooks |-> HookText(el.hooks[i])])
             d == IF el.tag \in {"input", "button"} THEN safeAttr(el, "type") ELSE <<>>
             e == IF el.tag \in {"input", "select", "textarea"} THEN safeAttr(el, "name") ELSE <<>>
             f == IF safeAttr(el, "id") # <<>> THEN safeAttr(el, "id") ELSE safeClassToken(el)
  <2>1. describeElement(el, selectors) = FlattenSeq(<<a, b, c, d, e, f>>)
    BY <1>2 DEF describeElement
  <2>2. a \in Seq(Said(el))
    <3>1. TagName(el.tag) \in Said(el)
      BY NoneIsProse DEF Said
    <3> QED BY <3>1, OneIn
  <2>3. b \in Seq(Said(el)) /\ c \in Seq(Said(el))
    BY SafeAttrIn, HooksIn
  <2>4. d \in Seq(Said(el)) /\ e \in Seq(Said(el)) /\ f \in Seq(Said(el))
    BY SafeAttrIn, ClassIn, EmptySeq
  <2> HIDE DEF a, b, c, d, e, f
  <2>5. <<a, b, c, d, e, f>> \in Seq(Seq(Said(el)))
    BY <2>2, <2>3, <2>4, SixIn
  <2> QED BY <2>1, <2>5, FlattenIn
<1> QED BY <1>1, <1>2

(* The first elements of a chain.                                          *)
LEMMA AtMostIn ==
  ASSUME NEW S, NEW chain \in Seq(S), NEW n \in Nat
  PROVE  /\ AtMost(chain, n) \in Seq(S)
         /\ Len(AtMost(chain, n)) = IF Len(chain) < n THEN Len(chain) ELSE n
<1> DEFINE k == IF Len(chain) < n THEN Len(chain) ELSE n
<1>1. Len(chain) \in Nat
  BY LenProperties
<1>2. k \in Nat /\ k <= Len(chain) /\ 1 \in Int /\ k \in Int
  BY <1>1
<1>3. AtMost(chain, n) = SubSeq(chain, 1, k)
  BY DEF AtMost
<1> HIDE DEF k
<1>4. \A i \in 1..k : chain[i] \in S
  BY <1>1, <1>2, ElementOfSeq
<1>5. /\ SubSeq(chain, 1, k) \in Seq(S)
      /\ Len(SubSeq(chain, 1, k)) = IF 1 <= k THEN k - 1 + 1 ELSE 0
  BY <1>2, <1>4, SubSeqProperties
<1>6. Len(SubSeq(chain, 1, k)) = k
  BY <1>2, <1>5
<1> QED BY <1>3, <1>5, <1>6 DEF k

(* A sequence turned round has the same elements.                          *)
LEMMA ReverseIn ==
  ASSUME NEW S, NEW s \in Seq(S)
  PROVE  Reverse(s) \in Seq(S)
<1>1. Len(s) \in Nat
  BY LenProperties
<1>2. \A i \in 1..Len(s) : s[(Len(s) - i) + 1] \in S
  <2> TAKE i \in 1..Len(s)
  <2>1. (Len(s) - i) + 1 \in 1..Len(s)
    BY <1>1
  <2> QED BY <2>1, ElementOfSeq
<1>3. Reverse(s) \in [1..Len(s) -> S]
  BY <1>2 DEF Reverse
<1> QED BY <1>1, <1>3

(* The path of a descriptor is made of elements of the chain.              *)
LEMMA PathIn ==
  ASSUME NEW S, NEW chain \in Seq(S)
  PROVE  PathOf(chain) \in Seq(S)
<1> DEFINE path == AtMost(chain, MAX_SELECTOR_DEPTH)
           stop == {i \in DOMAIN path : path[i].tag \in {"body", "html"}}
           to == IF stop = {} THEN Len(path) ELSE Min(stop)
<1>1. path \in Seq(S)
  BY AtMostIn, OperatorsAssumption
<1>2. Len(path) \in Nat /\ DOMAIN path = 1..Len(path)
  BY <1>1, LenProperties
<1>3. to \in Nat
  <2>1. stop \subseteq Nat
    BY <1>2
  <2> HIDE DEF stop
  <2> QED BY <1>2, <2>1, MinFacts
<1>4. PathOf(chain) = Reverse(AtMost(path, to))
  BY DEF PathOf
<1> HIDE DEF path, to
<1>5. AtMost(path, to) \in Seq(S)
  BY <1>1, <1>3, AtMostIn
<1> QED BY <1>4, <1>5, ReverseIn

(* Nothing a rule finds and no prose is in a descriptor.                   *)
LEMMA DescriptorIsClean ==
  ASSUME NEW S, NEW chain \in Seq(S), \A el \in S : IsElement(el), NEW selectors,
         NEW fragment \in ToSet(describeTarget(chain, selectors))
  PROVE  IsClean(fragment, "ecma") /\ fragment # Prose
<1>1. IsClean(Plain, "ecma") /\ IsClean(Masked, "ecma")
  BY DEF IsClean, Detects, IsRun, Plain, Masked, Foreign, Bordered
<1>2. CASE describeTarget(chain, selectors) \in {<<Plain>>, <<Masked>>}
  <2>1. ToSet(<<Plain>>) = {Plain} /\ ToSet(<<Masked>>) = {Masked}
    BY DEF ToSet
  <2> QED BY <1>1, <1>2, <2>1, NoneIsProse
<1>3. CASE describeTarget(chain, selectors) \notin {<<Plain>>, <<Masked>>}
  <2> DEFINE path == PathOf(chain)
             all == UNION {Said(el) : el \in S}
             parts == [i \in DOMAIN path |-> describeElement(path[i], selectors)]
             text == FlattenSeq(parts)
  <2>1. describeTarget(chain, selectors) = scrubString(text)
    <3> HIDE DEF text
    <3> QED BY <1>3 DEF describeTarget, text
  <2>2. path \in Seq(S)
    BY PathIn
  <2> HIDE DEF path
  <2>3. DOMAIN path = 1..Len(path) /\ Len(path) \in Nat /\ \A i \in 1..Len(path) : path[i] \in S
    BY <2>2, LenProperties, ElementOfSeq
  <2>4. ASSUME NEW i \in DOMAIN path PROVE parts[i] \in Seq(all)
    <3>1. parts[i] \in Seq(Said(path[i]))
      BY <2>3, DescribeIn
    <3>2. Said(path[i]) \subseteq all
      BY <2>3
    <3> HIDE DEF parts, all
    <3> QED BY <3>1, <3>2, SeqMonotonic
  <2>5. parts \in Seq(Seq(all))
    <3>1. DOMAIN parts = 1..Len(path) /\ parts = [i \in DOMAIN parts |-> parts[i]]
      BY <2>3
    <3> HIDE DEF parts, all
    <3>2. parts \in [1..Len(path) -> Seq(all)]
      BY <2>3, <2>4, <3>1
    <3> QED BY <2>3, <3>2
  <2>6. text \in Seq(all)
    <3> HIDE DEF parts, all
    <3> QED BY <2>5, FlattenIn
  <2>7. \A f \in all : f # Prose
    BY DEF Said
  <2> HIDE DEF text, all
  <2>8. /\ RedactedBy(text, scrubString(text))
        /\ \A i \in DOMAIN text : IsClean(scrubString(text)[i], "ecma")
    BY ScrubbedIsClean
  <2>9. PICK i \in DOMAIN text : fragment = scrubString(text)[i]
    BY <2>1, <2>8 DEF ToSet, RedactedBy
  <2>10. text[i] \in all
    BY <2>6, LenProperties, ElementOfSeq
  <2> QED BY <2>7, <2>8, <2>9, <2>10, NoneIsProse DEF RedactedBy
<1> QED BY <1>2, <1>3

(* The form of an element is found in its chain, or past it.               *)
LEMMA FormStart ==
  ASSUME NEW S, NEW chain \in Seq(S)
  PROVE  formStart(chain) \in Int /\ 1 <= formStart(chain)
<1> DEFINE forms == {i \in DOMAIN chain : chain[i].tag = "form" /\ i <= MAX_FORM_DEPTH}
<1>1. Len(chain) \in Nat /\ DOMAIN chain = 1..Len(chain)
  BY LenProperties
<1>2. formStart(chain) = CASE forms # {} -> Min(forms)
                           [] forms = {} /\ Len(chain) <= MAX_FORM_DEPTH -> 1
                           [] OTHER -> MAX_FORM_DEPTH + 1
  BY DEF formStart
<1>3. forms \subseteq Nat /\ \A i \in forms : 1 <= i
  BY <1>1
<1> HIDE DEF forms
<1>4. forms # {} => Min(forms) \in forms
  BY <1>3, MinFacts
<1> QED BY <1>2, <1>3, <1>4, OperatorsAssumption

(* What is above an element is a chain, its elements in the same order.    *)
LEMMA Above ==
  ASSUME NEW S, NEW chain \in Seq(S), NEW from \in Int, 1 <= from
  PROVE  LET rest == SubSeq(chain, from, Len(chain)) IN
         /\ rest \in Seq(S)
         /\ \A i \in from..Len(chain) :
              (i - from) + 1 \in DOMAIN rest /\ rest[(i - from) + 1] = chain[i]
<1> DEFINE rest == SubSeq(chain, from, Len(chain))
<1>1. Len(chain) \in Nat
  BY LenProperties
<1>2. \A i \in from..Len(chain) : chain[i] \in S
  BY <1>1, ElementOfSeq
<1>3. /\ rest \in Seq(S)
      /\ Len(rest) = IF from <= Len(chain) THEN Len(chain) - from + 1 ELSE 0
      /\ \A i \in 1..(Len(chain) - from + 1) : rest[i] = chain[from + i - 1]
  BY <1>1, <1>2, SubSeqProperties
<1> HIDE DEF rest
<1>4. DOMAIN rest = 1..Len(rest)
  BY <1>3, LenProperties
<1>5. ASSUME NEW i \in from..Len(chain)
      PROVE  (i - from) + 1 \in DOMAIN rest /\ rest[(i - from) + 1] = chain[i]
  <2>1. (i - from) + 1 \in 1..(Len(chain) - from + 1) /\ from + ((i - from) + 1) - 1 = i
    BY <1>1
  <2>2. Len(rest) = Len(chain) - from + 1
    BY <1>1, <1>3
  <2> QED BY <1>3, <1>4, <2>1, <2>2
<1> QED BY <1>3, <1>5 DEF rest

(* Nor in the descriptor of a form.                                        *)
LEMMA FormIsClean ==
  ASSUME NEW S, NEW chain \in Seq(S), \A el \in S : IsElement(el), NEW selectors,
         NEW fragment \in ToSet(describeForm(chain, selectors))
  PROVE  IsClean(fragment, "ecma") /\ fragment # Prose
<1>1. SubSeq(chain, formStart(chain), Len(chain)) \in Seq(S)
  BY FormStart, Above
<1> QED BY <1>1, DescriptorIsClean DEF describeForm

(* A masked element that is near enough leaves nothing but the mask.       *)
LEMMA MaskedIsMasked ==
  ASSUME NEW S, NEW chain \in Seq(S), NEW selectors, NEW i \in DOMAIN chain, i <= MAX_MASK_DEPTH,
         matchingMaskRuleId(chain[i], selectors) # NoRule
  PROVE  describeTarget(chain, selectors) = <<Masked>>
<1>1. Len(chain) \in Nat /\ i \in 1..Len(chain)
  BY LenProperties
<1>2. shouldMaskElement(chain[i], selectors)
  BY DEF matchingMaskRuleId, shouldMaskElement
<1>3. i \in DOMAIN AtMost(chain, MAX_MASK_DEPTH)
  <2> DEFINE near == AtMost(chain, MAX_MASK_DEPTH)
  <2>1. near \in Seq(S) /\ Len(near) = IF Len(chain) < MAX_MASK_DEPTH THEN Len(chain) ELSE MAX_MASK_DEPTH
    BY AtMostIn, OperatorsAssumption
  <2> HIDE DEF near
  <2>2. DOMAIN near = 1..Len(near)
    BY <2>1, LenProperties
  <2>3. i \in DOMAIN near
    BY <1>1, <2>1, <2>2, OperatorsAssumption
  <2> QED BY <2>3 DEF near
<1>4. isMaskedTarget(chain, selectors)
  BY <1>2, <1>3 DEF isMaskedTarget
<1>5. chain # <<>>
  BY <1>1, EmptySeq
<1> QED BY <1>4, <1>5 DEF describeTarget

(* Nor does one that is near enough to the form.                           *)
LEMMA FormIsMasked ==
  ASSUME NEW S, NEW chain \in Seq(S), NEW selectors,
         MaskedFrom(chain, formStart(chain), selectors)
  PROVE  describeForm(chain, selectors) = <<Masked>>
<1> DEFINE from == formStart(chain)
           rest == SubSeq(chain, from, Len(chain))
<1>1. from \in Int /\ 1 <= from
  BY FormStart
<1> HIDE DEF from
<1>2. PICK i \in DOMAIN chain :
        /\ i \in from..(from + MAX_MASK_DEPTH - 1)
        /\ matchingMaskRuleId(chain[i], selectors) # NoRule
  BY DEF MaskedFrom, from
<1>3. i \in from..Len(chain)
  <2>1. Len(chain) \in Nat /\ DOMAIN chain = 1..Len(chain)
    BY LenProperties
  <2> QED BY <1>1, <1>2, <2>1
<1> DEFINE k == (i - from) + 1
<1>4. rest \in Seq(S) /\ k \in DOMAIN rest /\ rest[k] = chain[i]
  BY <1>1, <1>3, Above
<1>5. k <= MAX_MASK_DEPTH
  BY <1>1, <1>2, OperatorsAssumption
<1> HIDE DEF k, rest
<1>6. describeTarget(rest, selectors) = <<Masked>>
  BY <1>2, <1>4, <1>5, MaskedIsMasked
<1> QED BY <1>6 DEF describeForm, rest, from

(* Neither do the values of a query, nor the hash of an address that       *)
(* parses.                                                                 *)
LEMMA SecretsAreNotSaid ==
  ASSUME NEW raw \in Addresses \ {NoAddress}, NEW other \in Addresses \ {NoAddress},
         NEW hasBase, AlikeButSecrets(raw, other, hasBase)
  PROVE  scrubUrl(raw, hasBase) = scrubUrl(other, hasBase)
<1>1. raw.params \in Seq(ToSet(raw.params)) /\ other.params \in Seq(ToSet(other.params))
  BY OperatorsAssumption
<1>2. /\ DOMAIN raw.params = DOMAIN other.params
      /\ raw.params = <<>> <=> other.params = <<>>
  <2>1. /\ DOMAIN raw.params = 1..Len(raw.params) /\ Len(raw.params) \in Nat
        /\ DOMAIN other.params = 1..Len(other.params) /\ Len(other.params) \in Nat
    BY <1>1, LenProperties
  <2>2. /\ raw.params # <<>> => Len(raw.params) # 0
        /\ other.params # <<>> => Len(other.params) # 0
    BY <1>1, EmptySeq
  <2>3. Len(<<>>) = 0
    OBVIOUS
  <2> QED BY <2>1, <2>2, <2>3 DEF AlikeButSecrets
<1>3. Query(raw.params) = Query(other.params)
  <2>1. [i \in DOMAIN raw.params |-> <<raw.params[i].key, "[redacted]">>]
          = [i \in DOMAIN other.params |-> <<other.params[i].key, "[redacted]">>]
    BY <1>2 DEF AlikeButSecrets
  <2> QED BY <2>1 DEF Query
<1>4. tryParseUrl(raw, hasBase) <=> tryParseUrl(other, hasBase)
  BY DEF tryParseUrl, AlikeButSecrets
<1> QED BY <1>2, <1>3, <1>4 DEF scrubUrl, BeforeQuery, AlikeButSecrets

(* Descriptors and addresses in auto-captured events (selector.ts,         *)
(* url.ts), for chains of any length: an element is only ever "masked"     *)
(* when one of the MAX_MASK_DEPTH elements from it upward is masked by a   *)
(* rule, and its form when one of those from the form upward is (further   *)
(* up the code does not look, and the theorem claims nothing); no          *)
(* descriptor has a value a rule finds or a text that is not an            *)
(* identifier; and what is said of an address does not depend on the       *)
(* values of its query nor, when it parses, on its hash.                   *)
THEOREM DescriptorsLeakNothingAlways == Spec => []DescriptorsLeakNothing
<1>1. Inputs => DescriptorsLeakNothing
  <2> SUFFICES ASSUME Inputs PROVE DescriptorsLeakNothing
    OBVIOUS
  <2> DEFINE chain == given.chain
             selectors == given.selectors
             target == describeTarget(chain, selectors)
             form == describeForm(chain, selectors)
  <2>1. ASSUME given.for = "target"
        PROVE  /\ MaskedFrom(chain, 1, selectors) => target = <<Masked>>
               /\ MaskedFrom(chain, formStart(chain), selectors) => form = <<Masked>>
               /\ \A text \in {target, form} : \A fragment \in ToSet(text) :
                    IsClean(fragment, "ecma") /\ fragment # Prose
               /\ \A event \in errorResource(chain, selectors, TRUE) :
                    MaskedFrom(chain, 1, selectors) => event.target = <<Masked>>
    <3>1. chain \in Seq(ToSet(chain)) /\ \A el \in ToSet(chain) : IsElement(el)
      BY <2>1, OperatorsAssumption DEF Inputs, IsTarget
    <3> HIDE DEF chain, selectors
    <3>2. MaskedFrom(chain, 1, selectors) => target = <<Masked>>
      <4> SUFFICES ASSUME MaskedFrom(chain, 1, selectors) PROVE target = <<Masked>>
        OBVIOUS
      <4>1. PICK i \in DOMAIN chain :
              /\ i \in 1..(1 + MAX_MASK_DEPTH - 1)
              /\ matchingMaskRuleId(chain[i], selectors) # NoRule
        BY DEF MaskedFrom
      <4>2. i <= MAX_MASK_DEPTH
        BY <4>1, OperatorsAssumption
      <4> QED BY <3>1, <4>1, <4>2, MaskedIsMasked
    <3>3. MaskedFrom(chain, formStart(chain), selectors) => form = <<Masked>>
      BY <3>1, FormIsMasked
    <3>4. ASSUME NEW text \in {target, form}, NEW fragment \in ToSet(text)
          PROVE  IsClean(fragment, "ecma") /\ fragment # Prose
      BY <3>1, <3>4, DescriptorIsClean, FormIsClean
    <3>5. ASSUME NEW event \in errorResource(chain, selectors, TRUE)
          PROVE  event.target = target
      <4>1. chain # <<>> /\ Head(chain).tag \in RESOURCE_TAGS
        BY <3>5 DEF errorResource
      <4>2. event = [target |-> target,
                     resourceType |-> Head(chain).tag,
                     resourceUrl |-> scrubUrl(resourceUrl(Head(chain)), TRUE)]
        BY <3>5, <4>1 DEF errorResource
      <4> QED BY <4>2
    <3> QED BY <3>2, <3>3, <3>4, <3>5
  <2>2. ASSUME given.for = "address", given.raw # NoAddress,
               NEW other \in Addresses \ {NoAddress},
               AlikeButSecrets(given.raw, other, given.hasBase)
        PROVE  scrubUrl(given.raw, given.hasBase) = scrubUrl(other, given.hasBase)
    BY <2>2, SecretsAreNotSaid DEF Inputs
  <2> QED BY <2>1, <2>2 DEF DescriptorsLeakNothing
<1> QED BY <1>1, InputsAlways, PTL

-----------------------------------------------------------------------------
(* The checksums.                                                          *)

(* The function that adds terms up exists.                                 *)
LEMMA SumExists ==
  ASSUME NEW N \in Nat, NEW terms
  PROVE  \E f : f = [n \in 0..N |-> IF n = 0 THEN 0 ELSE f[n - 1] + terms[n]]
<1> DEFINE Upto(k, f) == f = [n \in 0..k |-> IF n = 0 THEN 0 ELSE f[n - 1] + terms[n]]
           S == {k \in Nat : \E f : Upto(k, f)}
<1>1. 0 \in S
  <2>1. Upto(0, [n \in 0..0 |-> 0])
    OBVIOUS
  <2> HIDE DEF Upto
  <2> QED BY <2>1
<1>2. ASSUME NEW k \in Nat, k \in S PROVE k + 1 \in S
  <2>1. PICK f : Upto(k, f)
    <3> HIDE DEF Upto
    <3> QED BY <1>2
  <2> DEFINE g == [n \in 0..k + 1 |-> IF n = k + 1 THEN f[k] + terms[k + 1] ELSE f[n]]
  <2>2. ASSUME NEW n \in 0..k + 1
        PROVE  g[n] = IF n = 0 THEN 0 ELSE g[n - 1] + terms[n]
    <3>1. CASE n = k + 1
      <4>1. n # 0 /\ n - 1 = k /\ k \in 0..k + 1 /\ k # k + 1
        BY <3>1
      <4>2. g[k] = f[k]
        BY <4>1
      <4> QED BY <3>1, <4>1, <4>2
    <3>2. CASE n # k + 1
      <4>1. n \in 0..k /\ g[n] = f[n]
        BY <3>2
      <4>2. f[n] = IF n = 0 THEN 0 ELSE f[n - 1] + terms[n]
        BY <2>1, <4>1
      <4>3. n # 0 => g[n - 1] = f[n - 1]
        BY <4>1
      <4> HIDE DEF g
      <4> QED BY <4>1, <4>2, <4>3
    <3> QED BY <3>1, <3>2
  <2>3. g = [n \in 0..k + 1 |-> g[n]]
    OBVIOUS
  <2> HIDE DEF g
  <2>4. Upto(k + 1, g)
    BY <2>2, <2>3
  <2> HIDE DEF Upto
  <2> QED BY <2>4
<1> HIDE DEF S
<1>3. N \in S
  BY <1>1, <1>2, Induct
<1> QED BY <1>3 DEF S

(* The sums of the first terms of a list.                                  *)
IsSum(terms, sums) ==
  /\ sums[0] = 0
  /\ \A n \in 1..Len(terms) : sums[n] = sums[n - 1] + terms[n]

(* A sum is the last of the sums of the first terms, all of which are      *)
(* integers.                                                               *)
LEMMA SumFacts ==
  ASSUME NEW terms \in Seq(Int)
  PROVE  \E sums : /\ IsSum(terms, sums)
                   /\ SumOf(terms) = sums[Len(terms)]
                   /\ \A n \in 0..Len(terms) : sums[n] \in Int
<1> DEFINE Eq(f) == f = [n \in 0..Len(terms) |-> IF n = 0 THEN 0 ELSE f[n - 1] + terms[n]]
           sums == CHOOSE f : Eq(f)
<1>1. Len(terms) \in Nat /\ \A n \in 1..Len(terms) : terms[n] \in Int
  BY ElementOfSeq, LenProperties
<1>2. Eq(sums)
  <2>1. \E f : Eq(f)
    BY <1>1, SumExists
  <2> HIDE DEF Eq
  <2> QED BY <2>1
<1>3. SumOf(terms) = sums[Len(terms)]
  BY DEF SumOf
<1> HIDE DEF sums
<1>4. IsSum(terms, sums)
  BY <1>1, <1>2 DEF IsSum
<1> DEFINE S == {n \in Nat : n <= Len(terms) => sums[n] \in Int}
<1>5. 0 \in S
  BY <1>4 DEF IsSum
<1>6. ASSUME NEW n \in Nat, n \in S PROVE n + 1 \in S
  <2> SUFFICES ASSUME n + 1 <= Len(terms) PROVE sums[n + 1] \in Int
    OBVIOUS
  <2>1. n + 1 \in 1..Len(terms) /\ (n + 1) - 1 = n /\ sums[n] \in Int
    BY <1>1, <1>6
  <2> QED BY <1>1, <1>4, <2>1 DEF IsSum
<1> HIDE DEF S
<1>7. \A n \in Nat : n \in S
  BY <1>5, <1>6, Induct
<1>8. \A n \in 0..Len(terms) : sums[n] \in Int
  BY <1>1, <1>7 DEF S
<1> QED BY <1>3, <1>4, <1>8

(* Lists of the same terms have the same sum, read from either end.        *)
LEMMA SumFromRight ==
  ASSUME NEW terms \in Seq(Int), NEW others \in Seq(Int), Len(others) = Len(terms),
         \A i \in 1..Len(terms) : others[i] = terms[Len(terms) + 1 - i]
  PROVE  SumOf(others) = SumOf(terms)
<1>1. PICK left : /\ IsSum(terms, left)
                  /\ SumOf(terms) = left[Len(terms)]
                  /\ \A n \in 0..Len(terms) : left[n] \in Int
  BY SumFacts
<1>2. PICK right : /\ IsSum(others, right)
                   /\ SumOf(others) = right[Len(others)]
                   /\ \A n \in 0..Len(others) : right[n] \in Int
  BY SumFacts
<1>3. Len(terms) \in Nat /\ \A n \in 1..Len(terms) : terms[n] \in Int
  BY ElementOfSeq, LenProperties
<1> DEFINE L == Len(terms)
           S == {n \in Nat : n <= L => right[n] + left[L - n] = left[L]}
<1> HIDE DEF L
<1>4. 0 \in S
  <2>1. L \in Nat /\ L - 0 = L /\ right[0] = 0 /\ left[L] \in Int
    BY <1>1, <1>2, <1>3 DEF IsSum, L
  <2> QED BY <2>1
<1>5. ASSUME NEW n \in Nat, n \in S PROVE n + 1 \in S
  <2> SUFFICES ASSUME n + 1 <= L PROVE right[n + 1] + left[L - (n + 1)] = left[L]
    OBVIOUS
  <2>0. L \in Nat
    BY <1>3 DEF L
  <2>1. right[n] + left[L - n] = left[L]
    BY <1>5, <2>0
  <2>2. /\ n + 1 \in 1..L /\ (n + 1) - 1 = n /\ L - n \in 1..L /\ (L - n) - 1 = L - (n + 1)
        /\ L + 1 - (n + 1) = L - n /\ n \in 0..L /\ L - (n + 1) \in 0..L
    BY <2>0
  <2>3. right[n + 1] = right[n] + others[n + 1]
    BY <1>2, <2>2 DEF IsSum, L
  <2>4. left[L - n] = left[L - (n + 1)] + terms[L - n]
    BY <1>1, <2>2 DEF IsSum, L
  <2>5. others[n + 1] = terms[L - n]
    BY <2>2 DEF L
  <2>6. right[n] \in Int /\ left[L - (n + 1)] \in Int /\ terms[L - n] \in Int
    BY <1>1, <1>2, <1>3, <2>2 DEF L
  <2> DEFINE r == right[n]
             l == left[L - (n + 1)]
             t == terms[L - n]
             w == left[L]
  <2>7. right[n + 1] = r + t /\ r + (l + t) = w /\ r \in Int /\ l \in Int /\ t \in Int
    BY <2>1, <2>3, <2>4, <2>5, <2>6
  <2> HIDE DEF r, l, t, w
  <2>8. (r + t) + l = w
    BY <2>7
  <2> QED BY <2>7, <2>8 DEF l, w
<1> HIDE DEF S
<1>6. \A n \in Nat : n \in S
  BY <1>4, <1>5, Induct
<1>7. right[L] + left[0] = left[L]
  <2>1. L \in Nat /\ L - L = 0
    BY <1>3 DEF L
  <2> QED BY <1>6, <2>1 DEF S
<1>8. left[0] = 0 /\ right[L] \in Int
  BY <1>1, <1>2, <1>3 DEF IsSum, L
<1> QED BY <1>1, <1>2, <1>7, <1>8 DEF L

(* What the checksums add up are integers.                                 *)
LEMMA TermsAreIntegers ==
  ASSUME NEW digits \in Seq(0..9)
  PROVE  /\ luhnTerms(digits) \in Seq(Int) /\ Len(luhnTerms(digits)) = Len(digits)
         /\ luhnValidTerms(digits) \in Seq(Int) /\ Len(luhnValidTerms(digits)) = Len(digits)
<1>1. Len(digits) \in Nat /\ DOMAIN digits = 1..Len(digits)
  BY LenProperties
<1>2. \A i \in 1..Len(digits) : digits[i] \in 0..9
  BY ElementOfSeq
<1>3. \A d \in 0..9 : Doubled(d) \in Int /\ d \in Int
  BY DEF Doubled
<1>4. \A i \in 1..Len(digits) : Len(digits) + 1 - i \in 1..Len(digits)
  BY <1>1
<1>5. \A i \in 1..Len(digits) : luhnTerms(digits)[i] \in Int
  BY <1>1, <1>2, <1>3, <1>4 DEF luhnTerms
<1>6. \A i \in 1..Len(digits) : luhnValidTerms(digits)[i] \in Int
  BY <1>1, <1>2, <1>3 DEF luhnValidTerms
<1>7. /\ luhnTerms(digits) = [i \in 1..Len(digits) |-> luhnTerms(digits)[i]]
      /\ luhnValidTerms(digits) = [i \in 1..Len(digits) |-> luhnValidTerms(digits)[i]]
  BY <1>1 DEF luhnTerms, luhnValidTerms
<1>8. luhnTerms(digits) \in [1..Len(digits) -> Int] /\ luhnValidTerms(digits) \in [1..Len(digits) -> Int]
  BY <1>5, <1>6, <1>7
<1> QED BY <1>1, <1>8

(* The two loops read the same digit the same way.                         *)
LEMMA LuhnTermsAgree ==
  ASSUME NEW digits \in Seq(0..9), NEW i \in 1..Len(digits)
  PROVE  luhnTerms(digits)[i] = luhnValidTerms(digits)[Len(digits) + 1 - i]
<1> DEFINE L == Len(digits)
           j == L + 1 - i
<1>1. L \in Nat /\ DOMAIN digits = 1..L /\ i \in 1..L /\ j \in 1..L
  BY LenProperties
<1>2. luhnTerms(digits)[i] = IF i % 2 = 0 THEN Doubled(digits[j]) ELSE digits[j]
  BY <1>1 DEF luhnTerms
<1>3. luhnValidTerms(digits)[j] =
        IF (j - 1) % 2 = L % 2 THEN Doubled(digits[j]) ELSE digits[j]
  BY <1>1 DEF luhnValidTerms
<1> HIDE DEF L
<1>4. (j - 1) % 2 = L % 2 <=> i % 2 = 0
  <2>1. j - 1 = L - i
    BY <1>1
  <2>2. (L - i) % 2 = L % 2 <=> i % 2 = 0
    BY <1>1
  <2> QED BY <2>1, <2>2
<1> HIDE DEF j
<1>5. luhnTerms(digits)[i] = luhnValidTerms(digits)[j]
  BY <1>2, <1>3, <1>4
<1> QED BY <1>5 DEF j, L

(* The two checksums of a card number are one.                             *)
LEMMA LuhnAgrees ==
  ASSUME NEW digits \in Seq(0..9)
  PROVE  luhn(digits) = luhnValid(digits)
<1>1. /\ luhnTerms(digits) \in Seq(Int) /\ Len(luhnTerms(digits)) = Len(digits)
      /\ luhnValidTerms(digits) \in Seq(Int) /\ Len(luhnValidTerms(digits)) = Len(digits)
  BY TermsAreIntegers
<1>2. \A i \in 1..Len(luhnValidTerms(digits)) :
         luhnTerms(digits)[i] = luhnValidTerms(digits)[Len(luhnValidTerms(digits)) + 1 - i]
  BY <1>1, LuhnTermsAgree
<1>3. SumOf(luhnTerms(digits)) = SumOf(luhnValidTerms(digits))
  BY <1>1, <1>2, SumFromRight
<1> QED BY <1>3 DEF luhn, luhnValid

(* Of nine digits, the checksum of a SIN is that of a card number.         *)
LEMMA SinAgrees ==
  ASSUME NEW digits \in Seq(0..9), Len(digits) = 9
  PROVE  validSin(digits) = luhn(digits)
<1>1. DOMAIN digits = 1..9
  BY LenProperties
<1>2. \A i \in 1..9 : digits[i] \in 0..9
  BY ElementOfSeq
<1>3. \A d \in 0..9 : DigitsAdded(d * 2) = Doubled(d) /\ DigitsAdded(d * 1) = d
  <2> SUFFICES ASSUME NEW d \in 0..9 
               PROVE DigitsAdded(d * 2) = Doubled(d) /\ DigitsAdded(d * 1) = d
    OBVIOUS
  <2>1. d * 1 = d /\ ~(d > 9) /\ d * 2 = 2 * d
    OBVIOUS
  <2>2. 2 * d > 9 => (2 * d) \div 10 = 1 /\ (2 * d) % 10 = 2 * d - 10
    OBVIOUS
  <2>3. 2 * d > 9 => ((2 * d) \div 10) + ((2 * d) % 10) = 2 * d - 9
    BY <2>2
  <2> QED BY <2>1, <2>3 DEF DigitsAdded, Doubled
<1>4. ASSUME NEW i \in 1..9
      PROVE  sinTerms(digits)[i] = luhnValidTerms(digits)[i]
  <2>1. sinTerms(digits)[i] = DigitsAdded(digits[i] * sinWeight(i))
    BY <1>1 DEF sinTerms
  <2>2. luhnValidTerms(digits)[i] =
          IF (i - 1) % 2 = 9 % 2 THEN Doubled(digits[i]) ELSE digits[i]
    BY <1>1 DEF luhnValidTerms
  <2>3. (i - 1) % 2 = 9 % 2 <=> i % 2 = 0
    OBVIOUS
  <2> QED BY <1>2, <1>3, <2>1, <2>2, <2>3, SMTT(20) DEF sinWeight
<1>5. sinTerms(digits) = luhnValidTerms(digits)
  BY <1>1, <1>4 DEF sinTerms, luhnValidTerms
<1>6. luhn(digits) = luhnValid(digits)
  BY LuhnAgrees
<1>7. Len(digits) >= 2
  OBVIOUS
<1>8. validSin(digits) = luhnValid(digits)
  BY <1>5, <1>7 DEF validSin, luhnValid
<1> QED BY <1>6, <1>8

-----------------------------------------------------------------------------
(* Functions that are defined along the depth of a value exist.            *)

(* The function that goes along the depth of what is replaced exists.      *)
LEMMA OverflowExists ==
  ASSUME NEW N \in Nat
  PROVE  \E f : f = [n \in 0..N |-> OverflowOf(n, IF n = 0 THEN <<>> ELSE f[n - 1])]
<1> DEFINE Upto(k, f) == f = [n \in 0..k |-> OverflowOf(n, IF n = 0 THEN <<>> ELSE f[n - 1])]
           S == {k \in Nat : \E f : Upto(k, f)}
<1>1. 0 \in S
  <2> DEFINE first == OverflowOf(0, <<>>)
             f == [n \in 0..0 |-> first]
  <2>1. ASSUME NEW n \in 0..0 PROVE f[n] = OverflowOf(n, IF n = 0 THEN <<>> ELSE f[n - 1])
    BY <2>1
  <2>2. f = [n \in 0..0 |-> f[n]]
    OBVIOUS
  <2> HIDE DEF f
  <2>3. Upto(0, f)
    BY <2>1, <2>2
  <2> HIDE DEF Upto
  <2> QED BY <2>3
<1>2. ASSUME NEW k \in Nat, k \in S PROVE k + 1 \in S
  <2>1. PICK f : Upto(k, f)
    <3> HIDE DEF Upto
    <3> QED BY <1>2
  <2> DEFINE last == OverflowOf(k + 1, f[k])
             g == [n \in 0..k + 1 |-> IF n = k + 1 THEN last ELSE f[n]]
  <2>2. ASSUME NEW n \in 0..k + 1 PROVE g[n] = OverflowOf(n, IF n = 0 THEN <<>> ELSE g[n - 1])
    <3>1. CASE n = k + 1
      <4>1. n # 0 /\ n - 1 = k /\ k \in 0..k + 1 /\ k # k + 1
        BY <3>1
      <4>2. g[k] = f[k] /\ g[n] = last
        <5> HIDE DEF last
        <5> QED BY <3>1, <4>1
      <4> HIDE DEF g
      <4> QED BY <3>1, <4>1, <4>2
    <3>2. CASE n # k + 1
      <4>1. n \in 0..k /\ g[n] = f[n]
        BY <3>2
      <4>2. f[n] = OverflowOf(n, IF n = 0 THEN <<>> ELSE f[n - 1])
        BY <2>1, <4>1
      <4>3. n # 0 => g[n - 1] = f[n - 1]
        BY <4>1
      <4> HIDE DEF g
      <4> QED BY <4>1, <4>2, <4>3
    <3> QED BY <3>1, <3>2
  <2>3. g = [n \in 0..k + 1 |-> g[n]]
    OBVIOUS
  <2> HIDE DEF g
  <2>4. Upto(k + 1, g)
    BY <2>2, <2>3
  <2> HIDE DEF Upto
  <2> QED BY <2>4
<1> HIDE DEF S
<1>3. N \in S
  BY <1>1, <1>2, Induct
<1> QED BY <1>3 DEF S

(* The function that goes along the depth of a walk exists.                *)
LEMMA WalkExists ==
  ASSUME NEW N \in Nat
  PROVE  \E f : f = [n \in 0..N |-> WalkOf(n, IF n = 0 THEN <<>> ELSE f[n - 1])]
<1> DEFINE Upto(k, f) == f = [n \in 0..k |-> WalkOf(n, IF n = 0 THEN <<>> ELSE f[n - 1])]
           S == {k \in Nat : \E f : Upto(k, f)}
<1>1. 0 \in S
  <2> DEFINE first == WalkOf(0, <<>>)
             f == [n \in 0..0 |-> first]
  <2>1. ASSUME NEW n \in 0..0 PROVE f[n] = WalkOf(n, IF n = 0 THEN <<>> ELSE f[n - 1])
    BY <2>1
  <2>2. f = [n \in 0..0 |-> f[n]]
    OBVIOUS
  <2> HIDE DEF f
  <2>3. Upto(0, f)
    BY <2>1, <2>2
  <2> HIDE DEF Upto
  <2> QED BY <2>3
<1>2. ASSUME NEW k \in Nat, k \in S PROVE k + 1 \in S
  <2>1. PICK f : Upto(k, f)
    <3> HIDE DEF Upto
    <3> QED BY <1>2
  <2> DEFINE last == WalkOf(k + 1, f[k])
             g == [n \in 0..k + 1 |-> IF n = k + 1 THEN last ELSE f[n]]
  <2>2. ASSUME NEW n \in 0..k + 1 PROVE g[n] = WalkOf(n, IF n = 0 THEN <<>> ELSE g[n - 1])
    <3>1. CASE n = k + 1
      <4>1. n # 0 /\ n - 1 = k /\ k \in 0..k + 1 /\ k # k + 1
        BY <3>1
      <4>2. g[k] = f[k] /\ g[n] = last
        <5> HIDE DEF last
        <5> QED BY <3>1, <4>1
      <4> HIDE DEF g
      <4> QED BY <3>1, <4>1, <4>2
    <3>2. CASE n # k + 1
      <4>1. n \in 0..k /\ g[n] = f[n]
        BY <3>2
      <4>2. f[n] = WalkOf(n, IF n = 0 THEN <<>> ELSE f[n - 1])
        BY <2>1, <4>1
      <4>3. n # 0 => g[n - 1] = f[n - 1]
        BY <4>1
      <4> HIDE DEF g
      <4> QED BY <4>1, <4>2, <4>3
    <3> QED BY <3>1, <3>2
  <2>3. g = [n \in 0..k + 1 |-> g[n]]
    OBVIOUS
  <2> HIDE DEF g
  <2>4. Upto(k + 1, g)
    BY <2>2, <2>3
  <2> HIDE DEF Upto
  <2> QED BY <2>4
<1> HIDE DEF S
<1>3. N \in S
  BY <1>1, <1>2, Induct
<1> QED BY <1>3 DEF S

(* The function that goes along the depth of a walk in Python exists.      *)
LEMMA PyWalkExists ==
  ASSUME NEW N \in Nat, NEW selectors
  PROVE  \E f : f = [n \in 0..N |-> PyWalkOf(n, selectors, IF n = 0 THEN <<>> ELSE f[n - 1])]
<1> DEFINE Upto(k, f) == f = [n \in 0..k |-> PyWalkOf(n, selectors, IF n = 0 THEN <<>> ELSE f[n - 1])]
           S == {k \in Nat : \E f : Upto(k, f)}
<1>1. 0 \in S
  <2> DEFINE first == PyWalkOf(0, selectors, <<>>)
             f == [n \in 0..0 |-> first]
  <2>1. ASSUME NEW n \in 0..0 PROVE f[n] = PyWalkOf(n, selectors, IF n = 0 THEN <<>> ELSE f[n - 1])
    BY <2>1
  <2>2. f = [n \in 0..0 |-> f[n]]
    OBVIOUS
  <2> HIDE DEF f
  <2>3. Upto(0, f)
    BY <2>1, <2>2
  <2> HIDE DEF Upto
  <2> QED BY <2>3
<1>2. ASSUME NEW k \in Nat, k \in S PROVE k + 1 \in S
  <2>1. PICK f : Upto(k, f)
    <3> HIDE DEF Upto
    <3> QED BY <1>2
  <2> DEFINE last == PyWalkOf(k + 1, selectors, f[k])
             g == [n \in 0..k + 1 |-> IF n = k + 1 THEN last ELSE f[n]]
  <2>2. ASSUME NEW n \in 0..k + 1 PROVE g[n] = PyWalkOf(n, selectors, IF n = 0 THEN <<>> ELSE g[n - 1])
    <3>1. CASE n = k + 1
      <4>1. n # 0 /\ n - 1 = k /\ k \in 0..k + 1 /\ k # k + 1
        BY <3>1
      <4>2. g[k] = f[k] /\ g[n] = last
        <5> HIDE DEF last
        <5> QED BY <3>1, <4>1
      <4> HIDE DEF g
      <4> QED BY <3>1, <4>1, <4>2
    <3>2. CASE n # k + 1
      <4>1. n \in 0..k /\ g[n] = f[n]
        BY <3>2
      <4>2. f[n] = PyWalkOf(n, selectors, IF n = 0 THEN <<>> ELSE f[n - 1])
        BY <2>1, <4>1
      <4>3. n # 0 => g[n - 1] = f[n - 1]
        BY <4>1
      <4> HIDE DEF g
      <4> QED BY <4>1, <4>2, <4>3
    <3> QED BY <3>1, <3>2
  <2>3. g = [n \in 0..k + 1 |-> g[n]]
    OBVIOUS
  <2> HIDE DEF g
  <2>4. Upto(k + 1, g)
    BY <2>2, <2>3
  <2> HIDE DEF Upto
  <2> QED BY <2>4
<1> HIDE DEF S
<1>3. N \in S
  BY <1>1, <1>2, Induct
<1> QED BY <1>3 DEF S

(* The function that goes along the depth of a shape exists.               *)
LEMMA ShapesExist ==
  ASSUME NEW N \in Nat
  PROVE  \E f : f = [n \in 0..N |-> Alike(n, IF n = 0 THEN {} ELSE f[n - 1])]
<1> DEFINE Upto(k, f) == f = [n \in 0..k |-> Alike(n, IF n = 0 THEN {} ELSE f[n - 1])]
           S == {k \in Nat : \E f : Upto(k, f)}
<1>1. 0 \in S
  <2> DEFINE first == Alike(0, {})
             f == [n \in 0..0 |-> first]
  <2>1. ASSUME NEW n \in 0..0 PROVE f[n] = Alike(n, IF n = 0 THEN {} ELSE f[n - 1])
    BY <2>1
  <2>2. f = [n \in 0..0 |-> f[n]]
    OBVIOUS
  <2> HIDE DEF f
  <2>3. Upto(0, f)
    BY <2>1, <2>2
  <2> HIDE DEF Upto
  <2> QED BY <2>3
<1>2. ASSUME NEW k \in Nat, k \in S PROVE k + 1 \in S
  <2>1. PICK f : Upto(k, f)
    <3> HIDE DEF Upto
    <3> QED BY <1>2
  <2> DEFINE last == Alike(k + 1, f[k])
             g == [n \in 0..k + 1 |-> IF n = k + 1 THEN last ELSE f[n]]
  <2>2. ASSUME NEW n \in 0..k + 1 PROVE g[n] = Alike(n, IF n = 0 THEN {} ELSE g[n - 1])
    <3>1. CASE n = k + 1
      <4>1. n # 0 /\ n - 1 = k /\ k \in 0..k + 1 /\ k # k + 1
        BY <3>1
      <4>2. g[k] = f[k] /\ g[n] = last
        <5> HIDE DEF last
        <5> QED BY <3>1, <4>1
      <4> HIDE DEF g
      <4> QED BY <3>1, <4>1, <4>2
    <3>2. CASE n # k + 1
      <4>1. n \in 0..k /\ g[n] = f[n]
        BY <3>2
      <4>2. f[n] = Alike(n, IF n = 0 THEN {} ELSE f[n - 1])
        BY <2>1, <4>1
      <4>3. n # 0 => g[n - 1] = f[n - 1]
        BY <4>1
      <4> HIDE DEF g
      <4> QED BY <4>1, <4>2, <4>3
    <3> QED BY <3>1, <3>2
  <2>3. g = [n \in 0..k + 1 |-> g[n]]
    OBVIOUS
  <2> HIDE DEF g
  <2>4. Upto(k + 1, g)
    BY <2>2, <2>3
  <2> HIDE DEF Upto
  <2> QED BY <2>4
<1> HIDE DEF S
<1>3. N \in S
  BY <1>1, <1>2, Induct
<1> QED BY <1>3 DEF S

(* The function that goes along the depth of a value exists.               *)
LEMMA ValuesExist ==
  ASSUME NEW N \in Nat, NEW texts
  PROVE  \E f : f = [n \in 0..N |-> IF n = 0 THEN Leaves(texts) ELSE Leaves(texts) \cup Trees(f[n - 1])]
<1> DEFINE Upto(k, f) == f = [n \in 0..k |-> IF n = 0 THEN Leaves(texts) ELSE Leaves(texts) \cup Trees(f[n - 1])]
           S == {k \in Nat : \E f : Upto(k, f)}
<1>1. 0 \in S
  <2> DEFINE first == Leaves(texts)
             f == [n \in 0..0 |-> first]
  <2>1. ASSUME NEW n \in 0..0 PROVE f[n] = IF n = 0 THEN Leaves(texts) ELSE Leaves(texts) \cup Trees(f[n - 1])
    BY <2>1
  <2>2. f = [n \in 0..0 |-> f[n]]
    OBVIOUS
  <2> HIDE DEF f
  <2>3. Upto(0, f)
    BY <2>1, <2>2
  <2> HIDE DEF Upto
  <2> QED BY <2>3
<1>2. ASSUME NEW k \in Nat, k \in S PROVE k + 1 \in S
  <2>1. PICK f : Upto(k, f)
    <3> HIDE DEF Upto
    <3> QED BY <1>2
  <2> DEFINE last == Leaves(texts) \cup Trees(f[k])
             g == [n \in 0..k + 1 |-> IF n = k + 1 THEN last ELSE f[n]]
  <2>2. ASSUME NEW n \in 0..k + 1 PROVE g[n] = IF n = 0 THEN Leaves(texts) ELSE Leaves(texts) \cup Trees(g[n - 1])
    <3>1. CASE n = k + 1
      <4>1. n # 0 /\ n - 1 = k /\ k \in 0..k + 1 /\ k # k + 1
        BY <3>1
      <4>2. g[k] = f[k] /\ g[n] = last
        <5> HIDE DEF last
        <5> QED BY <3>1, <4>1
      <4> HIDE DEF g
      <4> QED BY <3>1, <4>1, <4>2
    <3>2. CASE n # k + 1
      <4>1. n \in 0..k /\ g[n] = f[n]
        BY <3>2
      <4>2. f[n] = IF n = 0 THEN Leaves(texts) ELSE Leaves(texts) \cup Trees(f[n - 1])
        BY <2>1, <4>1
      <4>3. n # 0 => g[n - 1] = f[n - 1]
        BY <4>1
      <4> HIDE DEF g
      <4> QED BY <4>1, <4>2, <4>3
    <3> QED BY <3>1, <3>2
  <2>3. g = [n \in 0..k + 1 |-> g[n]]
    OBVIOUS
  <2> HIDE DEF g
  <2>4. Upto(k + 1, g)
    BY <2>2, <2>3
  <2> HIDE DEF Upto
  <2> QED BY <2>4
<1> HIDE DEF S
<1>3. N \in S
  BY <1>1, <1>2, Induct
<1> QED BY <1>3 DEF S

-----------------------------------------------------------------------------
(* Lists, depths and values.                                               *)

(* A function from the first numbers is a list.                            *)
LEMMA ListOf ==
  ASSUME NEW S, NEW N \in Nat, NEW list \in [1..N -> S]
  PROVE  list \in Seq(S) /\ Len(list) = N
OBVIOUS

(* A list over a set is one over a larger set.                             *)
LEMMA ListsGrow ==
  ASSUME NEW S, NEW T, S \subseteq T, NEW list \in Seq(S)
  PROVE  list \in Seq(T)
OBVIOUS

(* What is above the leaves is one less deep.                              *)
LEMMA DepthFacts ==
  /\ MaxNesting \in Nat /\ MaxNesting \in Depths /\ 0 \in Depths
  /\ \A n \in Depths : n \in Nat /\ (n # 0 => n - 1 \in Depths)
BY NestingAssumption DEF Depths

(* The values nested up to n deep, step by step.                           *)
LEMMA ValuesFacts ==
  ASSUME NEW texts
  PROVE  /\ ValuesOver(texts)[0] = Leaves(texts)
         /\ \A n \in Depths : n # 0 =>
              ValuesOver(texts)[n] = Leaves(texts) \cup Trees(ValuesOver(texts)[n - 1])
<1> DEFINE Eq(f) == f = [n \in Depths |-> IF n = 0 THEN Leaves(texts)
                                          ELSE Leaves(texts) \cup Trees(f[n - 1])]
           upTo == CHOOSE f : Eq(f)
<1>1. Eq(upTo)
  <2>1. \E f : Eq(f)
    BY ValuesExist, DepthFacts DEF Depths
  <2> HIDE DEF Eq
  <2> QED BY <2>1
<1>2. ValuesOver(texts) = upTo
  BY DEF ValuesOver
<1> HIDE DEF upTo
<1> QED BY <1>1, <1>2, DepthFacts

(* What is replaced at a depth, by what is replaced below.                 *)
LEMMA OverflowFacts ==
  ASSUME NEW n \in Depths
  PROVE  replaceWithOverflow[n] = OverflowOf(n, IF n = 0 THEN <<>> ELSE replaceWithOverflow[n - 1])
<1> DEFINE Eq(f) == f = [k \in Depths |-> OverflowOf(k, IF k = 0 THEN <<>> ELSE f[k - 1])]
           chosen == CHOOSE f : Eq(f)
<1>1. Eq(chosen)
  <2>1. \E f : Eq(f)
    BY OverflowExists, DepthFacts DEF Depths
  <2> HIDE DEF Eq
  <2> QED BY <2>1
<1>2. replaceWithOverflow = chosen
  BY DEF replaceWithOverflow
<1> HIDE DEF chosen
<1> QED BY <1>1, <1>2

(* The walk at a depth, by the walk below.                                 *)
LEMMA WalkFacts ==
  ASSUME NEW n \in Depths
  PROVE  walk[n] = WalkOf(n, IF n = 0 THEN <<>> ELSE walk[n - 1])
<1> DEFINE Eq(f) == f = [k \in Depths |-> WalkOf(k, IF k = 0 THEN <<>> ELSE f[k - 1])]
           chosen == CHOOSE f : Eq(f)
<1>1. Eq(chosen)
  <2>1. \E f : Eq(f)
    BY WalkExists, DepthFacts DEF Depths
  <2> HIDE DEF Eq
  <2> QED BY <2>1
<1>2. walk = chosen
  BY DEF walk
<1> HIDE DEF chosen
<1> QED BY <1>1, <1>2

(* The same in Python.                                                     *)
LEMMA PyWalkFacts ==
  ASSUME NEW selectors, NEW n \in Depths
  PROVE  pyWalk(selectors)[n] =
           PyWalkOf(n, selectors, IF n = 0 THEN <<>> ELSE pyWalk(selectors)[n - 1])
<1> DEFINE Eq(f) == f = [k \in Depths |-> PyWalkOf(k, selectors, IF k = 0 THEN <<>> ELSE f[k - 1])]
           chosen == CHOOSE f : Eq(f)
<1>1. Eq(chosen)
  <2>1. \E f : Eq(f)
    BY PyWalkExists, DepthFacts DEF Depths
  <2> HIDE DEF Eq
  <2> QED BY <2>1
<1>2. pyWalk(selectors) = chosen
  BY DEF pyWalk
<1> HIDE DEF chosen
<1> QED BY <1>1, <1>2

(* And the shapes.                                                         *)
LEMMA ShapeFacts ==
  ASSUME NEW n \in Depths
  PROVE  SameShape[n] = Alike(n, IF n = 0 THEN {} ELSE SameShape[n - 1])
<1> DEFINE Eq(f) == f = [k \in Depths |-> Alike(k, IF k = 0 THEN {} ELSE f[k - 1])]
           chosen == CHOOSE f : Eq(f)
<1>1. Eq(chosen)
  <2>1. \E f : Eq(f)
    BY ShapesExist, DepthFacts DEF Depths
  <2> HIDE DEF Eq
  <2> QED BY <2>1
<1>2. SameShape = chosen
  BY DEF SameShape
<1> HIDE DEF chosen
<1> QED BY <1>1, <1>2

-----------------------------------------------------------------------------
(* Values.                                                                 *)

(* A leaf is a value of any depth.                                         *)
LEMMA LeavesIn ==
  ASSUME NEW texts, NEW n \in Depths
  PROVE  Leaves(texts) \subseteq ValuesOver(texts)[n]
BY ValuesFacts, DepthFacts

(* What a value may be.                                                    *)
LEMMA ValueCases ==
  ASSUME NEW texts, NEW n \in Depths, NEW v \in ValuesOver(texts)[n]
  PROVE  \/ v = Scalar /\ v.kind = "scalar" /\ ~IsTree(v)
         \/ v = TextValue(v.text) /\ v.text \in texts /\ v.kind = "text" /\ ~IsTree(v)
         \/ /\ n # 0 /\ n - 1 \in Depths
            /\ v = Tree(v.kind, v.items) /\ IsTree(v) /\ v.kind # "text"
            /\ v.items \in Seq(ItemsOf(ValuesOver(texts)[n - 1]))
<1>1. CASE v \in Leaves(texts)
  <2>1. CASE v = Scalar
    BY <2>1 DEF Scalar, IsTree
  <2>2. CASE v \in [kind : {"text"}, text : texts]
    BY <2>2 DEF TextValue, IsTree
  <2> QED BY <1>1, <2>1, <2>2 DEF Leaves
<1>2. CASE n # 0 /\ v \in Trees(ValuesOver(texts)[n - 1])
  <2>1. /\ v.kind \in {"list", "bag"} /\ v.items \in Seq(ItemsOf(ValuesOver(texts)[n - 1]))
        /\ v = [kind |-> v.kind, items |-> v.items]
    BY <1>2 DEF Trees
  <2> QED BY <1>2, <2>1, DepthFacts DEF IsTree, Tree
<1>3. v \in Leaves(texts) \/ (n # 0 /\ v \in Trees(ValuesOver(texts)[n - 1]))
  BY ValuesFacts
<1> QED BY <1>1, <1>2, <1>3

(* A list or bag of values is a value.                                     *)
LEMMA TreeIn ==
  ASSUME NEW texts, NEW n \in Depths, n # 0, NEW kind \in {"list", "bag"},
         NEW items \in Seq(ItemsOf(ValuesOver(texts)[n - 1]))
  PROVE  Tree(kind, items) \in ValuesOver(texts)[n]
<1>1. Tree(kind, items) \in Trees(ValuesOver(texts)[n - 1])
  BY DEF Tree, Trees
<1> QED BY <1>1, ValuesFacts

(* Values are over more texts when there are more texts.                   *)
LEMMA ValuesGrow ==
  ASSUME NEW texts, NEW others, texts \subseteq others, NEW n \in Depths
  PROVE  ValuesOver(texts)[n] \subseteq ValuesOver(others)[n]
<1> DEFINE S == {k \in Nat : k \in Depths => ValuesOver(texts)[k] \subseteq ValuesOver(others)[k]}
<1>1. Leaves(texts) \subseteq Leaves(others)
  BY DEF Leaves
<1>2. 0 \in S
  BY <1>1, ValuesFacts
<1>3. ASSUME NEW k \in Nat, k \in S PROVE k + 1 \in S
  <2> SUFFICES ASSUME k + 1 \in Depths
               PROVE  ValuesOver(texts)[k + 1] \subseteq ValuesOver(others)[k + 1]
    OBVIOUS
  <2>1. k \in Depths /\ (k + 1) - 1 = k /\ k + 1 # 0
    BY <1>3, DepthFacts
  <2>2. ValuesOver(texts)[k] \subseteq ValuesOver(others)[k]
    BY <1>3, <2>1
  <2>3. ItemsOf(ValuesOver(texts)[k]) \subseteq ItemsOf(ValuesOver(others)[k])
    BY <2>2 DEF ItemsOf
  <2>4. Trees(ValuesOver(texts)[k]) \subseteq Trees(ValuesOver(others)[k])
    BY <2>3 DEF Trees
  <2> QED BY <1>1, <2>1, <2>4, ValuesFacts
<1> HIDE DEF S
<1>4. n \in S
  BY <1>2, <1>3, Induct, DepthFacts
<1> QED BY <1>4 DEF S

-----------------------------------------------------------------------------
(* Values that look alike.                                                 *)

AllValues == ValuesOver(Seq(Fragment))

(* Two leaves are alike.                                                   *)
LEMMA LeafShape ==
  ASSUME NEW n \in Depths, NEW raw \in RawValues[n], ~IsTree(raw),
         NEW out \in AllValues[n], ~IsTree(out)
  PROVE  <<raw, out>> \in SameShape[n]
<1>1. <<raw, out>> \in Alike(n, IF n = 0 THEN {} ELSE SameShape[n - 1])
  BY DEF Alike, AllValues
<1> QED BY <1>1, ShapeFacts

(* Two lists or bags of the same kind are when their items are, one by one.*)
LEMMA TreeShape ==
  ASSUME NEW n \in Depths, n # 0, NEW kind \in {"list", "bag"},
         NEW items \in Seq(ItemsOf(RawValues[n - 1])), NEW outs \in Seq(ItemsOf(AllValues[n - 1])),
         Len(outs) = Len(items),
         \A i \in 1..Len(items) :
           /\ outs[i].key = items[i].key
           /\ \/ <<items[i].value, outs[i].value>> \in SameShape[n - 1]
              \/ IsMasked(outs[i].value)
  PROVE  <<Tree(kind, items), Tree(kind, outs)>> \in SameShape[n]
<1> DEFINE raw == Tree(kind, items)
           out == Tree(kind, outs)
<1>1. /\ raw.kind = kind /\ out.kind = kind /\ raw.items = items /\ out.items = outs
      /\ IsTree(raw)
  BY DEF Tree, IsTree
<1>2. raw \in RawValues[n] /\ out \in AllValues[n]
  BY TreeIn DEF RawValues, AllValues
<1>3. DOMAIN items = 1..Len(items)
  BY LenProperties
<1> HIDE DEF raw, out
<1>4. /\ out.kind = raw.kind
      /\ Len(out.items) = Len(raw.items)
      /\ \A i \in DOMAIN raw.items :
           /\ out.items[i].key = raw.items[i].key
           /\ \/ <<raw.items[i].value, out.items[i].value>> \in SameShape[n - 1]
              \/ IsMasked(out.items[i].value)
  BY <1>1, <1>3
<1>5. <<raw, out>> \in Alike(n, SameShape[n - 1])
  BY <1>1, <1>2, <1>4 DEF Alike, AllValues
<1>6. <<raw, out>> \in SameShape[n]
  BY <1>5, ShapeFacts
<1> QED BY <1>6 DEF raw, out

(* The overflow token is a text, and clean.                                *)
LEMMA OverflowIsClean ==
  /\ [shape |-> "overflow"] \in Fragment
  /\ \A dialect : IsClean([shape |-> "overflow"], dialect)
  /\ {REDACTED_OVERFLOW} \subseteq Seq(Fragment)
<1>1. [shape |-> "overflow"] \in Fragment
  BY DEF Fragment
<1>2. ASSUME NEW rule, NEW dialect PROVE ~Detects(rule, [shape |-> "overflow"], dialect)
  BY DEF Detects, IsRun, Foreign, Bordered
<1>3. <<[shape |-> "overflow"]>> \in Seq(Fragment)
  BY <1>1
<1> QED BY <1>1, <1>2, <1>3 DEF IsClean, REDACTED_OVERFLOW

(* What is replaced has the shape it had, and every text of it is the      *)
(* overflow token.                                                         *)
LEMMA ReplacedIs ==
  ASSUME NEW n \in Depths, NEW v \in RawValues[n]
  PROVE  /\ replaceWithOverflow[n][v] \in ValuesOver({REDACTED_OVERFLOW})[n]
         /\ <<v, replaceWithOverflow[n][v]>> \in SameShape[n]
<1> DEFINE Token == {REDACTED_OVERFLOW}
           Fine(k, w) == /\ replaceWithOverflow[k][w] \in ValuesOver(Token)[k]
                         /\ <<w, replaceWithOverflow[k][w]>> \in SameShape[k]
           S == {k \in Nat : k \in Depths => \A w \in RawValues[k] : Fine(k, w)}
<1>1. ASSUME NEW k \in Depths, NEW w \in RawValues[k], ~IsTree(w)
      PROVE  Fine(k, w)
  <2> DEFINE out == replaceWithOverflow[k][w]
  <2>1. out = IF w.kind = "text" THEN TextValue(REDACTED_OVERFLOW) ELSE w
    <3> DEFINE below == IF k = 0 THEN <<>> ELSE replaceWithOverflow[k - 1]
    <3>1. replaceWithOverflow[k] = OverflowOf(k, below)
      BY OverflowFacts
    <3> HIDE DEF below
    <3> QED BY <1>1, <3>1 DEF OverflowOf
  <2>2. TextValue(REDACTED_OVERFLOW) \in Leaves(Token) /\ Scalar \in Leaves(Token)
    BY DEF Leaves, TextValue
  <2>3. w.kind # "text" => w = Scalar
    BY <1>1, ValueCases DEF RawValues
  <2> HIDE DEF out
  <2>4. out \in Leaves(Token)
    BY <2>1, <2>2, <2>3
  <2>5. out \in ValuesOver(Token)[k] /\ out \in AllValues[k]
    BY <2>4, LeavesIn, ValuesGrow, OverflowIsClean DEF AllValues
  <2>6. ~IsTree(out)
    BY <1>1, <2>1, <2>3 DEF TextValue, IsTree, Scalar
  <2>7. <<w, out>> \in SameShape[k]
    BY <1>1, <2>5, <2>6, LeafShape
  <2> QED BY <2>5, <2>7 DEF out
<1>2. 0 \in S
  BY <1>1, ValueCases DEF RawValues
<1>3. ASSUME NEW k \in Nat, k \in S PROVE k + 1 \in S
  <2> SUFFICES ASSUME k + 1 \in Depths, NEW w \in RawValues[k + 1] PROVE Fine(k + 1, w)
    OBVIOUS
  <2>1. k \in Depths /\ (k + 1) - 1 = k /\ k + 1 # 0
    BY <1>3, DepthFacts
  <2>2. ASSUME NEW u \in RawValues[k] PROVE Fine(k, u)
    BY <1>3, <2>1
  <2>3. CASE ~IsTree(w)
    BY <1>1, <2>3
  <2>4. CASE IsTree(w)
    <3> DEFINE out == replaceWithOverflow[k + 1][w]
               below == replaceWithOverflow[k]
               outs == [i \in DOMAIN w.items |-> [w.items[i] EXCEPT !.value = below[@]]]
    <3>1. /\ w = Tree(w.kind, w.items) /\ w.kind # "text" /\ w.kind \in {"list", "bag"}
          /\ w.items \in Seq(ItemsOf(RawValues[k]))
      BY <2>1, <2>4, ValueCases DEF RawValues, IsTree
    <3>2. out = Tree(w.kind, outs)
      <4>1. replaceWithOverflow[k + 1] = OverflowOf(k + 1, below)
        BY <2>1, OverflowFacts
      <4> HIDE DEF below
      <4> QED BY <2>4, <3>1, <4>1 DEF OverflowOf
    <3>3. Len(w.items) \in Nat /\ DOMAIN w.items = 1..Len(w.items)
      BY <3>1, LenProperties
    <3>4. ASSUME NEW i \in 1..Len(w.items)
          PROVE  /\ w.items[i] \in ItemsOf(RawValues[k])
                 /\ outs[i] = [w.items[i] EXCEPT !.value = below[w.items[i].value]]
      <4>1. w.items[i] \in ItemsOf(RawValues[k])
        BY <3>1, ElementOfSeq
      <4> QED BY <3>3, <4>1 DEF ItemsOf
    <3>5. ASSUME NEW i \in 1..Len(w.items)
          PROVE  /\ outs[i] \in ItemsOf(ValuesOver(Token)[k])
                 /\ outs[i].key = w.items[i].key
                 /\ <<w.items[i].value, outs[i].value>> \in SameShape[k]
      <4> HIDE DEF outs, Fine
      <4>1. w.items[i].value \in RawValues[k] /\ w.items[i].key \in Keys
        BY <3>4 DEF ItemsOf
      <4>2. Fine(k, w.items[i].value)
        BY <2>2, <4>1
      <4>3. /\ outs[i].key = w.items[i].key /\ outs[i].value = below[w.items[i].value]
            /\ outs[i] = [key |-> outs[i].key, value |-> outs[i].value]
        <5> DEFINE item == w.items[i]
                   new == below[item.value]
        <5>1. item = [key |-> item.key, value |-> item.value] /\ outs[i] = [item EXCEPT !.value = new]
          BY <3>4 DEF ItemsOf
        <5> HIDE DEF item, new
        <5>2. outs[i] = [key |-> item.key, value |-> new]
          BY <5>1
        <5> QED BY <5>2 DEF item, new
      <4> QED BY <4>1, <4>2, <4>3 DEF ItemsOf, Fine
    <3>6. outs = [i \in 1..Len(w.items) |-> outs[i]] 
      BY <3>3
    <3> HIDE DEF outs, Fine, below
    <3>7. outs \in [1..Len(w.items) -> ItemsOf(ValuesOver(Token)[k])]
      BY <3>5, <3>6
    <3>8. outs \in Seq(ItemsOf(ValuesOver(Token)[k])) /\ Len(outs) = Len(w.items)
      BY <3>3, <3>7, ListOf
    <3>9. ItemsOf(ValuesOver(Token)[k]) \subseteq ItemsOf(AllValues[k])
      BY <2>1, ValuesGrow, OverflowIsClean DEF AllValues, ItemsOf
    <3>10. outs \in Seq(ItemsOf(AllValues[k]))
      BY <3>8, <3>9, ListsGrow
    <3>11. out \in ValuesOver(Token)[k + 1]
      BY <2>1, <3>1, <3>2, <3>8, TreeIn
    <3>12. \A i \in 1..Len(w.items) :
             /\ outs[i].key = w.items[i].key
             /\ \/ <<w.items[i].value, outs[i].value>> \in SameShape[k]
                \/ IsMasked(outs[i].value)
      BY <3>5
    <3>13. <<Tree(w.kind, w.items), Tree(w.kind, outs)>> \in SameShape[k + 1]
      BY <2>1, <3>1, <3>8, <3>10, <3>12, TreeShape
    <3>14. <<w, out>> \in SameShape[k + 1]
      BY <3>1, <3>2, <3>13
    <3> QED BY <3>11, <3>14 DEF Fine
  <2> QED BY <2>3, <2>4
<1> HIDE DEF S
<1>4. n \in S
  BY <1>2, <1>3, Induct, DepthFacts
<1> QED BY <1>4 DEF S

-----------------------------------------------------------------------------
(* Texts.                                                                  *)

(* The rules that are applied, and the one that says what was not.         *)
LEMMA RulesAre ==
  /\ \A j \in 1..5 : Rules[j] \in ToSet(Rules) /\ Rules[j] \in RuleNames
  /\ ToSet(Rules) \subseteq RuleNames /\ USER_CONFIGURED \in RuleNames
  /\ "overflow_fallback" \notin RuleNames
<1>1. /\ Rules[1] = "email" /\ Rules[2] = "ssn-us" /\ Rules[3] = "sin-ca"
      /\ Rules[4] = "creditcard" /\ Rules[5] = "phone-e164"
  BY DEF Rules
<1>2. \A j \in 1..5 : j = 1 \/ j = 2 \/ j = 3 \/ j = 4 \/ j = 5
  OBVIOUS
<1>3. ToSet(Rules) = {Rules[j] : j \in 1..5}
  BY RulesFacts DEF ToSet
<1>4. \A j \in 1..5 : Rules[j] # "overflow_fallback"
  BY <1>1, <1>2
<1> QED BY <1>3, <1>4 DEF USER_CONFIGURED, RuleNames

(* A raw fragment is neither a token nor the overflow token.               *)
LEMMA RawFacts ==
  ASSUME NEW fragment \in RawFragment
  PROVE  /\ fragment \in Fragment
         /\ fragment.shape # "redacted" /\ fragment.shape # "overflow"
BY DEF PortableFragment, RawFragment, Fragment, Plain, Email, Ssn

(* A fragment that is a run has digits.                                    *)
LEMMA RunFacts ==
  ASSUME NEW fragment \in Fragment, fragment.shape = "run"
  PROVE  fragment.digits \in Seq(0..9)
BY DEF PortableFragment, RawFragment, Fragment, Plain, Email, Ssn

(* A token of a rule is a fragment.                                        *)
LEMMA TokenFacts ==
  ASSUME NEW rule \in RuleNames
  PROVE  /\ redactionToken(rule) \in Fragment
         /\ redactionToken(rule).shape = "redacted" /\ redactionToken(rule).rule = rule
BY DEF Fragment, redactionToken

(* The fragments that both dialects read alike.                            *)
Alikes == {fragment \in Fragment : fragment.shape \notin {"foreign", "bordered"}}

(* What a host may have written of them, and the tokens.                   *)
LEMMA AlikesAre ==
  /\ PortableFragment \subseteq Alikes /\ PortableFragment \subseteq RawFragment
  /\ \A rule \in RuleNames : redactionToken(rule) \in Alikes
<1>1. ASSUME NEW fragment \in PortableFragment
      PROVE  fragment \in RawFragment /\ fragment.shape \notin {"foreign", "bordered"}
  BY DEF PortableFragment, RawFragment, Plain, Email, Ssn
<1>2. ASSUME NEW rule \in RuleNames PROVE redactionToken(rule) \in Alikes
  <2>1. redactionToken(rule) \in Fragment /\ redactionToken(rule).shape = "redacted"
    BY TokenFacts
  <2> QED BY <2>1 DEF Alikes
<1> QED BY <1>1, <1>2, RawFacts DEF Alikes

(* A rule detects the same of them in both SDKs.                           *)
LEMMA DetectsAgrees ==
  ASSUME NEW fragment \in Alikes, NEW rule
  PROVE  Detects(rule, fragment, "python") <=> Detects(rule, fragment, "ecma")
<1>1. fragment # Foreign(rule) /\ fragment # Bordered(rule)
  BY DEF Alikes, Foreign, Bordered
<1>2. CASE fragment.shape = "run"
  <2>1. luhn(fragment.digits) = luhnValid(fragment.digits)
    BY <1>2, RunFacts, LuhnAgrees DEF Alikes
  <2>2. cardIsValid(fragment.digits, "python") = cardIsValid(fragment.digits, "ecma")
    BY <2>1 DEF cardIsValid
  <2> QED BY <1>1, <2>2 DEF Detects
<1>3. CASE fragment.shape # "run"
  BY <1>1, <1>3 DEF Detects, IsRun
<1> QED BY <1>2, <1>3

(* A pass leaves a text over a set that has the tokens.                    *)
LEMMA PassIn ==
  ASSUME NEW S, \A rule \in RuleNames : redactionToken(rule) \in S,
         NEW text \in Seq(S), NEW j \in 1..5, NEW dialect
  PROVE  Pass(text, Rules[j], dialect) \in Seq(S)
<1> DEFINE rule == Rules[j]
           out == Pass(text, rule, dialect)
<1>1. redactionToken(rule) \in S
  BY RulesAre
<1> HIDE DEF rule
<1>2. Len(text) \in Nat /\ DOMAIN text = 1..Len(text)
  BY LenProperties
<1>3. \A i \in 1..Len(text) : text[i] \in S
  BY ElementOfSeq
<1>4. \A i \in 1..Len(text) : out[i] \in S
  BY <1>1, <1>2, <1>3 DEF Pass
<1>5. out = [i \in 1..Len(text) |-> out[i]]
  BY <1>2 DEF Pass
<1> HIDE DEF out
<1>6. out \in [1..Len(text) -> S]
  BY <1>4, <1>5
<1>7. out \in Seq(S)
  BY <1>2, <1>6, ListOf
<1> QED BY <1>7 DEF out, rule

(* So do all passes.                                                       *)
LEMMA RedactedIn ==
  ASSUME NEW S, \A rule \in RuleNames : redactionToken(rule) \in S,
         NEW text \in Seq(S), NEW dialect
  PROVE  Redacted(text, dialect) \in Seq(S)
<1>1. PICK after : Stages(text, dialect, after)
  BY PassByPass
<1>2. ASSUME NEW n \in 1..5, after[n - 1] \in Seq(S) PROVE after[n] \in Seq(S)
  BY <1>1, <1>2, PassIn DEF Stages
<1>3. /\ 1 \in 1..5 /\ 2 \in 1..5 /\ 3 \in 1..5 /\ 4 \in 1..5 /\ 5 \in 1..5
      /\ 1 - 1 = 0 /\ 2 - 1 = 1 /\ 3 - 1 = 2 /\ 4 - 1 = 3 /\ 5 - 1 = 4
  OBVIOUS
<1>4. after[1] \in Seq(S)
  BY <1>1, <1>2, <1>3 DEF Stages
<1>5. after[2] \in Seq(S)
  BY <1>2, <1>3, <1>4
<1>6. after[3] \in Seq(S)
  BY <1>2, <1>3, <1>5
<1>7. after[4] \in Seq(S)
  BY <1>2, <1>3, <1>6
<1>8. after[5] \in Seq(S)
  BY <1>2, <1>3, <1>7
<1> QED BY <1>1, <1>8 DEF Stages

(* A pass is the same in both SDKs.                                        *)
LEMMA PassAgrees ==
  ASSUME NEW text \in Seq(Alikes), NEW j \in 1..5
  PROVE  Pass(text, Rules[j], "python") = Pass(text, Rules[j], "ecma")
<1> DEFINE rule == Rules[j]
<1>1. DOMAIN text = 1..Len(text)
  BY LenProperties
<1>2. \A i \in 1..Len(text) : text[i] \in Alikes
  BY ElementOfSeq
<1> HIDE DEF rule
<1>3. \A i \in 1..Len(text) : Pass(text, rule, "python")[i] = Pass(text, rule, "ecma")[i]
  BY <1>1, <1>2, DetectsAgrees DEF Pass
<1>4. /\ Pass(text, rule, "python") = [i \in 1..Len(text) |-> Pass(text, rule, "python")[i]]
      /\ Pass(text, rule, "ecma") = [i \in 1..Len(text) |-> Pass(text, rule, "ecma")[i]]
  BY <1>1 DEF Pass
<1>5. Pass(text, rule, "python") = Pass(text, rule, "ecma")
  BY <1>3, <1>4
<1> QED BY <1>5 DEF rule

(* Both SDKs make the same of a text that both dialects read alike.        *)
LEMMA TextsAgree ==
  ASSUME NEW text \in Seq(PortableFragment)
  PROVE  redactDetections(text) = scrubString(text)
<1>1. PICK ts : Stages(text, "ecma", ts)
  BY PassByPass
<1>2. PICK py : Stages(text, "python", py)
  BY PassByPass
<1> DEFINE Same(n) == py[n] = ts[n] /\ ts[n] \in Seq(Alikes)
<1>3. Same(0)
  BY <1>1, <1>2, AlikesAre, ListsGrow DEF Stages
<1>4. ASSUME NEW n \in 1..5, Same(n - 1) PROVE Same(n)
  <2>1. ts[n - 1] \in Seq(Alikes) /\ py[n - 1] = ts[n - 1]
    BY <1>4
  <2>2. ts[n] = Pass(ts[n - 1], Rules[n], "ecma") /\ py[n] = Pass(py[n - 1], Rules[n], "python")
    BY <1>1, <1>2 DEF Stages
  <2>3. py[n] = ts[n]
    BY <2>1, <2>2, PassAgrees
  <2>4. ts[n] \in Seq(Alikes)
    BY <2>1, <2>2, AlikesAre, PassIn
  <2> QED BY <2>3, <2>4
<1>5. /\ 1 \in 1..5 /\ 2 \in 1..5 /\ 3 \in 1..5 /\ 4 \in 1..5 /\ 5 \in 1..5
      /\ 1 - 1 = 0 /\ 2 - 1 = 1 /\ 3 - 1 = 2 /\ 4 - 1 = 3 /\ 5 - 1 = 4
  OBVIOUS
<1> HIDE DEF Same
<1>6. Same(1)
  BY <1>3, <1>4, <1>5
<1>7. Same(2)
  BY <1>4, <1>5, <1>6
<1>8. Same(3)
  BY <1>4, <1>5, <1>7
<1>9. Same(4)
  BY <1>4, <1>5, <1>8
<1>10. Same(5)
  BY <1>4, <1>5, <1>9
<1>11. py[5] = ts[5]
  BY <1>10 DEF Same
<1> QED BY <1>1, <1>2, <1>11 DEF scrubString, redactDetections, Stages

(* A raw text that was scrubbed is settled as soon as the rules that were  *)
(* applied are in the report.                                              *)
LEMMA TextIsSettled ==
  ASSUME NEW dialect, NEW text \in Seq(RawFragment), NEW ctx,
         RulesIn(Redacted(text, dialect)) \subseteq ctx.applied
  PROVE  /\ Redacted(text, dialect) \in Seq(Settled(ctx, dialect))
         /\ RulesIn(Redacted(text, dialect)) \subseteq ToSet(Rules)
<1> DEFINE out == Redacted(text, dialect)
<1>1. out \in Seq(Fragment)
  <2>1. RawFragment \subseteq Fragment
    BY RawFacts
  <2>2. text \in Seq(Fragment)
    BY <2>1, ListsGrow
  <2> QED BY <2>2, TokenFacts, RedactedIn
<1>2. RedactedBy(text, out) /\ \A i \in DOMAIN text : IsClean(out[i], dialect)
  BY RedactedIsClean
<1> HIDE DEF out
<1>3. Len(out) \in Nat /\ DOMAIN out = 1..Len(out) /\ DOMAIN text = 1..Len(text)
  BY <1>1, LenProperties
<1>4. ASSUME NEW i \in DOMAIN out
      PROVE  /\ out[i] \in Settled(ctx, dialect)
             /\ out[i].shape = "redacted" => out[i].rule \in ToSet(Rules)
  <2>1. i \in DOMAIN text /\ IsClean(out[i], dialect) /\ out[i] \in Fragment
    BY <1>1, <1>2, <1>3, ElementOfSeq DEF RedactedBy
  <2>2. CASE out[i] = text[i]
    <3>1. text[i] \in RawFragment
      BY <1>3, <2>1, ElementOfSeq
    <3> QED BY <2>1, <2>2, <3>1, RawFacts DEF Settled
  <2>3. CASE \E j \in 1..5 : out[i] = redactionToken(Rules[j])
    <3>1. PICK j \in 1..5 : out[i] = redactionToken(Rules[j])
      BY <2>3
    <3>2. out[i].shape = "redacted" /\ out[i].rule = Rules[j] /\ Rules[j] \in ToSet(Rules)
      BY <3>1, RulesAre, TokenFacts
    <3>3. out[i].rule \in RulesIn(out)
      BY <3>2 DEF RulesIn
    <3>4. RulesIn(out) \subseteq ctx.applied
      BY DEF out
    <3> QED BY <2>1, <3>2, <3>3, <3>4 DEF Settled
  <2> QED BY <1>2, <2>1, <2>2, <2>3 DEF RedactedBy
<1>5. out = [i \in 1..Len(out) |-> out[i]]
  BY <1>1, <1>3
<1>6. out \in [1..Len(out) -> Settled(ctx, dialect)]
  BY <1>3, <1>4, <1>5
<1>7. out \in Seq(Settled(ctx, dialect))
  BY <1>3, <1>6, ListOf
<1>8. RulesIn(out) \subseteq ToSet(Rules)
  BY <1>4 DEF RulesIn
<1> QED BY <1>7, <1>8 DEF out

-----------------------------------------------------------------------------
(* The loop over the items of a list or a bag.                             *)

(* One turn of the loop over the items of a list or bag.                   *)
LoopStep(n, items, visit, i, so_far) ==
  LET item == items[i]
      out == IF so_far.ctx.exceeded THEN Filled(n, item.value, so_far.ctx)
             ELSE visit[item][so_far.ctx]
  IN  [items |-> Append(so_far.items, Item(item.key, out.value)), ctx |-> out.ctx]

(* A loop is what the last of its turns left.                              *)
LEMMA LoopFacts ==
  ASSUME NEW n, NEW items, Len(items) \in Nat, NEW ctx, NEW visit
  PROVE  \E after :
           /\ after[0] = [items |-> <<>>, ctx |-> ctx]
           /\ \A i \in 1..Len(items) : after[i] = LoopStep(n, items, visit, i, after[i - 1])
           /\ eachItem(n, items, ctx, visit) = after[Len(items)]
<1> DEFINE start == [items |-> <<>>, ctx |-> ctx]
           Eq(f) == f = [i \in 0..Len(items) |->
                          IF i = 0 THEN start ELSE LoopStep(n, items, visit, i, f[i - 1])]
           after == CHOOSE f : Eq(f)
<1>1. eachItem(n, items, ctx, visit) = after[Len(items)]
  BY DEF eachItem, LoopStep
<1> HIDE DEF start
<1>2. Eq(after)
  <2> DEFINE Upto(k, f) == f = [i \in 0..k |-> IF i = 0 THEN start ELSE LoopStep(n, items, visit, i, f[i - 1])]
             S == {k \in Nat : \E f : Upto(k, f)}
  <2>1. 0 \in S
    <3> DEFINE first == start
               f == [i \in 0..0 |-> first]
    <3>1. ASSUME NEW i \in 0..0 PROVE f[i] = IF i = 0 THEN start ELSE LoopStep(n, items, visit, i, f[i - 1])
      BY <3>1
    <3>2. f = [i \in 0..0 |-> f[i]]
      OBVIOUS
    <3> HIDE DEF f
    <3>3. Upto(0, f)
      BY <3>1, <3>2
    <3> HIDE DEF Upto
    <3> QED BY <3>3
  <2>2. ASSUME NEW k \in Nat, k \in S PROVE k + 1 \in S
    <3>1. PICK f : Upto(k, f)
      <4> HIDE DEF Upto
      <4> QED BY <2>2
    <3> DEFINE last == LoopStep(n, items, visit, k + 1, f[k])
               g == [i \in 0..k + 1 |-> IF i = k + 1 THEN last ELSE f[i]]
    <3>2. ASSUME NEW i \in 0..k + 1 PROVE g[i] = IF i = 0 THEN start ELSE LoopStep(n, items, visit, i, g[i - 1])
      <4>1. CASE i = k + 1
        <5>1. i # 0 /\ i - 1 = k /\ k \in 0..k + 1 /\ k # k + 1
          BY <4>1
        <5>2. g[k] = f[k] /\ g[i] = last
          <6> HIDE DEF last
          <6> QED BY <4>1, <5>1
        <5> HIDE DEF g
        <5> QED BY <4>1, <5>1, <5>2
      <4>2. CASE i # k + 1
        <5>1. i \in 0..k /\ g[i] = f[i]
          BY <4>2
        <5>2. f[i] = IF i = 0 THEN start ELSE LoopStep(n, items, visit, i, f[i - 1])
          BY <3>1, <5>1
        <5>3. i # 0 => g[i - 1] = f[i - 1]
          BY <5>1
        <5> HIDE DEF g
        <5> QED BY <5>1, <5>2, <5>3
      <4> QED BY <4>1, <4>2
    <3>3. g = [i \in 0..k + 1 |-> g[i]]
      OBVIOUS
    <3> HIDE DEF g
    <3>4. Upto(k + 1, g)
      BY <3>2, <3>3
    <3> HIDE DEF Upto
    <3> QED BY <3>4
  <2>3. \E f : Eq(f)
    <3> HIDE DEF S
    <3>1. Len(items) \in S
      BY <2>1, <2>2, Induct
    <3> QED BY <3>1 DEF S
  <2> HIDE DEF Eq
  <2> QED BY <2>3
<1> HIDE DEF after
<1>3. /\ after[0] = start
      /\ \A i \in 1..Len(items) : after[i] = LoopStep(n, items, visit, i, after[i - 1])
  BY <1>2
<1> QED BY <1>1, <1>3 DEF start

(* A walk only adds rules of those there are, and once tripped stays so.   *)
Grows(rules, before, after) ==
  /\ after \in Context
  /\ before.applied \subseteq after.applied
  /\ after.applied \subseteq before.applied \cup rules
  /\ before.exceeded => after.exceeded

(* What a visit made of a value.                                           *)
Scrubs(dialect, n, raw, out, ctx) ==
  /\ out \in ValuesOver(Seq(Settled(ctx, dialect)))[n]
  /\ <<raw, out>> \in SameShape[n] \/ IsMasked(out)

(* What is settled in a walk is settled at its end.                        *)
LEMMA SettledGrows ==
  ASSUME NEW dialect, NEW rules, NEW before, NEW after, Grows(rules, before, after), NEW n \in Depths
  PROVE  ValuesOver(Seq(Settled(before, dialect)))[n] \subseteq ValuesOver(Seq(Settled(after, dialect)))[n]
<1>1. Settled(before, dialect) \subseteq Settled(after, dialect)
  BY DEF Settled, Grows
<1>2. Seq(Settled(before, dialect)) \subseteq Seq(Settled(after, dialect))
  BY <1>1, ListsGrow
<1> QED BY <1>2, ValuesGrow

(* What is settled is made of fragments.                                   *)
LEMMA SettledIn ==
  ASSUME NEW dialect, NEW ctx, NEW n \in Depths
  PROVE  ValuesOver(Seq(Settled(ctx, dialect)))[n] \subseteq AllValues[n]
<1>1. Settled(ctx, dialect) \subseteq Fragment
  BY DEF Settled
<1>2. Seq(Settled(ctx, dialect)) \subseteq Seq(Fragment)
  BY <1>1, ListsGrow
<1> QED BY <1>2, ValuesGrow DEF AllValues

(* What is replaced after the budget tripped is settled.                   *)
LEMMA ReplacedIsSettled ==
  ASSUME NEW dialect, NEW n \in Depths, NEW v \in RawValues[n], NEW ctx, ctx.exceeded
  PROVE  Scrubs(dialect, n, v, replaceWithOverflow[n][v], ctx)
<1>1. [shape |-> "overflow"] \in Settled(ctx, dialect)
  BY OverflowIsClean DEF Settled
<1>2. {REDACTED_OVERFLOW} \subseteq Seq(Settled(ctx, dialect))
  BY <1>1 DEF REDACTED_OVERFLOW
<1>3. replaceWithOverflow[n][v] \in ValuesOver(Seq(Settled(ctx, dialect)))[n]
  BY <1>2, ReplacedIs, ValuesGrow
<1> QED BY <1>3, ReplacedIs DEF Scrubs

(* A loop whose visits scrub the items scrubs the list or bag.             *)
LEMMA LoopScrubs ==
  ASSUME NEW dialect, NEW n \in Depths, NEW items \in Seq(ItemsOf(RawValues[n])), NEW start \in Context,
         NEW rules \in SUBSET RuleNames, NEW visit,
         \A item \in ItemsOf(RawValues[n]), c \in Context : ~c.exceeded =>
           /\ Grows(rules, c, visit[item][c].ctx)
           /\ Scrubs(dialect, n, item.value, visit[item][c].value, visit[item][c].ctx)
  PROVE  LET loop == eachItem(n, items, start, visit)
         IN  /\ Grows(rules, start, loop.ctx)
             /\ loop.items \in Seq(ItemsOf(ValuesOver(Seq(Settled(loop.ctx, dialect)))[n]))
             /\ Len(loop.items) = Len(items)
             /\ \A i \in 1..Len(items) :
                  /\ loop.items[i].key = items[i].key
                  /\ \/ <<items[i].value, loop.items[i].value>> \in SameShape[n]
                     \/ IsMasked(loop.items[i].value)
<1>1. Len(items) \in Nat /\ \A i \in 1..Len(items) : items[i] \in ItemsOf(RawValues[n])
  BY LenProperties, ElementOfSeq
<1>2. PICK after :
        /\ after[0] = [items |-> <<>>, ctx |-> start]
        /\ \A i \in 1..Len(items) : after[i] = LoopStep(n, items, visit, i, after[i - 1])
        /\ eachItem(n, items, start, visit) = after[Len(items)]
  BY <1>1, LoopFacts
<1> DEFINE Items(ctx) == Seq(ItemsOf(ValuesOver(Seq(Settled(ctx, dialect)))[n]))
           Like(k, outs) ==
             \A i \in 1..k :
               /\ outs[i].key = items[i].key
               /\ \/ <<items[i].value, outs[i].value>> \in SameShape[n]
                  \/ IsMasked(outs[i].value)
           Done(k) ==
             /\ Grows(rules, start, after[k].ctx)
             /\ after[k].items \in Items(after[k].ctx)
             /\ Len(after[k].items) = k
             /\ Like(k, after[k].items)
           S == {k \in Nat : k <= Len(items) => Done(k)}
<1>3. 0 \in S
  <2>1. after[0].items = <<>> /\ after[0].ctx = start
    BY <1>2
  <2>2. Grows(rules, start, start)
    BY DEF Grows
  <2>3. <<>> \in Items(start) /\ Len(<<>>) = 0
    OBVIOUS
  <2>4. Like(0, after[0].items)
    OBVIOUS
  <2> HIDE DEF Items, Like
  <2> QED BY <2>1, <2>2, <2>3, <2>4
<1>4. ASSUME NEW k \in Nat, k \in S PROVE k + 1 \in S
  <2> SUFFICES ASSUME k + 1 <= Len(items) PROVE Done(k + 1)
    OBVIOUS
  <2> DEFINE so_far == after[k]
             item == items[k + 1]
             out == IF so_far.ctx.exceeded THEN Filled(n, item.value, so_far.ctx)
                    ELSE visit[item][so_far.ctx]
             new == Item(item.key, out.value)
  <2>1. Done(k)
    BY <1>1, <1>4
  <2>2. k + 1 \in 1..Len(items) /\ (k + 1) - 1 = k
    BY <1>1
  <2>3. item \in ItemsOf(RawValues[n]) /\ item.value \in RawValues[n] /\ item.key \in Keys
    BY <1>1, <2>2 DEF ItemsOf
  <2>4. after[k + 1] = [items |-> Append(so_far.items, new), ctx |-> out.ctx]
    BY <1>2, <2>2 DEF LoopStep
  <2>5. so_far.ctx \in Context
    BY <2>1 DEF Grows
  <2> HIDE DEF Items, Like
  <2>6. Grows(rules, so_far.ctx, out.ctx) /\ Scrubs(dialect, n, item.value, out.value, out.ctx)
    <3>1. CASE so_far.ctx.exceeded
      <4>1. out.ctx = so_far.ctx /\ out.value = replaceWithOverflow[n][item.value]
        BY <3>1 DEF Filled, Walked
      <4>2. Grows(rules, so_far.ctx, so_far.ctx)
        BY <2>5 DEF Grows
      <4> HIDE DEF out, so_far, item
      <4> QED BY <2>3, <3>1, <4>1, <4>2, ReplacedIsSettled
    <3>2. CASE ~so_far.ctx.exceeded
      <4>1. out = visit[item][so_far.ctx]
        BY <3>2
      <4> HIDE DEF out, so_far, item
      <4> QED BY <2>3, <2>5, <3>2, <4>1
    <3> QED BY <3>1, <3>2
  <2> HIDE DEF out, so_far, item
  <2>7. Grows(rules, start, out.ctx)
    BY <2>1, <2>6 DEF Grows, so_far
  <2>8. so_far.items \in Items(out.ctx) /\ Len(so_far.items) = k
    <3>1. ItemsOf(ValuesOver(Seq(Settled(so_far.ctx, dialect)))[n])
            \subseteq ItemsOf(ValuesOver(Seq(Settled(out.ctx, dialect)))[n])
      BY <2>6, SettledGrows DEF ItemsOf
    <3>2. so_far.items \in Items(so_far.ctx) /\ Len(so_far.items) = k
      BY <2>1 DEF so_far
    <3> QED BY <3>1, <3>2, ListsGrow DEF Items
  <2>9. new \in ItemsOf(ValuesOver(Seq(Settled(out.ctx, dialect)))[n])
    BY <2>3, <2>6 DEF Item, ItemsOf, Scrubs
  <2>10. new.key = item.key /\ new.value = out.value
    BY DEF Item
  <2> DEFINE all == Append(so_far.items, new)
  <2> HIDE DEF new
  <2>11. /\ all \in Items(out.ctx) /\ Len(all) = k + 1 /\ all[k + 1] = new
         /\ \A i \in 1..k : all[i] = so_far.items[i]
    <3>1. so_far.items \in Seq(ItemsOf(ValuesOver(Seq(Settled(out.ctx, dialect)))[n]))
      BY <2>8 DEF Items
    <3>2. /\ all \in Seq(ItemsOf(ValuesOver(Seq(Settled(out.ctx, dialect)))[n]))
          /\ Len(all) = Len(so_far.items) + 1
          /\ \A i \in 1..Len(so_far.items) : all[i] = so_far.items[i]
          /\ all[Len(so_far.items) + 1] = new
      BY <2>9, <3>1, AppendProperties
    <3> QED BY <2>8, <3>2 DEF Items
  <2> HIDE DEF all
  <2>12. Like(k + 1, all)
    <3> SUFFICES ASSUME NEW i \in 1..k + 1
                 PROVE  /\ all[i].key = items[i].key
                        /\ \/ <<items[i].value, all[i].value>> \in SameShape[n]
                           \/ IsMasked(all[i].value)
      BY DEF Like
    <3>1. CASE i = k + 1
      <4>1. all[i] = new /\ items[i] = item
        BY <2>11, <3>1 DEF item
      <4> QED BY <2>6, <2>10, <4>1 DEF Scrubs
    <3>2. CASE i # k + 1
      <4>1. i \in 1..k
        BY <3>2
      <4>2. all[i] = so_far.items[i]
        BY <2>11, <4>1
      <4>3. Like(k, so_far.items)
        BY <2>1 DEF so_far
      <4> QED BY <4>1, <4>2, <4>3 DEF Like
    <3> QED BY <3>1, <3>2
  <2>13. after[k + 1].items = all /\ after[k + 1].ctx = out.ctx
    BY <2>4 DEF all
  <2> QED BY <2>7, <2>11, <2>12, <2>13
<1> HIDE DEF S
<1>5. Len(items) \in S
  BY <1>1, <1>3, <1>4, Induct
<1>6. Done(Len(items))
  BY <1>1, <1>5 DEF S
<1> QED BY <1>2, <1>6

-----------------------------------------------------------------------------
(* The walk in TypeScript.                                                 *)

(* What a walk of a value comes to.                                        *)
WalkDone(dialect, rules, n, v, out, ctx) ==
  /\ Grows(rules, ctx, out.ctx)
  /\ out.value \in ValuesOver(Seq(Settled(out.ctx, dialect)))[n]
  /\ <<v, out.value>> \in SameShape[n]

(* A walk that trips.                                                      *)
LEMMA TrippedDone ==
  ASSUME NEW dialect, NEW rules \in SUBSET RuleNames, NEW n \in Depths, NEW v \in RawValues[n],
         NEW ctx \in Context
  PROVE  WalkDone(dialect, rules, n, v, Tripped(n, v, ctx), ctx)
<1> DEFINE out == Tripped(n, v, ctx)
           tripped == [ctx EXCEPT !.exceeded = TRUE]
<1>1. out.value = replaceWithOverflow[n][v] /\ out.ctx = tripped
  BY DEF Tripped, Walked
<1>2. tripped \in Context /\ tripped.exceeded /\ tripped.applied = ctx.applied
  BY DEF Context
<1> HIDE DEF out, tripped
<1>3. Grows(rules, ctx, tripped)
  BY <1>2 DEF Grows
<1>4. <<v, replaceWithOverflow[n][v]>> \in SameShape[n]
  BY ReplacedIs
<1>5. replaceWithOverflow[n][v] \in ValuesOver(Seq(Settled(tripped, dialect)))[n]
  BY <1>2, ReplacedIsSettled DEF Scrubs
<1>6. WalkDone(dialect, rules, n, v, out, ctx)
  BY <1>1, <1>3, <1>4, <1>5 DEF WalkDone
<1> QED BY <1>6 DEF out

(* A visit takes time and nothing else.                                    *)
LEMMA VisitedFacts ==
  ASSUME NEW ctx \in Context, ctx.inTime # 0
  PROVE  /\ Visited(ctx) \in Context /\ Visited(ctx).applied = ctx.applied
         /\ Visited(ctx).exceeded = ctx.exceeded
BY DEF Visited, Context

(* A rule that is applied is in the report.                                *)
LEMMA AppliedFacts ==
  ASSUME NEW ctx \in Context, NEW rules \in SUBSET RuleNames
  PROVE  /\ Applied(ctx, rules) \in Context
         /\ Applied(ctx, rules).applied = ctx.applied \cup rules
         /\ Applied(ctx, rules).exceeded = ctx.exceeded
BY DEF Applied, Context

(* A text is scrubbed.                                                     *)
LEMMA TextDone ==
  ASSUME NEW dialect, NEW n \in Depths, NEW v \in RawValues[n], v.kind = "text",
         NEW ctx \in Context, ctx.inTime # 0, NEW rules \in SUBSET RuleNames,
         ToSet(Rules) \subseteq rules
  PROVE  LET text == Redacted(v.text, dialect)
         IN  WalkDone(dialect, rules, n, v, Walked(TextValue(text), Applied(Visited(ctx), RulesIn(text))), ctx)
<1> DEFINE text == Redacted(v.text, dialect)
           after == Applied(Visited(ctx), RulesIn(text))
           out == Walked(TextValue(text), after)
<1>1. v.text \in Seq(RawFragment) /\ ~IsTree(v)
  BY ValueCases DEF RawValues, Scalar, IsTree
<1>2. RulesIn(text) \subseteq ToSet(Rules) /\ RulesIn(text) \in SUBSET RuleNames
  <2> DEFINE dummy == [applied |-> RulesIn(text)]
  <2>1. RulesIn(text) \subseteq dummy.applied
    OBVIOUS
  <2> HIDE DEF dummy
  <2>2. RulesIn(text) \subseteq ToSet(Rules)
    BY <1>1, <2>1, TextIsSettled
  <2> QED BY <2>2, RulesAre
<1>3. /\ after \in Context /\ after.applied = ctx.applied \cup RulesIn(text)
      /\ after.exceeded = ctx.exceeded
  BY <1>2, VisitedFacts, AppliedFacts
<1> HIDE DEF after
<1>4. text \in Seq(Settled(after, dialect))
  BY <1>1, <1>3, TextIsSettled
<1> HIDE DEF text
<1>5. TextValue(text) \in ValuesOver(Seq(Settled(after, dialect)))[n]
  <2>1. TextValue(text) \in Leaves(Seq(Settled(after, dialect)))
    BY <1>4 DEF TextValue, Leaves
  <2> QED BY <2>1, LeavesIn
<1>6. TextValue(text) \in AllValues[n]
  BY <1>5, SettledIn
<1>7. <<v, TextValue(text)>> \in SameShape[n]
  <2>1. ~IsTree(TextValue(text))
    BY DEF IsTree, TextValue
  <2> QED BY <1>1, <1>6, <2>1, LeafShape
<1>8. Grows(rules, ctx, after)
  BY <1>2, <1>3 DEF Grows
<1>9. out.value = TextValue(text) /\ out.ctx = after
  BY DEF Walked
<1> HIDE DEF out
<1>10. WalkDone(dialect, rules, n, v, out, ctx)
  BY <1>5, <1>7, <1>8, <1>9 DEF WalkDone
<1> QED BY <1>10 DEF out, after, text

(* What is neither a text, a list nor a bag is left as it is.              *)
LEMMA ScalarDone ==
  ASSUME NEW dialect, NEW n \in Depths, NEW v \in RawValues[n], v.kind # "text", ~IsTree(v),
         NEW ctx \in Context, ctx.inTime # 0, NEW rules \in SUBSET RuleNames
  PROVE  WalkDone(dialect, rules, n, v, Walked(v, Visited(ctx)), ctx)
<1> DEFINE after == Visited(ctx)
<1>1. /\ after \in Context /\ after.applied = ctx.applied /\ after.exceeded = ctx.exceeded
  BY VisitedFacts
<1> HIDE DEF after
<1>2. v = Scalar
  BY ValueCases DEF RawValues
<1>3. v \in ValuesOver(Seq(Settled(after, dialect)))[n]
  <2>1. v \in Leaves(Seq(Settled(after, dialect)))
    BY <1>2 DEF Leaves
  <2> QED BY <2>1, LeavesIn
<1>4. v \in AllValues[n]
  BY <1>3, SettledIn
<1>5. <<v, v>> \in SameShape[n]
  BY <1>4, LeafShape
<1>6. Grows(rules, ctx, after)
  BY <1>1 DEF Grows
<1>7. Walked(v, after).value = v /\ Walked(v, after).ctx = after
  BY DEF Walked
<1>8. WalkDone(dialect, rules, n, v, Walked(v, after), ctx)
  BY <1>3, <1>5, <1>6, <1>7 DEF WalkDone
<1> QED BY <1>8 DEF after

(* A list or bag is what its items became.                                 *)
LEMMA TreeDone ==
  ASSUME NEW dialect, NEW n \in Depths, NEW v \in RawValues[n], IsTree(v),
         NEW ctx \in Context, ctx.inTime # 0, NEW rules \in SUBSET RuleNames, NEW visit,
         \A item \in ItemsOf(RawValues[n - 1]), c \in Context : ~c.exceeded =>
           /\ Grows(rules, c, visit[item][c].ctx)
           /\ Scrubs(dialect, n - 1, item.value, visit[item][c].value, visit[item][c].ctx)
  PROVE  WalkDone(dialect, rules, n, v,
                  WalkedTree(v.kind, eachItem(n - 1, v.items, Visited(ctx), visit)), ctx)
<1> DEFINE start == Visited(ctx)
           loop == eachItem(n - 1, v.items, start, visit)
           out == WalkedTree(v.kind, loop)
<1>1. /\ n # 0 /\ n - 1 \in Depths /\ v = Tree(v.kind, v.items) /\ v.kind \in {"list", "bag"}
      /\ v.items \in Seq(ItemsOf(RawValues[n - 1]))
  BY ValueCases DEF RawValues, IsTree
<1>2. /\ start \in Context /\ start.applied = ctx.applied /\ start.exceeded = ctx.exceeded
  BY VisitedFacts
<1> HIDE DEF start
<1>3. /\ Grows(rules, start, loop.ctx)
      /\ loop.items \in Seq(ItemsOf(ValuesOver(Seq(Settled(loop.ctx, dialect)))[n - 1]))
      /\ Len(loop.items) = Len(v.items)
      /\ \A i \in 1..Len(v.items) :
           /\ loop.items[i].key = v.items[i].key
           /\ \/ <<v.items[i].value, loop.items[i].value>> \in SameShape[n - 1]
              \/ IsMasked(loop.items[i].value)
  BY <1>1, <1>2, LoopScrubs
<1> HIDE DEF loop
<1>4. Grows(rules, ctx, loop.ctx)
  BY <1>2, <1>3 DEF Grows
<1>5. Tree(v.kind, loop.items) \in ValuesOver(Seq(Settled(loop.ctx, dialect)))[n]
  BY <1>1, <1>3, TreeIn
<1>6. loop.items \in Seq(ItemsOf(AllValues[n - 1]))
  <2>1. ItemsOf(ValuesOver(Seq(Settled(loop.ctx, dialect)))[n - 1]) \subseteq ItemsOf(AllValues[n - 1])
    BY <1>1, SettledIn DEF ItemsOf
  <2> QED BY <1>3, <2>1, ListsGrow
<1>7. <<Tree(v.kind, v.items), Tree(v.kind, loop.items)>> \in SameShape[n]
  BY <1>1, <1>3, <1>6, TreeShape
<1>8. <<v, Tree(v.kind, loop.items)>> \in SameShape[n]
  BY <1>1, <1>7
<1>9. out.value = Tree(v.kind, loop.items) /\ out.ctx = loop.ctx
  BY DEF WalkedTree, Walked
<1> HIDE DEF out
<1>10. WalkDone(dialect, rules, n, v, out, ctx)
  BY <1>4, <1>5, <1>8, <1>9 DEF WalkDone
<1> QED BY <1>10 DEF out, loop, start

(* walk() in TypeScript, of a value of any depth.                          *)
LEMMA WalkScrubs ==
  ASSUME NEW n \in Depths, NEW v \in RawValues[n], NEW ctx \in Context
  PROVE  WalkDone("ecma", ToSet(Rules), n, v, walk[n][v][ctx], ctx)
<1> DEFINE rules == ToSet(Rules)
           Done(k) == \A w \in RawValues[k], c \in Context : WalkDone("ecma", rules, k, w, walk[k][w][c], c)
           S == {k \in Nat : k \in Depths => Done(k)}
<1>1. rules \in SUBSET RuleNames
  BY RulesAre
<1> HIDE DEF rules
<1>2. ASSUME NEW k \in Depths, k # 0 => Done(k - 1)
      PROVE  Done(k)
  <2> SUFFICES ASSUME NEW w \in RawValues[k], NEW c \in Context
               PROVE  WalkDone("ecma", rules, k, w, walk[k][w][c], c)
    OBVIOUS
  <2> DEFINE below == IF k = 0 THEN <<>> ELSE walk[k - 1]
             out == walk[k][w][c]
             text == scrubString(w.text)
             visit == [item \in ItemsOf(RawValues[k - 1]) |-> below[item.value]]
  <2>1. walk[k] = WalkOf(k, below)
    BY WalkFacts
  <2> HIDE DEF below
  <2>2. c.exceeded \/ c.inTime = 0 => out = Tripped(k, w, c)
    BY <2>1 DEF WalkOf
  <2>3. ~(c.exceeded \/ c.inTime = 0) /\ w.kind = "text" =>
          out = Walked(TextValue(text), Applied(Visited(c), RulesIn(text)))
    BY <2>1 DEF WalkOf, IsTree
  <2>4. ~(c.exceeded \/ c.inTime = 0) /\ IsTree(w) =>
          out = WalkedTree(w.kind, eachItem(k - 1, w.items, Visited(c), visit))
    BY <2>1 DEF WalkOf, IsTree
  <2>5. ~(c.exceeded \/ c.inTime = 0) /\ w.kind # "text" /\ ~IsTree(w) =>
          out = Walked(w, Visited(c))
    BY <2>1 DEF WalkOf, IsTree
  <2> HIDE DEF out
  <2>6. CASE c.exceeded \/ c.inTime = 0
    BY <1>1, <2>2, <2>6, TrippedDone DEF out
  <2>7. CASE ~(c.exceeded \/ c.inTime = 0) /\ w.kind = "text"
    BY <1>1, <2>3, <2>7, TextDone DEF out, rules, scrubString
  <2>8. CASE ~(c.exceeded \/ c.inTime = 0) /\ w.kind # "text" /\ ~IsTree(w)
    BY <1>1, <2>5, <2>8, ScalarDone DEF out
  <2>9. CASE ~(c.exceeded \/ c.inTime = 0) /\ IsTree(w)
    <3>1. k # 0 /\ k - 1 \in Depths
      BY <2>9, ValueCases DEF RawValues
    <3>2. below = walk[k - 1]
      BY <3>1 DEF below
    <3>3. ASSUME NEW item \in ItemsOf(RawValues[k - 1]), NEW d \in Context
          PROVE  /\ Grows(rules, d, visit[item][d].ctx)
                 /\ Scrubs("ecma", k - 1, item.value, visit[item][d].value, visit[item][d].ctx)
      <4>1. item.value \in RawValues[k - 1]
        BY DEF ItemsOf
      <4>2. visit[item][d] = walk[k - 1][item.value][d]
        BY <3>2
      <4>3. WalkDone("ecma", rules, k - 1, item.value, walk[k - 1][item.value][d], d)
        BY <1>2, <3>1, <4>1
      <4> HIDE DEF visit
      <4> QED BY <4>2, <4>3 DEF WalkDone, Scrubs
    <3> HIDE DEF visit
    <3>4. WalkDone("ecma", rules, k, w, WalkedTree(w.kind, eachItem(k - 1, w.items, Visited(c), visit)), c)
      BY <1>1, <2>9, <3>3, TreeDone
    <3> QED BY <2>4, <2>9, <3>4 DEF out
  <2> QED BY <2>6, <2>7, <2>8, <2>9
<1> HIDE DEF Done
<1>3. 0 \in S
  BY <1>2, DepthFacts
<1>4. ASSUME NEW k \in Nat, k \in S PROVE k + 1 \in S
  <2>1. (k + 1) - 1 = k /\ (k + 1 \in Depths => k \in Depths)
    BY DepthFacts
  <2> QED BY <1>2, <1>4, <2>1
<1> HIDE DEF S
<1>5. n \in S
  BY <1>3, <1>4, Induct, DepthFacts
<1>6. Done(n)
  BY <1>5 DEF S
<1> QED BY <1>6 DEF Done, rules

-----------------------------------------------------------------------------
(* The walk in Python.                                                     *)

(* A masked value is a token, or a list or bag of tokens.                  *)
LEMMA MaskedDone ==
  ASSUME NEW dialect, NEW n \in Depths, NEW v \in RawValues[n], NEW ctx, USER_CONFIGURED \in ctx.applied
  PROVE  Scrubs(dialect, n, v, maskValue(v), ctx)
<1> DEFINE mask == redactionToken(USER_CONFIGURED)
           token == TextValue(<<mask>>)
           texts == Seq(Settled(ctx, dialect))
           out == maskValue(v)
<1>1. mask \in Settled(ctx, dialect)
  <2>1. IsClean(mask, dialect)
    BY TokenIsClean DEF IsClean
  <2>2. mask \in Fragment /\ mask.shape = "redacted" /\ mask.rule = USER_CONFIGURED
    BY RulesAre, TokenFacts
  <2> HIDE DEF mask
  <2> QED BY <2>1, <2>2 DEF Settled
<1>2. token \in Leaves(texts) /\ ~IsTree(token)
  <2> HIDE DEF mask
  <2>1. <<mask>> \in Seq(Settled(ctx, dialect))
    BY <1>1
  <2> QED BY <2>1 DEF Leaves, TextValue, IsTree
<1>3. CASE ~IsTree(v)
  <2>1. out = token
    BY <1>3 DEF maskValue
  <2> HIDE DEF out, texts
  <2>2. out \in ValuesOver(texts)[n]
    BY <1>2, <2>1, LeavesIn
  <2>3. IsMasked(out)
    BY <2>1 DEF IsMasked
  <2> QED BY <2>2, <2>3 DEF Scrubs, texts, out
<1>4. CASE IsTree(v)
  <2> DEFINE items == [i \in DOMAIN v.items |-> [v.items[i] EXCEPT !.value = token]]
  <2>1. /\ n # 0 /\ n - 1 \in Depths /\ v.kind \in {"list", "bag"}
        /\ v.items \in Seq(ItemsOf(RawValues[n - 1]))
    BY <1>4, ValueCases DEF RawValues, IsTree
  <2>2. out = Tree(v.kind, items)
    BY <1>4 DEF maskValue
  <2>3. Len(v.items) \in Nat /\ DOMAIN v.items = 1..Len(v.items)
    BY <2>1, LenProperties
  <2> HIDE DEF token, texts
  <2>4. ASSUME NEW i \in 1..Len(v.items)
        PROVE  items[i] \in ItemsOf(ValuesOver(texts)[n - 1]) /\ items[i].value = token
    <3> DEFINE item == v.items[i]
    <3>1. item \in ItemsOf(RawValues[n - 1])
      BY <2>1, ElementOfSeq
    <3>2. items[i] = [item EXCEPT !.value = token]
      BY <2>3
    <3> HIDE DEF item
    <3>3. items[i] = [key |-> item.key, value |-> token] /\ item.key \in Keys
      BY <3>1, <3>2 DEF ItemsOf
    <3>4. token \in ValuesOver(texts)[n - 1]
      BY <1>2, <2>1, LeavesIn
    <3> HIDE DEF items
    <3> QED BY <3>3, <3>4 DEF ItemsOf
  <2>5. items = [i \in 1..Len(v.items) |-> items[i]]
    BY <2>3
  <2>6. DOMAIN items = DOMAIN v.items
    OBVIOUS
  <2> HIDE DEF items
  <2>7. items \in [1..Len(v.items) -> ItemsOf(ValuesOver(texts)[n - 1])]
    BY <2>4, <2>5
  <2>8. items \in Seq(ItemsOf(ValuesOver(texts)[n - 1]))
    BY <2>3, <2>7, ListOf
  <2>9. out \in ValuesOver(texts)[n]
    BY <2>1, <2>2, <2>8, TreeIn
  <2>10. IsMasked(out)
    <3>1. IsTree(out) /\ out.items = items
      BY <1>4, <2>2 DEF IsTree, Tree
    <3> HIDE DEF out
    <3>2. \A i \in DOMAIN out.items : out.items[i].value = token
      BY <2>3, <2>4, <2>6, <3>1
    <3> QED BY <3>1, <3>2 DEF IsMasked, token
  <2> QED BY <2>9, <2>10 DEF Scrubs, texts
<1> QED BY <1>3, <1>4

(* The outcomes of _walk(), by the kind of value.                          *)
LEMMA PyWalkCases ==
  ASSUME NEW n \in Depths, NEW v \in RawValues[n], NEW path \in Paths, NEW ctx \in Context,
         NEW selectors, NEW below, NEW out,
         below = IF n = 0 THEN <<>> ELSE pyWalk(selectors)[n - 1],
         out = pyWalk(selectors)[n][v][path][ctx]
  PROVE  LET text == redactDetections(v.text)
             visit == [item \in ItemsOf(RawValues[n - 1]) |-> [at \in Context |->
                         pyVisit(v.kind, path, selectors, item, below, at)]]
         IN  /\ ctx.inTime = 0 => out = Tripped(n, v, ctx)
             /\ ctx.inTime # 0 /\ v.kind = "text" =>
                  out = Walked(TextValue(text), Applied(Visited(ctx), RulesIn(text)))
             /\ ctx.inTime # 0 /\ IsTree(v) =>
                  out = WalkedTree(v.kind, eachItem(n - 1, v.items, Visited(ctx), visit))
             /\ ctx.inTime # 0 /\ v.kind # "text" /\ ~IsTree(v) => out = Walked(v, Visited(ctx))
<1> DEFINE text == redactDetections(v.text)
           visit == [item \in ItemsOf(RawValues[n - 1]) |-> [at \in Context |->
                         pyVisit(v.kind, path, selectors, item, below, at)]]
<1>1. pyWalk(selectors)[n] = PyWalkOf(n, selectors, below)
  BY PyWalkFacts
<1>2. out = PyWalkOf(n, selectors, below)[v][path][ctx]
  BY <1>1
<1>3. ctx.inTime = 0 => out = Tripped(n, v, ctx)
  BY <1>2 DEF PyWalkOf
<1>4. ctx.inTime # 0 /\ v.kind = "text" =>
        out = Walked(TextValue(text), Applied(Visited(ctx), RulesIn(text)))
  BY <1>2 DEF PyWalkOf, IsTree
<1>5. ctx.inTime # 0 /\ IsTree(v) =>
        out = WalkedTree(v.kind, eachItem(n - 1, v.items, Visited(ctx), visit))
  BY <1>2 DEF PyWalkOf, IsTree
<1>6. ctx.inTime # 0 /\ v.kind # "text" /\ ~IsTree(v) => out = Walked(v, Visited(ctx))
  BY <1>2 DEF PyWalkOf, IsTree
<1> HIDE DEF visit, text
<1>7. /\ ctx.inTime = 0 => out = Tripped(n, v, ctx)
      /\ ctx.inTime # 0 /\ v.kind = "text" =>
           out = Walked(TextValue(text), Applied(Visited(ctx), RulesIn(text)))
      /\ ctx.inTime # 0 /\ IsTree(v) =>
           out = WalkedTree(v.kind, eachItem(n - 1, v.items, Visited(ctx), visit))
      /\ ctx.inTime # 0 /\ v.kind # "text" /\ ~IsTree(v) => out = Walked(v, Visited(ctx))
  BY <1>3, <1>4, <1>5, <1>6
<1> QED BY <1>7 DEF visit, text

(* _walk() in Python, of a value of any depth at any path.                 *)
LEMMA PyWalkScrubs ==
  ASSUME NEW n \in Depths, NEW v \in RawValues[n], NEW path \in Paths, NEW ctx \in Context,
         NEW selectors, NEW rules \in SUBSET RuleNames, ToSet(Rules) \subseteq rules,
         selectors # {} => USER_CONFIGURED \in rules
  PROVE  WalkDone("python", rules, n, v, pyWalk(selectors)[n][v][path][ctx], ctx)
<1> DEFINE Done(k) == \A w \in RawValues[k], p \in Paths, c \in Context :
                        WalkDone("python", rules, k, w, pyWalk(selectors)[k][w][p][c], c)
           S == {k \in Nat : k \in Depths => Done(k)}
<1>1. ASSUME NEW k \in Depths, k # 0 => Done(k - 1)
      PROVE  Done(k)
  <2> SUFFICES ASSUME NEW w \in RawValues[k], NEW p \in Paths, NEW c \in Context
               PROVE  WalkDone("python", rules, k, w, pyWalk(selectors)[k][w][p][c], c)
    OBVIOUS
  <2> DEFINE below == IF k = 0 THEN <<>> ELSE pyWalk(selectors)[k - 1]
             out == pyWalk(selectors)[k][w][p][c]
             text == redactDetections(w.text)
             visit == [item \in ItemsOf(RawValues[k - 1]) |-> [at \in Context |->
                         pyVisit(w.kind, p, selectors, item, below, at)]]
  <2> HIDE DEF below, out
  <2>1. /\ below = IF k = 0 THEN <<>> ELSE pyWalk(selectors)[k - 1]
        /\ out = pyWalk(selectors)[k][w][p][c]
    BY DEF below, out
  <2>2. /\ c.inTime = 0 => out = Tripped(k, w, c)
        /\ c.inTime # 0 /\ w.kind = "text" =>
             out = Walked(TextValue(text), Applied(Visited(c), RulesIn(text)))
        /\ c.inTime # 0 /\ IsTree(w) =>
             out = WalkedTree(w.kind, eachItem(k - 1, w.items, Visited(c), visit))
        /\ c.inTime # 0 /\ w.kind # "text" /\ ~IsTree(w) => out = Walked(w, Visited(c))
    BY <2>1, PyWalkCases
  <2>6. CASE c.inTime = 0
    BY <2>2, <2>6, TrippedDone DEF out
  <2>7. CASE c.inTime # 0 /\ w.kind = "text"
    BY <2>2, <2>7, TextDone DEF out, redactDetections
  <2>8. CASE c.inTime # 0 /\ w.kind # "text" /\ ~IsTree(w)
    BY <2>2, <2>8, ScalarDone DEF out
  <2>9. CASE c.inTime # 0 /\ IsTree(w)
    <3>1. k # 0 /\ k - 1 \in Depths
      BY <2>9, ValueCases DEF RawValues
    <3>2. below = pyWalk(selectors)[k - 1]
      BY <3>1 DEF below
    <3>3. ASSUME NEW item \in ItemsOf(RawValues[k - 1]), NEW d \in Context
          PROVE  /\ Grows(rules, d, visit[item][d].ctx)
                 /\ Scrubs("python", k - 1, item.value, visit[item][d].value, visit[item][d].ctx)
      <4> DEFINE its == Append(p, item.key)
      <4>1. item.value \in RawValues[k - 1] /\ item.key \in Keys
        BY DEF ItemsOf
      <4>2. its \in Paths
        BY <4>1, AppendProperties DEF Paths
      <4>3. visit[item][d] = pyVisit(w.kind, p, selectors, item, below, d)
        OBVIOUS
      <4> HIDE DEF visit
      <4>4. CASE w.kind = "bag" /\ selectorMatches(selectors, its)
        <5> DEFINE after == Applied(d, {USER_CONFIGURED})
        <5>1. visit[item][d] = Walked(maskValue(item.value), after)
          BY <4>3, <4>4 DEF pyVisit
        <5>2. selectors # {}
          BY <4>4 DEF selectorMatches
        <5>3. {USER_CONFIGURED} \in SUBSET RuleNames /\ USER_CONFIGURED \in rules
          BY <5>2, RulesAre
        <5>4. /\ after \in Context /\ after.applied = d.applied \cup {USER_CONFIGURED}
              /\ after.exceeded = d.exceeded
          BY <5>3, AppliedFacts
        <5> HIDE DEF after
        <5>5. Grows(rules, d, after)
          BY <5>3, <5>4 DEF Grows
        <5>6. Scrubs("python", k - 1, item.value, maskValue(item.value), after)
          BY <3>1, <4>1, <5>4, MaskedDone
        <5>7. visit[item][d].ctx = after /\ visit[item][d].value = maskValue(item.value)
          BY <5>1 DEF Walked
        <5> QED BY <5>5, <5>6, <5>7
      <4>5. CASE ~(w.kind = "bag" /\ selectorMatches(selectors, its))
        <5>1. visit[item][d] = pyWalk(selectors)[k - 1][item.value][its][d]
          BY <3>2, <4>3, <4>5 DEF pyVisit
        <5> HIDE DEF its
        <5>2. WalkDone("python", rules, k - 1, item.value, pyWalk(selectors)[k - 1][item.value][its][d], d)
          BY <1>1, <3>1, <4>1, <4>2
        <5> QED BY <5>1, <5>2 DEF WalkDone, Scrubs
      <4> QED BY <4>4, <4>5
    <3> HIDE DEF visit
    <3>4. WalkDone("python", rules, k, w, WalkedTree(w.kind, eachItem(k - 1, w.items, Visited(c), visit)), c)
      BY <2>9, <3>3, TreeDone
    <3> QED BY <2>2, <2>9, <3>4 DEF out
  <2> QED BY <2>6, <2>7, <2>8, <2>9
<1> HIDE DEF Done
<1>2. 0 \in S
  BY <1>1, DepthFacts
<1>3. ASSUME NEW k \in Nat, k \in S PROVE k + 1 \in S
  <2>1. (k + 1) - 1 = k /\ (k + 1 \in Depths => k \in Depths)
    BY DepthFacts
  <2> QED BY <1>1, <1>3, <2>1
<1> HIDE DEF S
<1>4. n \in S
  BY <1>2, <1>3, Induct, DepthFacts
<1>5. Done(n)
  BY <1>4 DEF S
<1> QED BY <1>5 DEF Done

-----------------------------------------------------------------------------
(* The two walks, without selectors.                                       *)

(* Loops whose visits do the same do the same.                             *)
LEMMA LoopsAgree ==
  ASSUME NEW n \in Depths, NEW values, NEW items \in Seq(ItemsOf(values)), NEW start \in Context,
         NEW visit, NEW other,
         \A item \in ItemsOf(values), c \in Context : ~c.exceeded =>
           visit[item][c].ctx \in Context /\ other[item][c] = visit[item][c]
  PROVE  eachItem(n, items, start, other) = eachItem(n, items, start, visit)
<1>1. Len(items) \in Nat /\ \A i \in 1..Len(items) : items[i] \in ItemsOf(values)
  BY LenProperties, ElementOfSeq
<1>2. PICK one :
        /\ one[0] = [items |-> <<>>, ctx |-> start]
        /\ \A i \in 1..Len(items) : one[i] = LoopStep(n, items, visit, i, one[i - 1])
        /\ eachItem(n, items, start, visit) = one[Len(items)]
  BY <1>1, LoopFacts
<1>3. PICK two :
        /\ two[0] = [items |-> <<>>, ctx |-> start]
        /\ \A i \in 1..Len(items) : two[i] = LoopStep(n, items, other, i, two[i - 1])
        /\ eachItem(n, items, start, other) = two[Len(items)]
  BY <1>1, LoopFacts
<1> DEFINE S == {k \in Nat : k <= Len(items) => one[k].ctx \in Context /\ two[k] = one[k]}
<1>4. 0 \in S
  BY <1>2, <1>3
<1>5. ASSUME NEW k \in Nat, k \in S PROVE k + 1 \in S
  <2> SUFFICES ASSUME k + 1 <= Len(items)
               PROVE  one[k + 1].ctx \in Context /\ two[k + 1] = one[k + 1]
    OBVIOUS
  <2> DEFINE at == one[k]
             item == items[k + 1]
  <2>1. k + 1 \in 1..Len(items) /\ (k + 1) - 1 = k /\ at.ctx \in Context /\ two[k] = at
    BY <1>1, <1>5
  <2>2. item \in ItemsOf(values)
    BY <1>1, <2>1
  <2>3. /\ one[k + 1] = LoopStep(n, items, visit, k + 1, at)
        /\ two[k + 1] = LoopStep(n, items, other, k + 1, at)
    BY <1>2, <1>3, <2>1
  <2> HIDE DEF at
  <2>4. CASE at.ctx.exceeded
    <3>1. LoopStep(n, items, visit, k + 1, at) = LoopStep(n, items, other, k + 1, at)
      BY <2>4 DEF LoopStep
    <3>2. LoopStep(n, items, visit, k + 1, at).ctx = at.ctx
      BY <2>4 DEF LoopStep, Filled, Walked
    <3> QED BY <2>1, <2>3, <3>1, <3>2
  <2>5. CASE ~at.ctx.exceeded
    <3>1. other[item][at.ctx] = visit[item][at.ctx] /\ visit[item][at.ctx].ctx \in Context
      BY <2>1, <2>2, <2>5
    <3>2. LoopStep(n, items, visit, k + 1, at) = LoopStep(n, items, other, k + 1, at)
      BY <2>5, <3>1 DEF LoopStep
    <3>3. LoopStep(n, items, visit, k + 1, at).ctx = visit[item][at.ctx].ctx
      BY <2>5 DEF LoopStep
    <3> QED BY <2>3, <3>1, <3>2, <3>3
  <2> QED BY <2>4, <2>5
<1> HIDE DEF S
<1>6. Len(items) \in S
  BY <1>1, <1>4, <1>5, Induct
<1>7. two[Len(items)] = one[Len(items)]
  BY <1>1, <1>6 DEF S
<1> QED BY <1>2, <1>3, <1>7

(* What both dialects read alike is what a host may pass.                  *)
LEMMA PortableIn ==
  ASSUME NEW n \in Depths
  PROVE  PortableValues[n] \subseteq RawValues[n]
<1>1. Seq(PortableFragment) \subseteq Seq(RawFragment)
  BY AlikesAre, ListsGrow
<1> QED BY <1>1, ValuesGrow DEF PortableValues, RawValues

(* As long as the budget lasts, both SDKs make the same of such a value.   *)
LEMMA WalksAgree ==
  ASSUME NEW n \in Depths, NEW v \in PortableValues[n], NEW path \in Paths, NEW ctx \in Context,
         ~ctx.exceeded, NEW selectors, selectors = {}
  PROVE  pyWalk(selectors)[n][v][path][ctx] = walk[n][v][ctx]
<1> DEFINE Same(k) == \A w \in PortableValues[k], p \in Paths, c \in Context : ~c.exceeded =>
                        pyWalk(selectors)[k][w][p][c] = walk[k][w][c]
           S == {k \in Nat : k \in Depths => Same(k)}
<1>1. ASSUME NEW k \in Depths, k # 0 => Same(k - 1)
      PROVE  Same(k)
  <2> SUFFICES ASSUME NEW w \in PortableValues[k], NEW p \in Paths, NEW c \in Context, ~c.exceeded
               PROVE  pyWalk(selectors)[k][w][p][c] = walk[k][w][c]
    OBVIOUS
  <2> DEFINE below == IF k = 0 THEN <<>> ELSE walk[k - 1]
             pyBelow == IF k = 0 THEN <<>> ELSE pyWalk(selectors)[k - 1]
             ts == walk[k][w][c]
             py == pyWalk(selectors)[k][w][p][c]
             text == scrubString(w.text)
             pyText == redactDetections(w.text)
             visit == [item \in ItemsOf(RawValues[k - 1]) |-> below[item.value]]
             pyItem == [item \in ItemsOf(RawValues[k - 1]) |-> [at \in Context |->
                          pyVisit(w.kind, p, selectors, item, pyBelow, at)]]
  <2>0. w \in RawValues[k]
    BY PortableIn
  <2>1. /\ c.inTime = 0 => ts = Tripped(k, w, c)
        /\ c.inTime # 0 /\ w.kind = "text" =>
             ts = Walked(TextValue(text), Applied(Visited(c), RulesIn(text)))
        /\ c.inTime # 0 /\ IsTree(w) =>
             ts = WalkedTree(w.kind, eachItem(k - 1, w.items, Visited(c), visit))
        /\ c.inTime # 0 /\ w.kind # "text" /\ ~IsTree(w) => ts = Walked(w, Visited(c))
    <3>1. walk[k] = WalkOf(k, below)
      BY WalkFacts
    <3> HIDE DEF below
    <3>2. c.inTime = 0 => ts = Tripped(k, w, c)
      BY <2>0, <3>1 DEF WalkOf
    <3>3. c.inTime # 0 /\ w.kind = "text" =>
             ts = Walked(TextValue(text), Applied(Visited(c), RulesIn(text)))
      BY <2>0, <3>1 DEF WalkOf, IsTree
    <3>4. c.inTime # 0 /\ IsTree(w) =>
             ts = WalkedTree(w.kind, eachItem(k - 1, w.items, Visited(c), visit))
      BY <2>0, <3>1 DEF WalkOf, IsTree
    <3>5. c.inTime # 0 /\ w.kind # "text" /\ ~IsTree(w) => ts = Walked(w, Visited(c))
      BY <2>0, <3>1 DEF WalkOf, IsTree
    <3> HIDE DEF ts
    <3> QED BY <3>2, <3>3, <3>4, <3>5
  <2>2. /\ c.inTime = 0 => py = Tripped(k, w, c)
        /\ c.inTime # 0 /\ w.kind = "text" =>
             py = Walked(TextValue(pyText), Applied(Visited(c), RulesIn(pyText)))
        /\ c.inTime # 0 /\ IsTree(w) =>
             py = WalkedTree(w.kind, eachItem(k - 1, w.items, Visited(c), pyItem))
        /\ c.inTime # 0 /\ w.kind # "text" /\ ~IsTree(w) => py = Walked(w, Visited(c))
    <3> HIDE DEF pyBelow, py
    <3>1. pyBelow = IF k = 0 THEN <<>> ELSE pyWalk(selectors)[k - 1]
      BY DEF pyBelow
    <3>2. py = pyWalk(selectors)[k][w][p][c]
      BY DEF py
    <3> QED BY <2>0, <3>1, <3>2, PyWalkCases
  <2> HIDE DEF below, pyBelow, ts, py
  <2>3. CASE c.inTime = 0 \/ (w.kind # "text" /\ ~IsTree(w))
    BY <2>1, <2>2, <2>3 DEF ts, py
  <2>4. CASE c.inTime # 0 /\ w.kind = "text"
    <3>1. w.text \in Seq(PortableFragment)
      BY <2>4, ValueCases DEF PortableValues, Scalar
    <3>2. redactDetections(w.text) = scrubString(w.text)
      BY <3>1, TextsAgree
    <3> QED BY <2>1, <2>2, <2>4, <3>2 DEF ts, py
  <2>5. CASE c.inTime # 0 /\ IsTree(w)
    <3>1. /\ k # 0 /\ k - 1 \in Depths /\ w.kind # "text"
          /\ w.items \in Seq(ItemsOf(PortableValues[k - 1]))
      BY <2>5, ValueCases DEF PortableValues
    <3>2. below = walk[k - 1] /\ pyBelow = pyWalk(selectors)[k - 1]
      BY <3>1 DEF below, pyBelow
    <3>3. ts = WalkedTree(w.kind, eachItem(k - 1, w.items, Visited(c), visit))
      BY <2>1, <2>5
    <3>4. py = WalkedTree(w.kind, eachItem(k - 1, w.items, Visited(c), pyItem))
      BY <2>2, <2>5
    <3>5. ASSUME NEW item \in ItemsOf(PortableValues[k - 1]), NEW d \in Context, ~d.exceeded
          PROVE  visit[item][d].ctx \in Context /\ pyItem[item][d] = visit[item][d]
      <4> DEFINE its == Append(p, item.key)
      <4>1. /\ item.value \in PortableValues[k - 1] /\ item.key \in Keys
            /\ item.value \in RawValues[k - 1] /\ item \in ItemsOf(RawValues[k - 1])
        BY <3>1, PortableIn DEF ItemsOf
      <4>2. its \in Paths
        BY <4>1, AppendProperties DEF Paths
      <4>3. visit[item][d] = walk[k - 1][item.value][d]
        BY <3>2, <4>1
      <4>4. pyItem[item][d] = pyVisit(w.kind, p, selectors, item, pyBelow, d)
        BY <4>1
      <4>5. pyItem[item][d] = pyWalk(selectors)[k - 1][item.value][its][d]
        BY <3>2, <4>4 DEF pyVisit, selectorMatches
      <4> HIDE DEF its, visit, pyItem
      <4>6. pyWalk(selectors)[k - 1][item.value][its][d] = walk[k - 1][item.value][d]
        BY <1>1, <3>1, <3>5, <4>1, <4>2
      <4>7. WalkDone("ecma", ToSet(Rules), k - 1, item.value, walk[k - 1][item.value][d], d)
        BY <3>1, <4>1, WalkScrubs
      <4> QED BY <4>3, <4>5, <4>6, <4>7 DEF WalkDone, Grows
    <3> HIDE DEF visit, pyItem
    <3>6. Visited(c) \in Context
      BY <2>5, VisitedFacts
    <3>7. eachItem(k - 1, w.items, Visited(c), pyItem) = eachItem(k - 1, w.items, Visited(c), visit)
      BY <3>1, <3>5, <3>6, LoopsAgree
    <3> QED BY <3>3, <3>4, <3>7 DEF ts, py
  <2> QED BY <2>3, <2>4, <2>5
<1> HIDE DEF Same
<1>2. 0 \in S
  BY <1>1, DepthFacts
<1>3. ASSUME NEW k \in Nat, k \in S PROVE k + 1 \in S
  <2>1. (k + 1) - 1 = k /\ (k + 1 \in Depths => k \in Depths)
    BY DepthFacts
  <2> QED BY <1>1, <1>3, <2>1
<1> HIDE DEF S
<1>4. n \in S
  BY <1>2, <1>3, Induct, DepthFacts
<1>5. Same(n)
  BY <1>4 DEF S
<1> QED BY <1>5 DEF Same

-----------------------------------------------------------------------------
(* What a scrubber reports.                                                *)

(* The report of a walk that began with a budget and nothing applied.      *)
LEMMA ReportIsScrubbed ==
  ASSUME NEW dialect, NEW raw \in RawValues[MaxNesting], NEW inTime \in Nat, NEW walked,
         NEW rules \in SUBSET RuleNames,
         WalkDone(dialect, rules, MaxNesting, raw, walked, Began(inTime))
  PROVE  IsScrubbed(raw, Report(walked), dialect) /\ walked.ctx.applied \subseteq rules
<1> DEFINE ctx == walked.ctx
           report == Report(walked)
<1>1. /\ ctx \in Context /\ ctx.applied \subseteq rules
      /\ walked.value \in ValuesOver(Seq(Settled(ctx, dialect)))[MaxNesting]
      /\ <<raw, walked.value>> \in SameShape[MaxNesting]
  BY DEF WalkDone, Grows, Began
<1>2. /\ report.value = walked.value /\ report.exceeded = ctx.exceeded
      /\ report.applied = ctx.applied \cup IF ctx.exceeded THEN {"overflow_fallback"} ELSE {}
  BY DEF Report
<1> HIDE DEF report, ctx
<1>3. ctx.applied \subseteq RuleNames /\ ctx.exceeded \in BOOLEAN
  BY <1>1 DEF Context
<1>4. report.exceeded <=> "overflow_fallback" \in report.applied
  BY <1>2, <1>3, RulesAre
<1>5. Settled(ctx, dialect) \subseteq Settled(report, dialect)
  BY <1>2 DEF Settled
<1>6. Seq(Settled(ctx, dialect)) \subseteq Seq(Settled(report, dialect))
  BY <1>5, ListsGrow
<1>7. report.value \in ValuesOver(Seq(Settled(report, dialect)))[MaxNesting]
  BY <1>1, <1>2, <1>6, ValuesGrow, DepthFacts
<1>8. IsScrubbed(raw, report, dialect)
  BY <1>1, <1>2, <1>4, <1>7 DEF IsScrubbed
<1> QED BY <1>1, <1>8 DEF report, ctx

(* A walk begins.                                                          *)
LEMMA BeganFacts ==
  ASSUME NEW inTime \in Nat
  PROVE  Began(inTime) \in Context /\ ~Began(inTime).exceeded
BY DEF Began, Context

(* scrubAttributes(), of any bag and with any budget.                      *)
LEMMA ScrubAttributesScrubs ==
  ASSUME NEW raw \in RawValues[MaxNesting], NEW inTime \in Nat
  PROVE  /\ IsScrubbed(raw, scrubAttributes(raw, inTime), "ecma")
         /\ scrubAttributes(raw, inTime).applied \subseteq ToSet(Rules) \cup {"overflow_fallback"}
<1> DEFINE walked == walk[MaxNesting][raw][Began(inTime)]
           rules == ToSet(Rules)
<1>1. WalkDone("ecma", rules, MaxNesting, raw, walked, Began(inTime))
  BY BeganFacts, DepthFacts, WalkScrubs
<1>2. rules \in SUBSET RuleNames
  BY RulesAre
<1>3. scrubAttributes(raw, inTime) = Report(walked)
  BY DEF scrubAttributes
<1> HIDE DEF walked, rules
<1>4. IsScrubbed(raw, Report(walked), "ecma") /\ walked.ctx.applied \subseteq rules
  BY <1>1, <1>2, ReportIsScrubbed
<1>5. Report(walked).applied \subseteq rules \cup {"overflow_fallback"}
  BY <1>4 DEF Report
<1> QED BY <1>3, <1>4, <1>5 DEF rules

(* pyScrub(), with any selectors as well.                                  *)
LEMMA PyScrubScrubs ==
  ASSUME NEW raw \in RawValues[MaxNesting], NEW inTime \in Nat, NEW selectors,
         NEW rules \in SUBSET RuleNames, ToSet(Rules) \subseteq rules,
         selectors # {} => USER_CONFIGURED \in rules
  PROVE  /\ IsScrubbed(raw, pyScrub(raw, inTime, selectors), "python")
         /\ pyScrub(raw, inTime, selectors).applied \subseteq rules \cup {"overflow_fallback"}
<1> DEFINE walked == pyWalk(selectors)[MaxNesting][raw][<<>>][Began(inTime)]
<1>1. <<>> \in Paths
  BY DEF Paths
<1>2. WalkDone("python", rules, MaxNesting, raw, walked, Began(inTime))
  BY <1>1, BeganFacts, DepthFacts, PyWalkScrubs
<1>3. pyScrub(raw, inTime, selectors) = Report(walked)
  BY DEF pyScrub
<1> HIDE DEF walked
<1>4. IsScrubbed(raw, Report(walked), "python") /\ walked.ctx.applied \subseteq rules
  BY <1>2, ReportIsScrubbed
<1>5. Report(walked).applied \subseteq rules \cup {"overflow_fallback"}
  BY <1>4 DEF Report
<1> QED BY <1>3, <1>4, <1>5

(* Whatever the bag, however deep, with whatever budget and selectors: no  *)
(* text leaves an SDK that was not scrubbed, nothing is dropped, and the   *)
(* report tells what happened (scrubber.ts:183-227, scrubber.py:311-353).  *)
THEOREM NothingRawEscapesAlways == Spec => []NothingRawEscapes
<1>1. Inputs => NothingRawEscapes
  <2> SUFFICES ASSUME Inputs, given.for = "value"
               PROVE  /\ IsScrubbed(given.value, scrubAttributes(given.value, given.inTime), "ecma")
                      /\ IsScrubbed(given.value,
                                    pyScrub(given.value, given.inTime, given.selectors), "python")
    BY DEF NothingRawEscapes
  <2>1. given.value \in RawValues[MaxNesting] /\ given.inTime \in Nat
    BY PayloadsAssumption DEF Inputs
  <2>2. RuleNames \in SUBSET RuleNames
    OBVIOUS
  <2> QED BY <2>1, <2>2, RulesAre, ScrubAttributesScrubs, PyScrubScrubs
<1> QED BY <1>1, InputsAlways, PTL

(* Without selectors the two SDKs make the same of a bag that both         *)
(* dialects read alike.                                                    *)
LEMMA ScrubbersAgree ==
  ASSUME NEW raw \in PortableValues[MaxNesting], NEW inTime \in Nat
  PROVE  scrubAttributes(raw, inTime) = pyScrub(raw, inTime, {})
<1>1. <<>> \in Paths
  BY DEF Paths
<1> DEFINE none == {}
<1>2. none = {}
  OBVIOUS
<1> HIDE DEF none
<1>3. pyWalk(none)[MaxNesting][raw][<<>>][Began(inTime)] = walk[MaxNesting][raw][Began(inTime)]
  BY <1>1, <1>2, BeganFacts, DepthFacts, WalksAgree
<1>4. pyScrub(raw, inTime, none) = scrubAttributes(raw, inTime)
  BY <1>3 DEF pyScrub, scrubAttributes
<1> QED BY <1>2, <1>4

-----------------------------------------------------------------------------
(* The payloads.                                                           *)

(* A field of an object is one of its parts.                               *)
LEMMA PartsAre ==
  ASSUME NEW parts
  PROVE  /\ \A i \in DOMAIN parts : DOMAIN parts[i] \subseteq DOMAIN Object(parts)
         /\ \A key \in DOMAIN Object(parts) : \E i \in DOMAIN parts :
              key \in DOMAIN parts[i] /\ Object(parts)[key] = parts[i][key]
BY DEF Object

(* The scrubber keeps the keys of a bag.                                   *)
LEMMA KeysAreKept ==
  ASSUME NEW raw \in RawValues[MaxNesting], EventAttributes(raw), NEW report, NEW dialect,
         IsScrubbed(raw, report, dialect)
  PROVE  EventAttributes(report.value)
<1> DEFINE out == report.value
<1>1. raw.kind = "bag" /\ IsTree(raw) /\ \A i \in DOMAIN raw.items : raw.items[i].key \notin {"", "overlong"}
  BY DEF EventAttributes, IsTree
<1>2. <<raw, out>> \in SameShape[MaxNesting]
  BY DEF IsScrubbed
<1>3. raw.items \in Seq(ItemsOf(RawValues[MaxNesting - 1]))
  BY <1>1, ValueCases, DepthFacts DEF RawValues
<1>4. out \in AllValues[MaxNesting]
  BY <1>2, ShapeFacts, DepthFacts DEF Alike, AllValues
<1> HIDE DEF out
<1>5. /\ out.kind = "bag" /\ Len(out.items) = Len(raw.items)
      /\ \A i \in DOMAIN raw.items : out.items[i].key = raw.items[i].key
  <2> DEFINE below == IF MaxNesting = 0 THEN {} ELSE SameShape[MaxNesting - 1]
  <2>1. <<raw, out>> \in Alike(MaxNesting, below)
    BY <1>2, ShapeFacts, DepthFacts
  <2> HIDE DEF below
  <2> QED BY <1>1, <2>1 DEF Alike
<1>6. out.items \in Seq(ItemsOf(AllValues[MaxNesting - 1]))
  <2>1. IsTree(out)
    BY <1>5 DEF IsTree
  <2> QED BY <1>4, <2>1, ValueCases, DepthFacts DEF AllValues
<1>7. DOMAIN out.items = DOMAIN raw.items
  BY <1>3, <1>5, <1>6, LenProperties
<1>8. EventAttributes(out)
  BY <1>1, <1>5, <1>7 DEF EventAttributes
<1> QED BY <1>8 DEF out

(* The keys of a page are a list.                                          *)
LEMMA PageKeys ==
  ASSUME NEW S, S \subseteq {"pageUrl", "viewportWidth", "viewportHeight"}
  PROVE  Cardinality(S) \in Nat /\ SetToSeq(S) \in [1..Cardinality(S) -> S]
<1> DEFINE all == {"pageUrl", "viewportWidth", "viewportHeight"}
<1>1. IsFiniteSet({"pageUrl"})
  BY FS_Singleton
<1>2. IsFiniteSet({"pageUrl"} \cup {"viewportWidth"})
  BY <1>1, FS_AddElement
<1>3. IsFiniteSet({"pageUrl"} \cup {"viewportWidth"} \cup {"viewportHeight"})
  BY <1>2, FS_AddElement
<1>4. all = {"pageUrl"} \cup {"viewportWidth"} \cup {"viewportHeight"}
  OBVIOUS
<1>5. IsFiniteSet(all)
  BY <1>3, <1>4
<1>6. IsFiniteSet(S)
  BY <1>5, FS_Subset
<1>7. Cardinality(S) \in Nat /\ ExistsBijection(1..Cardinality(S), S)
  BY <1>6, FS_CardinalityType
<1>8. \E f \in [1..Cardinality(S) -> S] : IsInjective(f)
  BY <1>7 DEF ExistsBijection, Bijection, Injection
<1> QED BY <1>7, <1>8 DEF SetToSeq

(* What a page adds are items.                                             *)
LEMMA PageItemsAre ==
  ASSUME NEW page, IsPage(page), NEW names, NEW n \in Depths
  PROVE  PageItems(page, names) \in Seq(ItemsOf(RawValues[n]))
<1> DEFINE S == DOMAIN page \ names
           keys == SetToSeq(S)
           N == Cardinality(S)
           value(key) == IF key = "pageUrl" THEN TextValue(<<Plain>>) ELSE Scalar
           list == [i \in DOMAIN keys |-> Item(keys[i], value(keys[i]))]
<1>1. N \in Nat /\ keys \in [1..N -> S]
  BY PageKeys DEF IsPage
<1>2. S \subseteq Keys
  BY PayloadsAssumption DEF IsPage
<1>3. \A key : value(key) \in RawValues[n]
  <2>1. Plain \in RawFragment
    BY DEF RawFragment, PortableFragment
  <2>2. <<Plain>> \in Seq(RawFragment)
    BY <2>1
  <2>3. TextValue(<<Plain>>) \in Leaves(Seq(RawFragment)) /\ Scalar \in Leaves(Seq(RawFragment))
    BY <2>2 DEF TextValue, Leaves
  <2> QED BY <2>3, LeavesIn DEF RawValues
<1>4. list = PageItems(page, names)
  BY DEF PageItems
<1> HIDE DEF S, keys, value
<1>5. ASSUME NEW i \in 1..N PROVE Item(keys[i], value(keys[i])) \in ItemsOf(RawValues[n])
  BY <1>1, <1>2, <1>3 DEF Item, ItemsOf
<1>6. list = [i \in 1..N |-> Item(keys[i], value(keys[i]))]
  BY <1>1
<1>7. list \in [1..N -> ItemsOf(RawValues[n])]
  BY <1>5, <1>6
<1> HIDE DEF list
<1> QED BY <1>1, <1>4, <1>7, ListOf

(* Attributes with a page are attributes.                                  *)
LEMMA WithPageFits ==
  ASSUME NEW attributes \in RawValues[MaxNesting], EventAttributes(attributes),
         NEW page, IsPage(page)
  PROVE  WithPage(attributes, page) \in RawValues[MaxNesting] /\ EventAttributes(WithPage(attributes, page))
<1> DEFINE items == attributes.items
           at == {i \in DOMAIN items : items[i].key = "context"}
           old == CHOOSE i \in at : TRUE
           mine == IF at # {} /\ IsTree(items[old].value) THEN items[old].value.items ELSE <<>>
           names == {mine[i].key : i \in DOMAIN mine}
           context == Tree("bag", PageItems(page, names) \o mine)
           N == MaxNesting
           I == ItemsOf(RawValues[N - 1])
           out == IF at = {} THEN Append(items, Item("context", context))
                  ELSE [items EXCEPT ![old].value = context]
<1>1. /\ N \in Depths /\ N # 0 /\ N - 1 \in Depths /\ N - 1 # 0 /\ (N - 1) - 1 \in Depths
  BY PayloadsAssumption, NestingAssumption DEF Depths
<1>2. WithPage(attributes, page) = Tree("bag", out)
  BY DEF WithPage
<1>3. items \in Seq(I) /\ \A i \in DOMAIN items : items[i].key \notin {"", "overlong"}
  <2>1. IsTree(attributes)
    BY DEF EventAttributes, IsTree
  <2> QED BY <2>1, ValueCases, DepthFacts DEF RawValues, EventAttributes
<1> HIDE DEF items
<1>4. Len(items) \in Nat /\ DOMAIN items = 1..Len(items) /\ \A i \in 1..Len(items) : items[i] \in I
  BY <1>3, LenProperties, ElementOfSeq
<1>5. at # {} => old \in DOMAIN items
  OBVIOUS
<1> HIDE DEF at, old
<1>6. mine \in Seq(ItemsOf(RawValues[(N - 1) - 1]))
  <2>1. CASE at # {} /\ IsTree(items[old].value)
    <3>1. items[old].value \in RawValues[N - 1]
      BY <1>4, <1>5, <2>1 DEF ItemsOf
    <3>2. items[old].value.items \in Seq(ItemsOf(RawValues[(N - 1) - 1]))
      BY <1>1, <2>1, <3>1, ValueCases DEF RawValues
    <3> QED BY <2>1, <3>2
  <2>2. CASE ~(at # {} /\ IsTree(items[old].value))
    <3>1. mine = <<>>
      BY <2>2
    <3> HIDE DEF mine
    <3> QED BY <3>1
  <2> QED BY <2>1, <2>2
<1> HIDE DEF mine, names
<1>7. PageItems(page, names) \o mine \in Seq(ItemsOf(RawValues[(N - 1) - 1]))
  BY <1>1, <1>6, PageItemsAre
<1>8. context \in RawValues[N - 1]
  BY <1>1, <1>7, TreeIn DEF RawValues
<1> HIDE DEF context
<1>9. out \in Seq(I) /\ \A i \in DOMAIN out : out[i].key \notin {"", "overlong"}
  <2>1. CASE at = {}
    <3> DEFINE item == Item("context", context)
    <3>1. item \in I /\ item.key = "context"
      BY <1>8, PayloadsAssumption DEF Item, ItemsOf
    <3>2. out = Append(items, item)
      BY <2>1
    <3> HIDE DEF item, I, out
    <3>3. /\ out \in Seq(I) /\ Len(out) = Len(items) + 1
          /\ \A i \in 1..Len(items) : out[i] = items[i]
          /\ out[Len(items) + 1] = item
      <4>1. items \in Seq(I) /\ item \in I
        BY <1>3, <3>1 DEF I
      <4> QED BY <3>2, <4>1, AppendProperties
    <3>4. DOMAIN out = 1..Len(items) + 1
      BY <1>4, <3>3, LenProperties
    <3>5. \A i \in DOMAIN out : i \in 1..Len(items) \/ i = Len(items) + 1
      BY <1>4, <3>4
    <3> QED BY <1>3, <1>4, <3>1, <3>3, <3>5
  <2>2. CASE at # {}
    <3> DEFINE was == items[old]
    <3>1. out = [items EXCEPT ![old] = [was EXCEPT !.value = context]]
      BY <2>2
    <3>2. was \in I /\ old \in 1..Len(items) /\ was.key \notin {"", "overlong"}
      BY <1>3, <1>4, <1>5, <2>2
    <3> HIDE DEF was, out
    <3>3. [was EXCEPT !.value = context] = [key |-> was.key, value |-> context]
      <4>1. was = [key |-> was.key, value |-> was.value]
        BY <3>2 DEF ItemsOf
      <4> QED BY <4>1
    <3> DEFINE new == [key |-> was.key, value |-> context]
    <3>4. new \in I /\ new.key = was.key
      BY <1>8, <3>2 DEF ItemsOf
    <3>5. out = [items EXCEPT ![old] = new]
      BY <3>1, <3>3
    <3> HIDE DEF new, I
    <3>6. /\ out \in [1..Len(items) -> I]
          /\ \A i \in 1..Len(items) : out[i] = IF i = old THEN new ELSE items[i]
      BY <1>3, <1>4, <3>2, <3>4, <3>5
    <3>7. out \in Seq(I)
      BY <1>4, <3>6, ListOf
    <3> QED BY <1>3, <1>4, <3>2, <3>4, <3>6, <3>7
  <2> QED BY <2>1, <2>2
<1> HIDE DEF out
<1>10. Tree("bag", out) \in RawValues[N]
  BY <1>1, <1>9, TreeIn DEF RawValues
<1>11. EventAttributes(Tree("bag", out))
  BY <1>9 DEF EventAttributes, Tree
<1> QED BY <1>2, <1>10, <1>11

(* The context may be the one of the page as well.                         *)
LEMMA ContextGetsPage ==
  ASSUME NEW context, EventContext(context), NEW page, IsPage(page),
         "pageUrl" \in DOMAIN page => page["pageUrl"] <= ContextTexts["pageUrl"]
  PROVE  EventContext(Over(context, page))
<1> DEFINE both == Over(context, page)
           Texts == DOMAIN ContextTexts
           Known == Texts \cup {"viewportWidth", "viewportHeight", "featureFlags"}
           Right(key, value) ==
             CASE key = "diagnosticsLevel" -> value \in DiagnosticsLevels
               [] key \in Texts ->
                    value \in (IF key \in ContextCore THEN 1 ELSE 0)..ContextTexts[key]
               [] key \in {"viewportWidth", "viewportHeight"} -> value >= 0
               [] OTHER -> TRUE
<1>1. /\ "pageUrl" \in Texts /\ "viewportWidth" \notin Texts /\ "viewportHeight" \notin Texts
      /\ ContextTexts["pageUrl"] = 2048
  BY DEF ContextTexts
<1>2. /\ ContextCore \subseteq DOMAIN context /\ DOMAIN context \subseteq ContextCore \cup Known
      /\ \A key \in DOMAIN context : Right(key, context[key])
  BY DEF EventContext, Fits
<1>3. /\ DOMAIN page \subseteq {"pageUrl", "viewportWidth", "viewportHeight"}
      /\ \A key \in DOMAIN page : page[key] \in Nat
  BY DEF IsPage
<1> HIDE DEF Texts
<1>4. ASSUME NEW key \in DOMAIN page PROVE Right(key, page[key]) /\ key \in Known
  <2>1. CASE key = "pageUrl"
    <3>1. page["pageUrl"] \in 0..2048
      BY <1>1, <1>3, <2>1
    <3>2. "pageUrl" \notin ContextCore
      BY DEF ContextCore
    <3>3. page["pageUrl"] \in
            (IF "pageUrl" \in ContextCore THEN 1 ELSE 0)..ContextTexts["pageUrl"]
      <4> DEFINE low == IF "pageUrl" \in ContextCore THEN 1 ELSE 0
                 high == ContextTexts["pageUrl"]
      <4>1. low = 0
        BY ONLY <3>2
      <4>2. high = 2048
        BY ONLY <1>1
      <4> HIDE DEF low, high
      <4>3. page["pageUrl"] \in low..high
        BY ONLY <3>1, <4>1, <4>2
      <4> QED BY ONLY <4>3 DEF low, high
    <3>4. Right("pageUrl", page["pageUrl"])
      BY ONLY <1>1, <3>3 DEF Right
    <3> HIDE DEF Right
    <3> QED BY <1>1, <2>1, <3>4
  <2>2. CASE key \in {"viewportWidth", "viewportHeight"}
    <3>1. page[key] >= 0
      BY <1>3
    <3> QED BY <1>1, <2>2, <3>1
  <2> QED BY <1>3, <2>1, <2>2
<1>5. /\ DOMAIN both = DOMAIN context \cup DOMAIN page
      /\ \A key \in DOMAIN context : both[key] = context[key]
      /\ \A key \in DOMAIN page : key \notin DOMAIN context => both[key] = page[key]
  BY DEF Over
<1> HIDE DEF both, Known, Right
<1>6. \A key \in DOMAIN both : Right(key, both[key])
  BY <1>2, <1>4, <1>5
<1>7. ContextCore \subseteq DOMAIN both /\ DOMAIN both \subseteq ContextCore \cup Known
  BY <1>2, <1>4, <1>5
<1>8. EventContext(both)
  BY <1>6, <1>7 DEF EventContext, Fits, Right, Known, Texts
<1> QED BY <1>8 DEF both

(* An event with a page follows the schema as well, and nothing of it is   *)
(* lost.                                                                   *)
LEMMA EnrichedFollows ==
  ASSUME NEW event, NEW who, FollowsTheSchema(event, who),
         "attributes" \in DOMAIN event => event["attributes"] \in RawValues[MaxNesting],
         NEW page, IsPage(page), FitsTheContext(event, page)
  PROVE  LET enriched == enrichPageContext(event, page)
         IN  /\ FollowsTheSchema(enriched, who)
             /\ "attributes" \in DOMAIN enriched =>
                  enriched["attributes"] \in RawValues[MaxNesting]
             /\ DOMAIN event \subseteq DOMAIN enriched
             /\ "context" \in DOMAIN event =>
                  \A key \in DOMAIN event["context"] :
                    enriched["context"][key] = event["context"][key]
<1> DEFINE enriched == enrichPageContext(event, page)
           Fine == /\ FollowsTheSchema(enriched, who)
                   /\ "attributes" \in DOMAIN enriched =>
                        enriched["attributes"] \in RawValues[MaxNesting]
                   /\ DOMAIN event \subseteq DOMAIN enriched
                   /\ "context" \in DOMAIN event =>
                        \A key \in DOMAIN event["context"] :
                          enriched["context"][key] = event["context"][key]
           about == DOMAIN page # {} /\ IsPageEvent(event)
<1>1. CASE ~about
  <2>1. enriched = event
    BY <1>1 DEF enrichPageContext
  <2> HIDE DEF enriched
  <2> QED BY <2>1 DEF enriched
<1>2. CASE about /\ "context" \in DOMAIN event
  <2> DEFINE both == Over(event["context"], page)
  <2>1. enriched = With(event, "context", both)
    BY <1>2 DEF enrichPageContext
  <2>2. EventContext(both)
    BY <1>2, ContextGetsPage DEF FollowsTheSchema, FitsTheContext
  <2>3. \A key \in DOMAIN event["context"] : both[key] = event["context"][key]
    BY DEF Over
  <2> HIDE DEF enriched, both
  <2>4. /\ DOMAIN enriched = DOMAIN event /\ enriched["context"] = both
        /\ \A key \in DOMAIN event : key # "context" => enriched[key] = event[key]
    <3>1. /\ DOMAIN enriched = DOMAIN event \cup {"context"} /\ enriched["context"] = both
          /\ \A key \in DOMAIN event : key # "context" => enriched[key] = event[key]
      BY <2>1 DEF With, Over
    <3> QED BY <1>2, <3>1
  <2>5. FollowsTheSchema(enriched, who)
    BY <2>2, <2>4 DEF FollowsTheSchema
  <2>6. Fine
    BY <2>3, <2>4, <2>5
  <2> QED BY <2>6 DEF enriched
<1>3. CASE about /\ "context" \notin DOMAIN event
  <2> DEFINE bag == IF "attributes" \in DOMAIN event THEN event["attributes"] ELSE Tree("bag", <<>>)
             new == WithPage(bag, page)
  <2>1. enriched = With(event, "attributes", new)
    BY <1>3 DEF enrichPageContext
  <2>2. bag \in RawValues[MaxNesting] /\ EventAttributes(bag)
    <3>1. MaxNesting # 0
      BY PayloadsAssumption, NestingAssumption
    <3>2. Tree("bag", <<>>) \in RawValues[MaxNesting]
      <4>1. <<>> \in Seq(ItemsOf(RawValues[MaxNesting - 1]))
        OBVIOUS
      <4> QED BY <3>1, <4>1, DepthFacts, TreeIn DEF RawValues
    <3>3. EventAttributes(Tree("bag", <<>>))
      BY DEF EventAttributes, Tree
    <3> QED BY <3>2, <3>3 DEF FollowsTheSchema
  <2> HIDE DEF bag
  <2>3. new \in RawValues[MaxNesting] /\ EventAttributes(new)
    BY <2>2, WithPageFits
  <2> HIDE DEF enriched, new
  <2>4. /\ DOMAIN enriched = DOMAIN event \cup {"attributes"} /\ enriched["attributes"] = new
        /\ \A key \in DOMAIN event : key # "attributes" => enriched[key] = event[key]
    BY <2>1 DEF With, Over
  <2>5. FollowsTheSchema(enriched, who)
    BY <2>3, <2>4 DEF FollowsTheSchema
  <2>6. Fine
    BY <1>3, <2>3, <2>4, <2>5
  <2> QED BY <2>6 DEF enriched
<1> HIDE DEF about
<1> QED BY <1>1, <1>2, <1>3

(* What a scrubber of attributes has to do for an envelope.                *)
Sends(sent, report, event) ==
  /\ DOMAIN sent = {"attributes"} \cap DOMAIN event
  /\ "attributes" \in DOMAIN sent => EventAttributes(sent["attributes"])
  /\ ScrubberReport(report)

(* The attributes of an event, in TypeScript.                              *)
LEMMA TsSends ==
  ASSUME NEW event, "attributes" \in DOMAIN event =>
           event["attributes"] \in RawValues[MaxNesting] /\ EventAttributes(event["attributes"]),
         NEW inTime \in Nat
  PROVE  LET scrubbed == Scrubbed(event, LAMBDA bag : scrubAttributes(bag, inTime))
         IN  Sends(scrubbed.sent, scrubbed.report, event)
<1> DEFINE out == scrubAttributes(event["attributes"], inTime)
           scrubbed == Scrubbed(event, LAMBDA bag : scrubAttributes(bag, inTime))
<1>1. CASE "attributes" \notin DOMAIN event
  <2>1. scrubbed = [sent |-> <<>>, report |-> [applied |-> {}, exceeded |-> FALSE]]
    BY <1>1 DEF Scrubbed
  <2> HIDE DEF scrubbed
  <2>2. scrubbed.sent = <<>> /\ scrubbed.report.applied = {}
    BY <2>1
  <2>3. DOMAIN <<>> = {}
    OBVIOUS
  <2>4. Sends(scrubbed.sent, scrubbed.report, event)
    BY <1>1, <2>2, <2>3 DEF Sends, ScrubberReport
  <2> QED BY <2>4 DEF scrubbed
<1>2. CASE "attributes" \in DOMAIN event
  <2>1. scrubbed = [sent |-> [key \in {"attributes"} |-> out.value],
                    report |-> [applied |-> out.applied, exceeded |-> out.exceeded]]
    BY <1>2 DEF Scrubbed
  <2>2. /\ IsScrubbed(event["attributes"], out, "ecma")
        /\ out.applied \subseteq ToSet(Rules) \cup {"overflow_fallback"}
    BY <1>2, ScrubAttributesScrubs
  <2> HIDE DEF out, scrubbed
  <2>3. EventAttributes(out.value)
    BY <1>2, <2>2, KeysAreKept
  <2>4. Sends(scrubbed.sent, scrubbed.report, event)
    BY <1>2, <2>1, <2>2, <2>3 DEF Sends, ScrubberReport
  <2> QED BY <2>4 DEF scrubbed
<1> QED BY <1>1, <1>2

(* The attributes of an event, in Python.                                  *)
LEMMA PySends ==
  ASSUME NEW event, "attributes" \in DOMAIN event =>
           event["attributes"] \in RawValues[MaxNesting] /\ EventAttributes(event["attributes"]),
         NEW inTime \in Nat
  PROVE  LET scrubbed == Scrubbed(event, LAMBDA bag : pyScrub(bag, inTime, {}))
         IN  Sends(scrubbed.sent, scrubbed.report, event)
<1> DEFINE out == pyScrub(event["attributes"], inTime, {})
           scrubbed == Scrubbed(event, LAMBDA bag : pyScrub(bag, inTime, {}))
<1>1. CASE "attributes" \notin DOMAIN event
  <2>1. scrubbed = [sent |-> <<>>, report |-> [applied |-> {}, exceeded |-> FALSE]]
    BY <1>1 DEF Scrubbed
  <2> HIDE DEF scrubbed
  <2>2. scrubbed.sent = <<>> /\ scrubbed.report.applied = {}
    BY <2>1
  <2>3. DOMAIN <<>> = {}
    OBVIOUS
  <2>4. Sends(scrubbed.sent, scrubbed.report, event)
    BY <1>1, <2>2, <2>3 DEF Sends, ScrubberReport
  <2> QED BY <2>4 DEF scrubbed
<1>2. CASE "attributes" \in DOMAIN event
  <2>1. scrubbed = [sent |-> [key \in {"attributes"} |-> out.value],
                    report |-> [applied |-> out.applied, exceeded |-> out.exceeded]]
    BY <1>2 DEF Scrubbed
  <2> DEFINE none == {}
             rules == ToSet(Rules)
  <2>2. none = {} /\ rules \in SUBSET RuleNames
    BY RulesAre
  <2> HIDE DEF none, rules
  <2>3. /\ IsScrubbed(event["attributes"], out, "python")
        /\ out.applied \subseteq ToSet(Rules) \cup {"overflow_fallback"}
    <3>1. /\ IsScrubbed(event["attributes"], pyScrub(event["attributes"], inTime, none), "python")
          /\ pyScrub(event["attributes"], inTime, none).applied \subseteq rules \cup {"overflow_fallback"}
      BY <1>2, <2>2, PyScrubScrubs DEF rules
    <3> QED BY <2>2, <3>1 DEF rules
  <2> HIDE DEF out, scrubbed
  <2>4. EventAttributes(out.value)
    BY <1>2, <2>3, KeysAreKept
  <2>5. Sends(scrubbed.sent, scrubbed.report, event)
    BY <1>2, <2>1, <2>3, <2>4 DEF Sends, ScrubberReport
  <2> QED BY <2>5 DEF scrubbed
<1> QED BY <1>1, <1>2

(* The fields of an envelope are those of the schema, and right.           *)
EnvelopeFields ==
  {"eventId", "type", "capturedAt", "scrubber", "sessionId", "context", "severity", "durationMs",
   "httpStatus", "attributes", "clockSkewDetected", "actor"}

EnvelopeRight(key, value) ==
  CASE key \in {"eventId", "sessionId"} -> value = ULID
    [] key = "type" -> EventType(value)
    [] key = "capturedAt" -> value = DATE
    [] key = "scrubber" -> ScrubberReport(value)
    [] key = "context" -> EventContext(value)
    [] key = "severity" -> value \in {"info", "warn", "error"}
    [] key = "durationMs" -> value >= 0
    [] key = "httpStatus" -> value \in 100..599
    [] key = "attributes" -> EventAttributes(value)
    [] key = "actor" -> Actor(value)
    [] OTHER -> TRUE

FieldsFit(f) == \A key \in DOMAIN f : key \in EnvelopeFields /\ EnvelopeRight(key, f[key])

(* An object fits when its parts do, and with the fields that must be      *)
(* there, it is an envelope.                                               *)
LEMMA PartsAreEnvelope ==
  ASSUME NEW parts, \A i \in DOMAIN parts : FieldsFit(parts[i]),
         NEW first \in DOMAIN parts,
         DOMAIN parts[first] = {"eventId", "type", "capturedAt", "scrubber"}
  PROVE  EventEnvelope(Object(parts))
<1> DEFINE f == Object(parts)
           required == {"eventId", "type", "capturedAt", "scrubber"}
           optional == {"sessionId", "context", "severity", "durationMs", "httpStatus", "attributes",
                        "clockSkewDetected", "actor"}
<1>1. \A key \in DOMAIN f : key \in EnvelopeFields /\ EnvelopeRight(key, f[key])
  BY PartsAre DEF FieldsFit
<1>2. required \subseteq DOMAIN f
  BY PartsAre
<1>3. required \cup optional = EnvelopeFields
  BY DEF EnvelopeFields
<1> HIDE DEF required, optional, f
<1>4. DOMAIN f \subseteq required \cup optional
  BY <1>1, <1>3
<1>5. EventEnvelope(f)
  BY <1>1, <1>2, <1>4 DEF EventEnvelope, Fits, EnvelopeRight, required, optional
<1> QED BY <1>5 DEF f

(* The fields an event brings along fit.                                   *)
LEMMA CarriedFit ==
  ASSUME NEW event, NEW who, FollowsTheSchema(event, who),
         NEW keys, keys \subseteq {"sessionId", "context", "severity", "durationMs", "httpStatus"}
  PROVE  /\ FieldsFit(Carried(event, keys)) /\ DOMAIN Carried(event, keys) = keys \cap DOMAIN event
         /\ \A key \in keys \cap DOMAIN event : Carried(event, keys)[key] = event[key]
         /\ FieldsFit(NonZero(event, keys))
<1>1. ASSUME NEW key \in keys \cap DOMAIN event
      PROVE  key \in EnvelopeFields /\ EnvelopeRight(key, event[key])
  <2>1. CASE key = "sessionId"
    BY <2>1 DEF FollowsTheSchema, EnvelopeRight, EnvelopeFields
  <2>2. CASE key = "context"
    BY <2>2 DEF FollowsTheSchema, EnvelopeRight, EnvelopeFields
  <2>3. CASE key = "severity"
    BY <2>3 DEF FollowsTheSchema, EnvelopeRight, EnvelopeFields
  <2>4. CASE key = "durationMs"
    BY <2>4 DEF FollowsTheSchema, EnvelopeRight, EnvelopeFields
  <2>5. CASE key = "httpStatus"
    BY <2>5 DEF FollowsTheSchema, EnvelopeRight, EnvelopeFields
  <2> QED BY <2>1, <2>2, <2>3, <2>4, <2>5
<1>2. /\ DOMAIN Carried(event, keys) = keys \cap DOMAIN event
      /\ \A key \in keys \cap DOMAIN event : Carried(event, keys)[key] = event[key]
  BY DEF Carried
<1>3. /\ DOMAIN NonZero(event, keys) \subseteq keys \cap DOMAIN event
      /\ \A key \in DOMAIN NonZero(event, keys) : NonZero(event, keys)[key] = event[key]
  BY DEF NonZero
<1> QED BY <1>1, <1>2, <1>3 DEF FieldsFit

(* So do the first fields of an envelope, what the scrubber made of the    *)
(* attributes, and the actor.                                              *)
LEMMA OthersFit ==
  ASSUME NEW event, NEW who, FollowsTheSchema(event, who), NEW sent, NEW report,
         Sends(sent, report, event), NEW first,
         first = [eventId |-> ULID, type |-> event.type, capturedAt |-> DATE, scrubber |-> report]
  PROVE  FieldsFit(first) /\ FieldsFit(sent) /\ FieldsFit(ActorField(who))
<1> DEFINE actor == ActorField(who)
<1>1. DOMAIN first = {"eventId", "type", "capturedAt", "scrubber"}
  OBVIOUS
<1>2. FieldsFit(first)
  <2>1. /\ first["eventId"] = ULID /\ first["type"] = event["type"]
        /\ first["capturedAt"] = DATE /\ first["scrubber"] = report
    OBVIOUS
  <2>2. EventType(event["type"]) /\ ScrubberReport(report)
    BY DEF FollowsTheSchema, Sends
  <2>3. ASSUME NEW key \in DOMAIN first
        PROVE  key \in EnvelopeFields /\ EnvelopeRight(key, first[key])
    BY <1>1, <2>1, <2>2 DEF EnvelopeRight, EnvelopeFields
  <2> QED BY <2>3 DEF FieldsFit
<1>3. FieldsFit(sent)
  <2>1. ASSUME NEW key \in DOMAIN sent
        PROVE  key \in EnvelopeFields /\ EnvelopeRight(key, sent[key])
    BY DEF Sends, EnvelopeFields, EnvelopeRight
  <2> QED BY <2>1 DEF FieldsFit
<1>4. FieldsFit(actor)
  <2>1. \A key \in DOMAIN actor : key = "actor" /\ actor[key] = who /\ DOMAIN who # {}
    BY DEF ActorField
  <2>2. DOMAIN who # {} => Actor(who)
    BY DEF FollowsTheSchema
  <2> HIDE DEF actor
  <2> QED BY <2>1, <2>2 DEF FieldsFit, EnvelopeFields, EnvelopeRight
<1> QED BY <1>2, <1>3, <1>4 DEF actor

(* The envelope of an event that follows the schema, in TypeScript.        *)
LEMMA TsEnvelope ==
  ASSUME NEW event, NEW who, FollowsTheSchema(event, who),
         "attributes" \in DOMAIN event => event["attributes"] \in RawValues[MaxNesting],
         NEW inTime \in Nat
  PROVE  LET ts == buildEnvelope(event, who, inTime)
         IN  /\ EventEnvelope(ts) /\ DOMAIN event \subseteq DOMAIN ts
             /\ "context" \in DOMAIN event => ts["context"] = event["context"]
<1> DEFINE ts == buildEnvelope(event, who, inTime)
           scrubbed == Scrubbed(event, LAMBDA bag : scrubAttributes(bag, inTime))
           sent == scrubbed.sent
           report == scrubbed.report
           keys == {"sessionId", "context", "severity", "durationMs", "httpStatus"}
           first == [eventId |-> ULID, type |-> event.type, capturedAt |-> DATE, scrubber |-> report]
           carried == Carried(event, keys)
           actor == ActorField(who)
           parts == <<first, carried, sent, actor>>
<1>1. ts = Object(parts)
  <2>1. TypeIsWellFormed(event.type)
    BY DEF FollowsTheSchema, EventType, TypeIsWellFormed
  <2> QED BY <2>1 DEF buildEnvelope, FollowsTheSchema
<1>2. Sends(sent, report, event)
  BY TsSends DEF FollowsTheSchema
<1>3. /\ FieldsFit(carried) /\ DOMAIN carried = keys \cap DOMAIN event
      /\ \A key \in keys \cap DOMAIN event : carried[key] = event[key]
  BY CarriedFit
<1>4. DOMAIN first = {"eventId", "type", "capturedAt", "scrubber"}
  OBVIOUS
<1>5. DOMAIN actor \subseteq {"actor"}
  BY DEF ActorField
<1> HIDE DEF sent, report, carried, ts, actor
<1>6. FieldsFit(first) /\ FieldsFit(sent) /\ FieldsFit(actor)
  BY <1>2, OthersFit DEF actor
<1> HIDE DEF first
<1>7. /\ DOMAIN parts = 1..4 /\ parts[1] = first /\ parts[2] = carried /\ parts[3] = sent
      /\ parts[4] = actor
  OBVIOUS
<1> HIDE DEF parts
<1>8. \A i \in DOMAIN parts : i = 1 \/ i = 2 \/ i = 3 \/ i = 4
  BY <1>7
<1>9. \A i \in DOMAIN parts : FieldsFit(parts[i])
  BY <1>3, <1>6, <1>7, <1>8
<1>10. EventEnvelope(ts)
  BY <1>1, <1>4, <1>7, <1>9, PartsAreEnvelope
<1>11. /\ DOMAIN parts[1] \cup DOMAIN parts[2] \cup DOMAIN parts[3] \subseteq DOMAIN ts
       /\ \A key \in DOMAIN ts : \E i \in DOMAIN parts :
            key \in DOMAIN parts[i] /\ ts[key] = parts[i][key]
  BY <1>1, <1>7, PartsAre
<1>12. DOMAIN event \subseteq DOMAIN ts
  BY <1>2, <1>3, <1>4, <1>7, <1>11 DEF FollowsTheSchema, Sends
<1>13. ASSUME "context" \in DOMAIN event PROVE ts["context"] = event["context"]
  <2> DEFINE key == "context"
  <2>1. key \in DOMAIN ts /\ carried[key] = event[key]
    BY <1>3, <1>12, <1>13
  <2>2. key \notin DOMAIN first /\ key \notin DOMAIN sent /\ key \notin DOMAIN actor
    BY <1>2, <1>4, <1>5 DEF Sends
  <2> HIDE DEF key
  <2>3. PICK i \in DOMAIN parts : key \in DOMAIN parts[i] /\ ts[key] = parts[i][key]
    BY <1>11, <2>1
  <2>4. i = 2
    BY <1>7, <1>8, <2>2, <2>3
  <2>5. ts[key] = event[key]
    BY <1>7, <2>1, <2>3, <2>4
  <2> QED BY <2>5 DEF key
<1> QED BY <1>10, <1>12, <1>13 DEF ts

(* The one in Python, of an event with a session.                          *)
LEMMA PyEnvelope ==
  ASSUME NEW event, NEW who, FollowsTheSchema(event, who), "sessionId" \in DOMAIN event,
         "attributes" \in DOMAIN event => event["attributes"] \in RawValues[MaxNesting],
         NEW inTime \in Nat
  PROVE  EventEnvelope(pyBuildEnvelope(event, who, inTime))
<1> DEFINE py == pyBuildEnvelope(event, who, inTime)
           scrubbed == Scrubbed(event, LAMBDA bag : pyScrub(bag, inTime, {}))
           sent == scrubbed.sent
           report == scrubbed.report
           at == IF "capturedAt" \in DOMAIN event THEN event["capturedAt"] ELSE DATE
           first == [eventId |-> ULID, type |-> event.type, capturedAt |-> at, scrubber |-> report]
           carried == Carried(event, {"sessionId", "context", "severity"})
           numbers == NonZero(event, {"durationMs", "httpStatus"})
           actor == ActorField(who)
           parts == <<first, carried, numbers, sent, actor>>
<1>1. py = Object(parts)
  BY DEF pyBuildEnvelope, FollowsTheSchema
<1>2. Sends(sent, report, event)
  BY PySends DEF FollowsTheSchema
<1>3. FieldsFit(carried) /\ FieldsFit(numbers)
  BY CarriedFit
<1>4. at = DATE
  BY DEF FollowsTheSchema
<1> HIDE DEF sent, report, carried, numbers, py, at, actor
<1>5. DOMAIN first = {"eventId", "type", "capturedAt", "scrubber"}
  OBVIOUS
<1>6. FieldsFit(first) /\ FieldsFit(sent) /\ FieldsFit(actor)
  BY <1>2, <1>4, OthersFit DEF actor
<1> HIDE DEF first
<1>7. DOMAIN parts = 1..5 /\ \A i \in 1..5 : parts[i] \in {first, carried, numbers, sent, actor}
  OBVIOUS
<1>8. 1 \in DOMAIN parts /\ parts[1] = first
  OBVIOUS
<1> HIDE DEF parts
<1>9. \A i \in DOMAIN parts : FieldsFit(parts[i])
  BY <1>3, <1>6, <1>7
<1>10. EventEnvelope(py)
  BY <1>1, <1>5, <1>8, <1>9, PartsAreEnvelope
<1> QED BY <1>10 DEF py

(* The fields of the start of a session are those of the schema, and right.*)
StartFields ==
  {"sessionId", "startedAt", "appVersion", "releaseChannel", "client", "userAnonId", "identify"}

StartRight(key, value) ==
  CASE key = "sessionId" -> value = ULID
    [] key = "startedAt" -> value = DATE
    [] key = "appVersion" -> value \in 1..64
    [] key = "releaseChannel" -> value \in ReleaseChannels
    [] key = "client" -> SessionClient(value)
    [] key = "userAnonId" -> value \in 1..128
    [] OTHER -> Actor(value)

StartFits(f) == \A key \in DOMAIN f : key \in StartFields /\ StartRight(key, f[key])

LEMMA PartsAreStart ==
  ASSUME NEW parts, \A i \in DOMAIN parts : StartFits(parts[i]), NEW first \in DOMAIN parts,
         DOMAIN parts[first] = {"sessionId", "startedAt"}
  PROVE  SessionStartRequest(Object(parts))
<1> DEFINE f == Object(parts)
           required == {"sessionId", "startedAt"}
           optional == {"appVersion", "releaseChannel", "client", "userAnonId", "identify"}
<1>1. \A key \in DOMAIN f : key \in StartFields /\ StartRight(key, f[key])
  BY PartsAre DEF StartFits
<1>2. required \subseteq DOMAIN f
  BY PartsAre
<1>3. required \cup optional = StartFields
  BY DEF StartFields
<1> HIDE DEF required, optional, f
<1>4. DOMAIN f \subseteq required \cup optional
  BY <1>1, <1>3
<1>5. SessionStartRequest(f)
  BY <1>1, <1>2, <1>4 DEF SessionStartRequest, Fits, StartRight, required, optional
<1> QED BY <1>5 DEF f

(* Both SDKs start a session with the same parts.                          *)
LEMMA StartPartsFit ==
  ASSUME NEW who, DOMAIN who # {} => Actor(who), NEW userAgent \in Nat, NEW first,
         first = [sessionId |-> ULID, startedAt |-> DATE]
  PROVE  /\ DOMAIN first = {"sessionId", "startedAt"} /\ StartFits(first)
         /\ StartFits(ClientField(userAgent)) /\ StartFits(IdentifyField(who))
<1> DEFINE client == ClientField(userAgent)
           identify == IdentifyField(who)
<1>1. DOMAIN first = {"sessionId", "startedAt"}
  OBVIOUS
<1>2. StartFits(first)
  <2>1. first["sessionId"] = ULID /\ first["startedAt"] = DATE
    OBVIOUS
  <2> QED BY <1>1, <2>1 DEF StartFits, StartRight, StartFields
<1>3. StartFits(client)
  <2>1. \A key \in DOMAIN client : key = "client" /\ client[key] = Client(userAgent) /\ userAgent # 0
    BY DEF ClientField
  <2>2. userAgent # 0 => SessionClient(Client(userAgent))
    <3> DEFINE c == Client(userAgent)
    <3>1. DOMAIN c = {"userAgent"} /\ (userAgent # 0 => c["userAgent"] \in 1..512)
      BY DEF Client
    <3> HIDE DEF c
    <3>2. userAgent # 0 => SessionClient(c)
      BY <3>1 DEF SessionClient, Fits
    <3> QED BY <3>2 DEF c
  <2> HIDE DEF client
  <2> QED BY <2>1, <2>2 DEF StartFits, StartRight, StartFields
<1>4. StartFits(identify)
  <2>1. \A key \in DOMAIN identify : key = "identify" /\ identify[key] = who /\ DOMAIN who # {}
    BY DEF IdentifyField
  <2> HIDE DEF identify
  <2> QED BY <2>1 DEF StartFits, StartRight, StartFields
<1> QED BY <1>1, <1>2, <1>3, <1>4

(* The start of a session, in TypeScript.                                  *)
LEMMA TsStart ==
  ASSUME NEW who, DOMAIN who # {} => Actor(who), NEW userAgent \in Nat
  PROVE  SessionStartRequest(buildStartPayload(who, userAgent))
<1> DEFINE first == [sessionId |-> ULID, startedAt |-> DATE]
           client == ClientField(userAgent)
           identify == IdentifyField(who)
           parts == <<first, client, identify>>
<1>1. buildStartPayload(who, userAgent) = Object(parts)
  BY DEF buildStartPayload
<1>2. /\ DOMAIN first = {"sessionId", "startedAt"} /\ StartFits(first)
      /\ StartFits(client) /\ StartFits(identify)
  BY StartPartsFit
<1> HIDE DEF first, client, identify
<1>3. /\ DOMAIN parts = 1..3 /\ \A i \in 1..3 : parts[i] \in {first, client, identify}
      /\ 1 \in DOMAIN parts /\ parts[1] = first
  OBVIOUS
<1> HIDE DEF parts
<1>4. SessionStartRequest(Object(parts))
  BY <1>2, <1>3, PartsAreStart
<1> QED BY <1>1, <1>4

(* The one in Python, with attributes the schema knows.                    *)
LEMMA PyStart ==
  ASSUME NEW who, DOMAIN who # {} => Actor(who), NEW attrs, KnownAttributes(attrs),
         attrs["userAgent"] \in Nat
  PROVE  SessionStartRequest(pyBuildStartPayload(who, attrs))
<1> DEFINE left == DOMAIN attrs \ (START_FIELDS \cup {"userAgent"})
           keys == {key \in START_FIELDS \cap DOMAIN attrs : ~IsEmpty(key, attrs[key])}
           agent == IF "userAgent" \in DOMAIN attrs THEN attrs["userAgent"] ELSE 0
           first == [sessionId |-> ULID, startedAt |-> DATE]
           known == Carried(attrs, keys)
           client == ClientField(agent)
           others == [key \in IF left = {} THEN {} ELSE {"attributes"} |-> Carried(attrs, left)]
           identify == IdentifyField(who)
           parts == <<first, known, client, others, identify>>
<1>1. pyBuildStartPayload(who, attrs) = Object(parts)
  BY DEF pyBuildStartPayload
<1>2. agent \in Nat
  OBVIOUS
<1>3. DOMAIN others = {}
  BY DEF KnownAttributes
<1>4. StartFits(known)
  <2>1. ASSUME NEW key \in keys PROVE key \in StartFields /\ StartRight(key, attrs[key])
    <3>0. key \in DOMAIN attrs /\ (key # "releaseChannel" => attrs[key] # 0)
      BY DEF IsEmpty
    <3>1. CASE key = "appVersion"
      <4>1. attrs["appVersion"] \in 0..64 /\ attrs["appVersion"] # 0
        BY <3>0, <3>1 DEF KnownAttributes
      <4> QED BY <3>1, <4>1 DEF StartRight, StartFields
    <3>2. CASE key = "releaseChannel"
      BY <3>2 DEF KnownAttributes, IsEmpty, StartRight, StartFields
    <3>3. CASE key = "userAnonId"
      <4>1. attrs["userAnonId"] \in 0..128 /\ attrs["userAnonId"] # 0
        BY <3>0, <3>3 DEF KnownAttributes
      <4> QED BY <3>3, <4>1 DEF StartRight, StartFields
    <3> QED BY <3>1, <3>2, <3>3 DEF START_FIELDS
  <2>2. DOMAIN known \subseteq keys /\ \A key \in DOMAIN known : known[key] = attrs[key]
    BY DEF Carried
  <2> HIDE DEF keys, known
  <2> QED BY <2>1, <2>2 DEF StartFits
<1> HIDE DEF agent, known, others
<1>5. /\ DOMAIN first = {"sessionId", "startedAt"} /\ StartFits(first)
      /\ StartFits(client) /\ StartFits(identify)
  BY <1>2, StartPartsFit
<1>6. StartFits(others)
  BY <1>3 DEF StartFits
<1> HIDE DEF first, client, identify
<1>7. /\ DOMAIN parts = 1..5 /\ \A i \in 1..5 : parts[i] \in {first, known, client, others, identify}
      /\ 1 \in DOMAIN parts /\ parts[1] = first
  OBVIOUS
<1> HIDE DEF parts
<1>8. SessionStartRequest(Object(parts))
  BY <1>4, <1>5, <1>6, <1>7, PartsAreStart
<1> QED BY <1>1, <1>8

(* Every envelope the SDKs build of an event that follows the schema is    *)
(* one the schema accepts, whatever page it is about, however deep its     *)
(* attributes are and whatever the scrubber makes of them; and so is every *)
(* start of a session (client.ts:73-113, envelope.ts:14-88,                *)
(* envelope.py:93-187, session.ts:452-494, session.py:443-488).            *)
THEOREM PayloadsAreAcceptedAlways == Spec => []PayloadsAreAccepted
<1>1. Inputs => PayloadsAreAccepted
  <2> SUFFICES ASSUME Inputs PROVE PayloadsAreAccepted
    OBVIOUS
  <2> DEFINE event == given.event
             who == given.who
             page == given.page
             enriched == enrichPageContext(event, page)
             TsFine(inTime) ==
               LET ts == buildEnvelope(enriched, who, inTime)
               IN  /\ EventBatchRequest(<<ts>>)
                   /\ DOMAIN event \subseteq DOMAIN ts
                   /\ "context" \in DOMAIN event =>
                        \A key \in DOMAIN event["context"] : ts.context[key] = event["context"][key]
             PyFine(inTime) == "sessionId" \in DOMAIN event =>
               EventBatchRequest(<<pyBuildEnvelope(event, who, inTime)>>)
  <2>1. \A envelope : EventEnvelope(envelope) => EventBatchRequest(<<envelope>>)
    BY DEF EventBatchRequest
  <2>2. ASSUME given.for = "event", FollowsTheSchema(event, who), FitsTheContext(event, page),
               NEW inTime \in Times
        PROVE  TsFine(inTime) /\ PyFine(inTime)
    <3>1. /\ inTime \in Nat /\ IsPage(page)
          /\ "attributes" \in DOMAIN event => event["attributes"] \in RawValues[MaxNesting]
      BY <2>2, PayloadsAssumption DEF Inputs
    <3> DEFINE e == event
               p == page
               ts == buildEnvelope(enriched, who, inTime)
    <3>2. /\ FollowsTheSchema(enriched, who)
          /\ "attributes" \in DOMAIN enriched => enriched["attributes"] \in RawValues[MaxNesting]
          /\ DOMAIN event \subseteq DOMAIN enriched
          /\ "context" \in DOMAIN event =>
               \A key \in DOMAIN event["context"] : enriched["context"][key] = event["context"][key]
      BY <2>2, <3>1, EnrichedFollows
    <3> HIDE DEF enriched, event, who, page
    <3>3. /\ EventEnvelope(ts) /\ DOMAIN enriched \subseteq DOMAIN ts
          /\ "context" \in DOMAIN enriched => ts["context"] = enriched["context"]
      BY <3>1, <3>2, TsEnvelope
    <3>4. "sessionId" \in DOMAIN event => EventEnvelope(pyBuildEnvelope(event, who, inTime))
      BY <2>2, <3>1, PyEnvelope
    <3> HIDE DEF ts
    <3>5. PyFine(inTime)
      BY <2>1, <3>4
    <3>6. EventBatchRequest(<<ts>>) /\ DOMAIN event \subseteq DOMAIN ts
      BY <2>1, <3>2, <3>3
    <3>7. "context" \in DOMAIN event =>
            \A key \in DOMAIN event["context"] : ts.context[key] = event["context"][key]
      BY <3>2, <3>3
    <3>8. TsFine(inTime)
      BY <3>6, <3>7 DEF ts
    <3> QED BY <3>5, <3>8
  <2>3. ASSUME given.for = "session", DOMAIN who # {} => Actor(who)
        PROVE  /\ SessionStartRequest(buildStartPayload(who, given.attrs["userAgent"]))
               /\ KnownAttributes(given.attrs) =>
                    SessionStartRequest(pyBuildStartPayload(who, given.attrs))
    <3>1. given.attrs["userAgent"] \in Nat
      BY <2>3, PayloadsAssumption DEF Inputs
    <3> QED BY <2>3, <3>1, TsStart, PyStart
  <2> QED BY <2>2, <2>3 DEF PayloadsAreAccepted
<1> QED BY <1>1, InputsAlways, PTL

-----------------------------------------------------------------------------
(* Recursion.                                                              *)

(* The first values of what a step makes of the value before.              *)
FirstSteps(N, first, step, f) ==
  f = [n \in 0..N |-> IF n = 0 THEN first ELSE step[n][f[n - 1]]]

(* They exist.                                                             *)
LEMMA StepsExist ==
  ASSUME NEW N \in Nat, NEW first, NEW step
  PROVE  \E f : FirstSteps(N, first, step, f)
<1> DEFINE S == {k \in Nat : \E f : FirstSteps(k, first, step, f)}
<1>1. 0 \in S
  <2>1. FirstSteps(0, first, step, [n \in 0..0 |-> first])
    BY DEF FirstSteps
  <2> QED BY <2>1
<1>2. ASSUME NEW k \in Nat, k \in S PROVE k + 1 \in S
  <2>1. PICK f : FirstSteps(k, first, step, f)
    BY <1>2
  <2> DEFINE g == [n \in 0..k + 1 |-> IF n = k + 1 THEN step[k + 1][f[k]] ELSE f[n]]
  <2>2. ASSUME NEW n \in 0..k + 1
        PROVE  g[n] = IF n = 0 THEN first ELSE step[n][g[n - 1]]
    <3>1. CASE n = k + 1
      <4>1. n # 0 /\ n - 1 = k /\ k \in 0..k + 1 /\ k # k + 1
        BY <3>1
      <4>2. g[k] = f[k]
        BY <4>1
      <4> QED BY <3>1, <4>1, <4>2
    <3>2. CASE n # k + 1
      <4>1. n \in 0..k /\ g[n] = f[n]
        BY <3>2
      <4>2. f[n] = IF n = 0 THEN first ELSE step[n][f[n - 1]]
        BY <2>1, <4>1 DEF FirstSteps
      <4>3. n # 0 => g[n - 1] = f[n - 1]
        BY <4>1
      <4> HIDE DEF g
      <4> QED BY <4>1, <4>2, <4>3
    <3> QED BY <3>1, <3>2
  <2>3. g = [n \in 0..k + 1 |-> g[n]]
    OBVIOUS
  <2> HIDE DEF g
  <2>4. FirstSteps(k + 1, first, step, g)
    BY <2>2, <2>3 DEF FirstSteps
  <2> QED BY <2>4
<1> HIDE DEF S
<1>3. N \in S
  BY <1>1, <1>2, Induct
<1> QED BY <1>3 DEF S

(* There is but one value at a place.                                      *)
LEMMA StepsAgree ==
  ASSUME NEW N \in Nat, NEW M \in Nat, N <= M, NEW first, NEW step, NEW f, NEW g,
         FirstSteps(N, first, step, f), FirstSteps(M, first, step, g)
  PROVE  \A n \in 0..N : f[n] = g[n]
<1> DEFINE S == {n \in Nat : n <= N => f[n] = g[n]}
<1>1. 0 \in S
  BY DEF FirstSteps
<1>2. ASSUME NEW n \in Nat, n \in S PROVE n + 1 \in S
  <2> SUFFICES ASSUME n + 1 <= N PROVE f[n + 1] = g[n + 1]
    OBVIOUS
  <2>1. n + 1 \in 0..N /\ n + 1 \in 0..M /\ (n + 1) - 1 = n /\ n + 1 # 0 /\ f[n] = g[n]
    BY <1>2
  <2>2. f[n + 1] = step[n + 1][f[n]]
    BY <2>1 DEF FirstSteps
  <2>3. g[n + 1] = step[n + 1][g[n]]
    BY <2>1 DEF FirstSteps
  <2> QED BY <2>1, <2>2, <2>3
<1> HIDE DEF S
<1>3. \A n \in Nat : n \in S
  BY <1>1, <1>2, Induct
<1> QED BY <1>3 DEF S

(* All the values, each in a set.                                          *)
AllSteps(T, first, step, f) ==
  /\ f \in [Nat -> T]
  /\ f[0] = first
  /\ \A n \in Nat : n # 0 => f[n] = step[n][f[n - 1]]

(* A function that is defined by what a step makes of the value before     *)
(* exists, and its values are of the set the step stays in.                *)
LEMMA RecursionOnNat ==
  ASSUME NEW T, NEW first \in T, NEW step \in [Nat -> [T -> T]]
  PROVE  \E f : AllSteps(T, first, step, f)
<1> DEFINE upto == [N \in Nat |-> CHOOSE f : FirstSteps(N, first, step, f)]
           f == [n \in Nat |-> upto[n][n]]
<1>1. ASSUME NEW N \in Nat PROVE FirstSteps(N, first, step, upto[N])
  BY StepsExist
<1> HIDE DEF upto
<1>2. f[0] = first
  <2>1. FirstSteps(0, first, step, upto[0])
    BY <1>1
  <2>2. upto[0][0] = first
    BY <2>1 DEF FirstSteps
  <2> QED BY <2>2
<1>3. ASSUME NEW n \in Nat, n # 0 PROVE f[n] = step[n][f[n - 1]]
  <2>1. n - 1 \in Nat /\ n - 1 <= n /\ n \in 0..n /\ n - 1 \in 0..n - 1
    BY <1>3
  <2>2. upto[n][n] = step[n][upto[n][n - 1]]
    BY <1>1, <1>3, <2>1, ZenonT(40) DEF FirstSteps
  <2>3. upto[n - 1][n - 1] = upto[n][n - 1]
    BY <1>1, <2>1, StepsAgree
  <2> QED BY <2>1, <2>2, <2>3
<1>4. f = [n \in Nat |-> f[n]]
  OBVIOUS
<1> HIDE DEF f
<1> DEFINE S == {n \in Nat : f[n] \in T}
<1>5. 0 \in S
  BY <1>2
<1>6. ASSUME NEW n \in Nat, n \in S PROVE n + 1 \in S
  <2>1. n + 1 \in Nat /\ n + 1 # 0 /\ (n + 1) - 1 = n
    OBVIOUS
  <2>2. f[n + 1] = step[n + 1][f[n]] /\ f[n] \in T
    BY <1>3, <1>6, <2>1
  <2> QED BY <2>1, <2>2
<1> HIDE DEF S
<1>7. \A n \in Nat : n \in S
  BY <1>5, <1>6, Induct
<1>8. f \in [Nat -> T]
  BY <1>4, <1>7 DEF S
<1>9. AllSteps(T, first, step, f)
  BY <1>2, <1>3, <1>8 DEF AllSteps
<1> QED BY <1>9

-----------------------------------------------------------------------------
(* Powers of two.                                                          *)

(* Each is twice the one before.                                           *)
LEMMA PowerFacts ==
  /\ Pow2[0] = 1
  /\ \A n \in Nat : Pow2[n] \in Nat /\ Pow2[n] > 0 /\ Pow2[n + 1] = 2 * Pow2[n]
<1> DEFINE Eq(f) == f = [n \in Nat |-> IF n = 0 THEN 1 ELSE 2 * f[n - 1]]
           powers == CHOOSE f : Eq(f)
<1>1. Eq(powers)
  <2> DEFINE step == [n \in Nat |-> [v \in Nat |-> 2 * v]]
  <2>1. step \in [Nat -> [Nat -> Nat]]
    OBVIOUS
  <2>2. PICK f : AllSteps(Nat, 1, step, f)
    <3> HIDE DEF step
    <3>1. 1 \in Nat
      OBVIOUS
    <3> QED BY <2>1, <3>1, RecursionOnNat
  <2>3. ASSUME NEW n \in Nat PROVE f[n] = IF n = 0 THEN 1 ELSE 2 * f[n - 1]
    <3>1. CASE n # 0
      <4>1. n - 1 \in Nat
        BY <3>1
      <4> QED BY <2>2, <3>1, <4>1 DEF AllSteps
    <3> QED BY <2>2, <3>1 DEF AllSteps
  <2>4. f = [n \in Nat |-> f[n]]
    BY <2>2 DEF AllSteps
  <2>5. Eq(f)
    BY <2>3, <2>4
  <2> HIDE DEF Eq
  <2> QED BY <2>5
<1>2. Pow2 = powers
  BY DEF Pow2
<1> HIDE DEF powers
<1> DEFINE S == {n \in Nat : Pow2[n] \in Nat /\ Pow2[n] > 0}
<1>3. Pow2[0] = 1 /\ \A n \in Nat : n # 0 => Pow2[n] = 2 * Pow2[n - 1]
  BY <1>1, <1>2
<1> HIDE DEF Eq
<1>4. 0 \in S
  BY <1>3
<1>5. \A n \in Nat : Pow2[n + 1] = 2 * Pow2[n]
  <2> TAKE n \in Nat
  <2>1. n + 1 \in Nat /\ n + 1 # 0 /\ (n + 1) - 1 = n
    OBVIOUS
  <2> QED BY <1>3, <2>1
<1>6. ASSUME NEW n \in Nat, n \in S PROVE n + 1 \in S
  BY <1>5, <1>6
<1> HIDE DEF S
<1>7. \A n \in Nat : n \in S
  BY <1>4, <1>6, Induct
<1> QED BY <1>3, <1>5, <1>7 DEF S

(* Shifting twice is shifting by the sum.                                  *)
LEMMA PowerOfSum ==
  ASSUME NEW m \in Nat, NEW n \in Nat
  PROVE  Pow2[m + n] = Pow2[m] * Pow2[n]
<1> DEFINE S == {k \in Nat : Pow2[m + k] = Pow2[m] * Pow2[k]}
<1>1. 0 \in S
  BY PowerFacts
<1>2. ASSUME NEW k \in Nat, k \in S PROVE k + 1 \in S
  <2>1. m + (k + 1) = (m + k) + 1 /\ m + k \in Nat
    OBVIOUS
  <2>2. Pow2[(m + k) + 1] = 2 * Pow2[m + k] /\ Pow2[k + 1] = 2 * Pow2[k]
    BY <2>1, PowerFacts
  <2>3. Pow2[m + k] = Pow2[m] * Pow2[k]
    BY <1>2
  <2> DEFINE a == Pow2[m]
             b == Pow2[k]
  <2>4. a \in Nat /\ b \in Nat
    BY PowerFacts
  <2>5. Pow2[m + (k + 1)] = 2 * (a * b) /\ Pow2[m] * Pow2[k + 1] = a * (2 * b)
    BY <2>1, <2>2, <2>3
  <2> HIDE DEF a, b
  <2>6. 2 * (a * b) = a * (2 * b)
    BY <2>4
  <2> QED BY <2>5, <2>6
<1> HIDE DEF S
<1>3. n \in S
  BY <1>1, <1>2, Induct
<1> QED BY <1>3 DEF S

(* The first values, each in a set.                                        *)
StepsUpTo(N, T, first, step, f) ==
  /\ f \in [0..N -> T]
  /\ f[0] = first
  /\ \A n \in 1..N : f[n] = step[n][f[n - 1]]

(* And for the first natural numbers.                                      *)
LEMMA RecursionUpTo ==
  ASSUME NEW N \in Nat, NEW T, NEW first \in T, NEW step \in [1..N -> [T -> T]]
  PROVE  \E f : StepsUpTo(N, T, first, step, f)
<1>1. PICK f : FirstSteps(N, first, step, f)
  BY StepsExist
<1>2. /\ f = [n \in 0..N |-> f[n]]
      /\ \A n \in 0..N : f[n] = IF n = 0 THEN first ELSE step[n][f[n - 1]]
  BY <1>1 DEF FirstSteps
<1> DEFINE S == {n \in Nat : n <= N => f[n] \in T}
<1>3. 0 \in S
  BY <1>2
<1>4. ASSUME NEW n \in Nat, n \in S PROVE n + 1 \in S
  <2> SUFFICES ASSUME n + 1 <= N PROVE f[n + 1] \in T
    OBVIOUS
  <2>1. n + 1 \in 1..N /\ n + 1 \in 0..N /\ n + 1 # 0 /\ (n + 1) - 1 = n /\ f[n] \in T
    BY <1>4
  <2>2. f[n + 1] = step[n + 1][f[n]]
    BY <1>2, <2>1
  <2> QED BY <2>1, <2>2
<1> HIDE DEF S
<1>5. \A n \in Nat : n \in S
  BY <1>3, <1>4, Induct
<1>6. \A n \in 0..N : f[n] \in T
  BY <1>5 DEF S
<1>7. f \in [0..N -> T]
  BY <1>2, <1>6
<1>8. f[0] = first
  BY <1>2
<1>9. ASSUME NEW n \in 1..N PROVE f[n] = step[n][f[n - 1]]
  <2>1. n \in 0..N /\ n # 0
    OBVIOUS
  <2> QED BY <1>2, <2>1
<1> QED BY <1>7, <1>8, <1>9 DEF StepsUpTo

-----------------------------------------------------------------------------
(* Digits.                                                                 *)

(* The alphabet has at least two characters.                               *)
LEMMA AlphabetFacts == Alphabet \in Nat /\ Alphabet > 0
BY UlidAssumption, PowerFacts DEF Alphabet

(* Dividing, in a module of numbers only.                                  *)
LEMMA Dividing ==
  ASSUME NEW x \in Nat, NEW b \in Nat, b > 0
  PROVE  /\ x \div b \in Nat /\ x % b \in 0..(b - 1)
         /\ x = (x \div b) * b + (x % b)
         /\ (x - (x % b)) \div b = x \div b
<1>1. x \div b \in Nat /\ x % b \in 0..(b - 1) /\ x = (x \div b) * b + (x % b)
  OBVIOUS
<1> DEFINE q == x \div b
           r == x % b
<1>2. x - r = q * b /\ q \in Nat
  BY <1>1
<1>3. (q * b) \div b = q
  <2> HIDE DEF q
  <2> QED BY <1>2
<1> QED BY <1>1, <1>2, <1>3

(* A quotient and a remainder are what was put together.                   *)
LEMMA PutTogether ==
  ASSUME NEW q \in Nat, NEW b \in Nat, NEW r \in 0..(b - 1)
  PROVE  (q * b + r) \div b = q /\ (q * b + r) % b = r
OBVIOUS

(* What remains of a value after every character.                          *)
IsDivided(value, N, r) ==
  r[0] = value /\ \A n \in 1..N : r[n] = r[n - 1] \div Alphabet

Quotients(value, N, r) == r \in [0..N -> Nat] /\ IsDivided(value, N, r)

(* The characters of the first digits, the last one first.                 *)
Characters(r, N) == [i \in 1..N |-> r[N - i] % Alphabet]

(* The quotients exist,                                                    *)
LEMMA QuotientsExist ==
  ASSUME NEW value \in Nat, NEW N \in Nat
  PROVE  \E r : Quotients(value, N, r)
<1> DEFINE step == [n \in 1..N |-> [v \in Nat |-> v \div Alphabet]]
<1>1. step \in [1..N -> [Nat -> Nat]]
  BY AlphabetFacts, Dividing
<1>2. \A n \in 1..N : \A v \in Nat : step[n][v] = v \div Alphabet
  OBVIOUS
<1> HIDE DEF step
<1>3. PICK r : StepsUpTo(N, Nat, value, step, r)
  BY <1>1, RecursionUpTo
<1>4. Quotients(value, N, r)
  <2>1. ASSUME NEW n \in 1..N PROVE r[n] = r[n - 1] \div Alphabet
    <3>1. n - 1 \in 0..N
      OBVIOUS
    <3> QED BY <1>2, <1>3, <3>1 DEF StepsUpTo
  <2> QED BY <1>3, <2>1 DEF StepsUpTo, Quotients, IsDivided
<1> QED BY <1>4

(* and there is one for each place.                                        *)
LEMMA QuotientsAgree ==
  ASSUME NEW value, NEW N \in Nat, NEW r, NEW s, Quotients(value, N, r),
         IsDivided(value, N, s)
  PROVE  \A n \in 0..N : r[n] = s[n]
<1> DEFINE S == {n \in Nat : n <= N => r[n] = s[n]}
<1>1. 0 \in S
  BY DEF Quotients, IsDivided
<1>2. ASSUME NEW n \in Nat, n \in S PROVE n + 1 \in S
  <2> SUFFICES ASSUME n + 1 <= N PROVE r[n + 1] = s[n + 1]
    OBVIOUS
  <2>1. n + 1 \in 1..N /\ (n + 1) - 1 = n /\ r[n] = s[n]
    BY <1>2
  <2> QED BY <2>1 DEF Quotients, IsDivided
<1> HIDE DEF S
<1>3. \A n \in Nat : n \in S
  BY <1>1, <1>2, Induct
<1> QED BY <1>3 DEF S

(* The characters of a time are those of its quotients.                    *)
LEMMA TimestampFacts ==
  ASSUME NEW ms \in 0..MAX_TIMESTAMP_MS
  PROVE  \E r : /\ Quotients(ms, TIME_LEN, r)
                /\ encodeTimestamp(ms) = Characters(r, TIME_LEN)
<1> DEFINE N == TIME_LEN
           Eq(f) == f = [n \in 0..N |-> IF n = 0 THEN ms
                                        ELSE (f[n - 1] - (f[n - 1] % Alphabet)) \div Alphabet]
           chosen == CHOOSE f : Eq(f)
<1>1. N \in Nat /\ ms \in Nat /\ ~(ms < 0 \/ ms > MAX_TIMESTAMP_MS)
  BY UlidAssumption
<1>2. encodeTimestamp(ms) = [i \in 1..N |-> chosen[N - i] % Alphabet]
  BY <1>1 DEF encodeTimestamp
<1> HIDE DEF chosen, N
<1>3. PICK r : Quotients(ms, N, r)
  BY <1>1, QuotientsExist
<1>4. Eq(r)
  <2>1. ASSUME NEW n \in 0..N
        PROVE  r[n] = IF n = 0 THEN ms
                      ELSE (r[n - 1] - (r[n - 1] % Alphabet)) \div Alphabet
    <3>1. CASE n = 0
      BY <1>3, <3>1 DEF Quotients, IsDivided
    <3>2. CASE n # 0
      <4>1. n \in 1..N /\ n - 1 \in 0..N
        BY <1>1, <3>2
      <4>2. r[n] = r[n - 1] \div Alphabet /\ r[n - 1] \in Nat
        BY <1>3, <4>1 DEF Quotients, IsDivided
      <4>3. (r[n - 1] - (r[n - 1] % Alphabet)) \div Alphabet = r[n - 1] \div Alphabet
        BY <4>2, AlphabetFacts, Dividing
      <4> QED BY <3>2, <4>2, <4>3
    <3> QED BY <3>1, <3>2
  <2>2. r = [n \in 0..N |-> r[n]]
    BY <1>3 DEF Quotients, IsDivided
  <2> QED BY <2>1, <2>2
<1>5. Eq(chosen)
  <2> HIDE DEF Eq
  <2> QED BY <1>4 DEF chosen
<1> DEFINE S == {n \in Nat : n <= N => chosen[n] = r[n]}
<1>6. 0 \in S
  BY <1>1, <1>3, <1>5 DEF Quotients, IsDivided
<1>7. ASSUME NEW n \in Nat, n \in S PROVE n + 1 \in S
  <2> SUFFICES ASSUME n + 1 <= N PROVE chosen[n + 1] = r[n + 1]
    OBVIOUS
  <2>1. n + 1 \in 0..N /\ n + 1 # 0 /\ (n + 1) - 1 = n /\ chosen[n] = r[n]
    BY <1>1, <1>7
  <2>2. chosen[n + 1] = (chosen[n] - (chosen[n] % Alphabet)) \div Alphabet
    BY <1>5, <2>1
  <2>3. r[n + 1] = (r[n] - (r[n] % Alphabet)) \div Alphabet
    BY <1>4, <2>1
  <2> QED BY <2>1, <2>2, <2>3
<1> HIDE DEF S, Eq
<1>8. \A n \in Nat : n \in S
  BY <1>6, <1>7, Induct
<1>9. ASSUME NEW i \in 1..N PROVE chosen[N - i] = r[N - i]
  <2>1. N - i \in Nat /\ N - i <= N
    BY <1>1
  <2> QED BY <1>8, <2>1 DEF S
<1>10. encodeTimestamp(ms) = Characters(r, N)
  BY <1>2, <1>9 DEF Characters
<1> QED BY <1>3, <1>10 DEF N

(* And so they are in Python, when they fit.                               *)
LEMMA Base32Facts ==
  ASSUME NEW value \in Nat, NEW length \in Nat
  PROVE  \E r : /\ Quotients(value, length, r)
                /\ r[length] = 0 => encodeBase32(value, length) = Characters(r, length)
<1> DEFINE Eq(f) == f = [n \in 0..length |-> IF n = 0 THEN value ELSE f[n - 1] \div Alphabet]
           chosen == CHOOSE f : Eq(f)
<1>1. encodeBase32(value, length) =
        IF chosen[length] # 0 THEN OutOfRange
        ELSE [i \in 1..length |-> chosen[length - i] % Alphabet]
  BY DEF encodeBase32
<1> HIDE DEF chosen
<1>2. PICK r : Quotients(value, length, r)
  BY QuotientsExist
<1>3. Eq(r)
  <2>1. ASSUME NEW n \in 0..length
        PROVE  r[n] = IF n = 0 THEN value ELSE r[n - 1] \div Alphabet
    BY <1>2 DEF Quotients, IsDivided
  <2>2. r = [n \in 0..length |-> r[n]]
    BY <1>2 DEF Quotients, IsDivided
  <2> QED BY <2>1, <2>2
<1>4. Eq(chosen)
  <2> HIDE DEF Eq
  <2> QED BY <1>3 DEF chosen
<1>5. IsDivided(value, length, chosen)
  BY <1>4 DEF IsDivided
<1> HIDE DEF Eq
<1>6. \A n \in 0..length : r[n] = chosen[n]
  BY <1>2, <1>5, QuotientsAgree
<1>7. ASSUME NEW i \in 1..length PROVE chosen[length - i] = r[length - i]
  <2>1. length - i \in 0..length
    OBVIOUS
  <2> QED BY <1>6, <2>1
<1>8. length \in 0..length
  OBVIOUS
<1>9. r[length] = 0 => encodeBase32(value, length) = Characters(r, length)
  BY <1>1, <1>6, <1>7, <1>8 DEF Characters
<1> QED BY <1>2, <1>9

(* An identifier's characters are in the alphabet.                         *)
LEMMA CharactersAre ==
  ASSUME NEW value, NEW N \in Nat, NEW r, Quotients(value, N, r)
  PROVE  Characters(r, N) \in [1..N -> 0..(Alphabet - 1)]
<1>1. ASSUME NEW i \in 1..N PROVE r[N - i] % Alphabet \in 0..(Alphabet - 1)
  <2>1. N - i \in 0..N
    OBVIOUS
  <2>2. r[N - i] \in Nat
    BY <2>1 DEF Quotients
  <2> QED BY <2>2, AlphabetFacts, Dividing
<1> QED BY <1>1 DEF Characters

(* A value that fits in the characters is used up.                         *)
LEMMA UsedUp ==
  ASSUME NEW value \in Nat, NEW N \in Nat, value < Pow2[CHAR_BITS * N],
         NEW r, Quotients(value, N, r)
  PROVE  r[N] = 0
<1> DEFINE S == {n \in Nat : n <= N => r[n] < Pow2[CHAR_BITS * (N - n)]}
<1>0. CHAR_BITS \in Nat
  BY UlidAssumption
<1>1. 0 \in S
  <2>1. N - 0 = N /\ r[0] = value
    BY DEF Quotients, IsDivided
  <2> QED BY <2>1
<1>2. ASSUME NEW n \in Nat, n \in S PROVE n + 1 \in S
  <2> SUFFICES ASSUME n + 1 <= N PROVE r[n + 1] < Pow2[CHAR_BITS * (N - (n + 1))]
    OBVIOUS
  <2>1. n + 1 \in 1..N /\ n \in 0..N /\ (n + 1) - 1 = n /\ r[n] < Pow2[CHAR_BITS * (N - n)]
    BY <1>2
  <2>2. r[n + 1] = r[n] \div Alphabet /\ r[n] \in Nat
    BY <2>1 DEF Quotients, IsDivided
  <2> DEFINE m == N - (n + 1)
             low == CHAR_BITS * m
  <2>3. m \in Nat /\ N - n = m + 1
    BY <2>1
  <2>4. CHAR_BITS * (N - n) = low + CHAR_BITS /\ low \in Nat
    <3> HIDE DEF m
    <3> QED BY <1>0, <2>3
  <2>5. Pow2[CHAR_BITS * (N - n)] = Pow2[low] * Alphabet
    <3> HIDE DEF low
    <3> QED BY <1>0, <2>4, PowerOfSum DEF Alphabet
  <2> DEFINE p == Pow2[low]
             q == r[n] \div Alphabet
             x == r[n]
             b == Alphabet
  <2>6. p \in Nat
    <3> HIDE DEF low
    <3> QED BY <2>4, PowerFacts
  <2>7. x \in Nat /\ b \in Nat /\ b > 0 /\ x < p * b
    BY <2>1, <2>2, <2>5, AlphabetFacts
  <2>8. q \in Nat /\ x % b \in Nat /\ x = q * b + (x % b)
    <3> HIDE DEF x, b
    <3>1. x \div b \in Nat /\ x % b \in 0..(b - 1) /\ x = (x \div b) * b + (x % b)
      BY <2>7, Dividing
    <3>2. x % b \in Nat
      BY <2>7, <3>1
    <3> QED BY <3>1, <3>2 DEF x, b
  <2>9. q < p
    <3> DEFINE rest == x % b
    <3> HIDE DEF p, q, x, b, rest
    <3>1. q \in Nat /\ rest \in Nat /\ x = q * b + rest
      BY <2>8 DEF rest
    <3>2. q * b < p * b
      BY <2>6, <2>7, <3>1
    <3>3. q >= p => q * b >= p * b
      BY <2>6, <2>7, <3>1
    <3> QED BY <2>6, <2>7, <3>1, <3>2, <3>3
  <2> QED BY <2>2, <2>9
<1> HIDE DEF S
<1>3. N \in S
  BY <1>1, <1>2, Induct
<1>4. r[N] < Pow2[CHAR_BITS * (N - N)]
  BY <1>3 DEF S
<1>5. CHAR_BITS * (N - N) = 0
  BY <1>0
<1>6. r[N] \in Nat
  BY DEF Quotients
<1> QED BY <1>4, <1>5, <1>6, PowerFacts

(* The two SDKs write a time alike.                                        *)
LEMMA TimesAgree ==
  ASSUME NEW ms, timestampMs(ms), ms \in Int
  PROVE  encodeTimestamp(ms) = encodeBase32(ms, TIME_LEN)
<1>1. ms \in 0..MAX_TIMESTAMP_MS /\ ms \in Nat /\ TIME_LEN \in Nat
  BY UlidAssumption DEF timestampMs
<1>2. PICK r : Quotients(ms, TIME_LEN, r) /\ encodeTimestamp(ms) = Characters(r, TIME_LEN)
  BY <1>1, TimestampFacts
<1>3. PICK s : /\ Quotients(ms, TIME_LEN, s)
               /\ s[TIME_LEN] = 0 => encodeBase32(ms, TIME_LEN) = Characters(s, TIME_LEN)
  BY <1>1, Base32Facts
<1>4. ms < Pow2[CHAR_BITS * TIME_LEN]
  <2>1. CHAR_BITS * TIME_LEN \in Nat
    BY UlidAssumption
  <2>2. Pow2[CHAR_BITS * TIME_LEN] \in Nat
    BY <2>1, PowerFacts
  <2> QED BY <1>1, <2>2, UlidAssumption
<1>5. s[TIME_LEN] = 0
  BY <1>1, <1>3, <1>4, UsedUp
<1>6. \A n \in 0..TIME_LEN : r[n] = s[n]
  <2>1. IsDivided(ms, TIME_LEN, s)
    BY <1>3 DEF Quotients
  <2> QED BY <1>1, <1>2, <2>1, QuotientsAgree
<1>7. ASSUME NEW i \in 1..TIME_LEN PROVE r[TIME_LEN - i] = s[TIME_LEN - i]
  <2>1. TIME_LEN - i \in 0..TIME_LEN
    BY <1>1
  <2> QED BY <1>6, <2>1
<1> QED BY <1>2, <1>3, <1>5, <1>7 DEF Characters

(* An identifier starts with the characters of its time.                   *)
LEMMA TimesAre ==
  ASSUME NEW ms \in Int, timestampMs(ms)
  PROVE  encodeTimestamp(ms) \in [1..TIME_LEN -> 0..(Alphabet - 1)]
<1>1. ms \in 0..MAX_TIMESTAMP_MS /\ TIME_LEN \in Nat
  BY UlidAssumption DEF timestampMs
<1>2. PICK r : Quotients(ms, TIME_LEN, r) /\ encodeTimestamp(ms) = Characters(r, TIME_LEN)
  BY <1>1, TimestampFacts
<1> QED BY <1>1, <1>2, CharactersAre

(* Dividing keeps the order,                                               *)
LEMMA DividingKeepsOrder ==
  ASSUME NEW x \in Nat, NEW y \in Nat, x <= y, NEW b \in Nat, b > 0
  PROVE  x \div b <= y \div b
<1> DEFINE q == x \div b
           p == y \div b
           r == x % b
           t == y % b
<1>1. q \in Nat /\ p \in Nat /\ r \in 0..(b - 1) /\ t \in 0..(b - 1)
      /\ x = q * b + r /\ y = p * b + t
  BY Dividing
<1> HIDE DEF q, p, r, t
<1>2. q > p => q * b >= p * b + b
  <2> SUFFICES ASSUME q > p PROVE q * b >= p * b + b
    OBVIOUS
  <2>1. q >= p + 1 /\ p + 1 \in Nat
    BY <1>1
  <2>2. q * b >= (p + 1) * b
    BY <1>1, <2>1
  <2>3. (p + 1) * b = p * b + b
    BY <1>1
  <2> QED BY <2>2, <2>3
<1>3. q * b \in Nat /\ p * b \in Nat
  BY <1>1
<1>4. ~(q > p)
  BY <1>1, <1>2, <1>3
<1>5. q <= p
  BY <1>1, <1>4
<1> QED BY <1>5 DEF q, p

(* and of two numbers with the same quotient, the remainders decide.       *)
LEMMA RemaindersDecide ==
  ASSUME NEW x \in Nat, NEW y \in Nat, x < y, NEW b \in Nat, b > 0, x \div b = y \div b
  PROVE  x % b < y % b
<1> DEFINE q == x \div b
           r == x % b
           t == y % b
<1>1. q \in Nat /\ r \in Nat /\ t \in Nat /\ x = q * b + r /\ y = q * b + t
  BY Dividing
<1> HIDE DEF q, r, t
<1>2. q * b \in Nat
  BY <1>1
<1>3. r < t
  BY <1>1, <1>2
<1> QED BY <1>3 DEF r, t

(* A later time has the greater characters.                                *)
LEMMA LaterFollows ==
  ASSUME NEW x \in Int, NEW y \in Int, timestampMs(x), timestampMs(y), x < y
  PROVE  Precedes(encodeTimestamp(x), encodeTimestamp(y))
<1> DEFINE N == TIME_LEN
<1>1. /\ x \in 0..MAX_TIMESTAMP_MS /\ y \in 0..MAX_TIMESTAMP_MS /\ N \in Nat
      /\ x \in Nat /\ y \in Nat
  BY UlidAssumption DEF timestampMs
<1>2. PICK r : Quotients(x, N, r) /\ encodeTimestamp(x) = Characters(r, N)
  BY <1>1, TimestampFacts
<1>3. PICK s : Quotients(y, N, s) /\ encodeTimestamp(y) = Characters(s, N)
  BY <1>1, TimestampFacts
<1>4. r[N] = 0 /\ s[N] = 0
  <2>1. CHAR_BITS * N \in Nat
    BY UlidAssumption
  <2>2. Pow2[CHAR_BITS * N] \in Nat
    BY <2>1, PowerFacts
  <2>3. x < Pow2[CHAR_BITS * N] /\ y < Pow2[CHAR_BITS * N]
    BY <1>1, <2>2, UlidAssumption
  <2> QED BY <1>1, <1>2, <1>3, <2>3, UsedUp
<1> HIDE DEF N
<1> DEFINE Same == {n \in 0..N : r[n] = s[n]}
<1>5. Same \subseteq Nat /\ N \in Same
  BY <1>1, <1>4
<1>6. PICK least \in Same : \A m \in Same : least <= m
  <2> HIDE DEF Same
  <2> QED BY <1>5, LeastOf
<1>7. r[0] = x /\ s[0] = y
  BY <1>2, <1>3 DEF Quotients, IsDivided
<1>8. least # 0
  BY <1>1, <1>6, <1>7
<1> DEFINE top == least - 1
<1>9. least \in 1..N /\ top \in 0..N /\ top \notin Same /\ r[least] = s[least]
  <2>1. least \in 1..N /\ top \in 0..N /\ r[least] = s[least]
    BY <1>1, <1>6, <1>8
  <2>2. ~(least <= top)
    BY <2>1
  <2> QED BY <1>6, <2>1, <2>2
<1>10. r[top] # s[top]
  BY <1>9
<1>11. ASSUME NEW n \in least..N PROVE r[n] = s[n]
  <2> DEFINE S == {k \in Nat : least + k <= N => r[least + k] = s[least + k]}
  <2>1. 0 \in S
    BY <1>1, <1>9
  <2>2. ASSUME NEW k \in Nat, k \in S PROVE k + 1 \in S
    <3> SUFFICES ASSUME least + (k + 1) <= N PROVE r[least + (k + 1)] = s[least + (k + 1)]
      OBVIOUS
    <3>1. /\ least + (k + 1) \in 1..N /\ (least + (k + 1)) - 1 = least + k
          /\ r[least + k] = s[least + k]
      BY <1>1, <1>9, <2>2
    <3> QED BY <1>2, <1>3, <3>1 DEF Quotients, IsDivided
  <2> HIDE DEF S
  <2>3. n - least \in Nat /\ least + (n - least) = n
    BY <1>1, <1>9
  <2>4. n - least \in S
    BY <2>1, <2>2, <2>3, Induct
  <2> QED BY <1>1, <2>3, <2>4 DEF S
<1>12. ASSUME NEW n \in 0..N PROVE r[n] <= s[n]
  <2> DEFINE S == {k \in Nat : k <= N => r[k] <= s[k]}
  <2>1. 0 \in S
    BY <1>1, <1>7
  <2>2. ASSUME NEW k \in Nat, k \in S PROVE k + 1 \in S
    <3> SUFFICES ASSUME k + 1 <= N PROVE r[k + 1] <= s[k + 1]
      OBVIOUS
    <3>1. k + 1 \in 1..N /\ k \in 0..N /\ (k + 1) - 1 = k /\ r[k] <= s[k]
      BY <1>1, <2>2
    <3>2. /\ r[k + 1] = r[k] \div Alphabet /\ s[k + 1] = s[k] \div Alphabet
          /\ r[k] \in Nat /\ s[k] \in Nat
      BY <1>2, <1>3, <3>1 DEF Quotients, IsDivided
    <3> QED BY <3>1, <3>2, AlphabetFacts, DividingKeepsOrder
  <2> HIDE DEF S
  <2>3. n \in Nat
    BY <1>1
  <2>4. n \in S
    BY <2>1, <2>2, <2>3, Induct
  <2> QED BY <1>1, <2>4 DEF S
<1>13. r[top] < s[top] /\ r[top] \in Nat /\ s[top] \in Nat
  <2>1. r[top] <= s[top] /\ r[top] # s[top] /\ r[top] \in Nat /\ s[top] \in Nat
    BY <1>2, <1>3, <1>9, <1>10, <1>12 DEF Quotients
  <2> HIDE DEF top
  <2> QED BY <2>1
<1>14. r[top] \div Alphabet = s[top] \div Alphabet
  <2>1. r[least] = r[least - 1] \div Alphabet /\ s[least] = s[least - 1] \div Alphabet
    BY <1>2, <1>3, <1>9 DEF Quotients, IsDivided
  <2> QED BY <1>9, <2>1
<1>15. r[top] % Alphabet < s[top] % Alphabet
  <2> HIDE DEF top
  <2> QED BY <1>13, <1>14, AlphabetFacts, RemaindersDecide
<1> DEFINE i == N - top
<1>16. i \in 1..N /\ N - i = top
  BY <1>1, <1>9
<1>17. Characters(r, N)[i] < Characters(s, N)[i]
  BY <1>15, <1>16 DEF Characters
<1>18. ASSUME NEW j \in 1..(i - 1) PROVE Characters(r, N)[j] = Characters(s, N)[j]
  <2>1. j \in 1..N /\ N - j \in least..N
    BY <1>1, <1>9, <1>16
  <2>2. r[N - j] = s[N - j]
    BY <1>11, <2>1
  <2> QED BY <2>1, <2>2 DEF Characters
<1>19. i \in DOMAIN Characters(r, N)
  BY <1>16 DEF Characters
<1> HIDE DEF i
<1>20. Precedes(Characters(r, N), Characters(s, N))
  BY <1>17, <1>18, <1>19 DEF Precedes
<1> QED BY <1>2, <1>3, <1>20

(* Of two texts of the alphabet, one alone comes first.                    *)
LEMMA OnePrecedes ==
  ASSUME NEW N \in Nat, NEW a \in [1..N -> Nat], NEW b \in [1..N -> Nat],
         Precedes(a, b), Precedes(b, a)
  PROVE  FALSE
<1>1. PICK i \in 1..N : a[i] < b[i] /\ \A j \in 1..(i - 1) : a[j] = b[j]
  BY DEF Precedes
<1>2. PICK k \in 1..N : b[k] < a[k] /\ \A j \in 1..(k - 1) : b[j] = a[j]
  BY DEF Precedes
<1>3. CASE i < k
  <2>1. i \in 1..(k - 1)
    BY <1>3
  <2> QED BY <1>1, <1>2, <2>1
<1>4. CASE k < i
  <2>1. k \in 1..(i - 1)
    BY <1>4
  <2> QED BY <1>1, <1>2, <2>1
<1>5. CASE i = k
  BY <1>1, <1>2, <1>5
<1> QED BY <1>3, <1>4, <1>5

(* Identifiers sort by their time.                                         *)
LEMMA TimesSort ==
  ASSUME NEW x \in Int, NEW y \in Int, timestampMs(x), timestampMs(y)
  PROVE  (x < y) = Precedes(encodeTimestamp(x), encodeTimestamp(y))
<1> DEFINE a == encodeTimestamp(x)
           b == encodeTimestamp(y)
<1>1. TIME_LEN \in Nat /\ a \in [1..TIME_LEN -> Nat] /\ b \in [1..TIME_LEN -> Nat]
  <2>1. a \in [1..TIME_LEN -> 0..(Alphabet - 1)] /\ b \in [1..TIME_LEN -> 0..(Alphabet - 1)]
    BY TimesAre
  <2>2. 0..(Alphabet - 1) \subseteq Nat
    BY AlphabetFacts
  <2> HIDE DEF a, b
  <2> QED BY <2>1, <2>2, UlidAssumption
<1>2. x < y => Precedes(a, b)
  BY LaterFollows
<1>3. Precedes(a, b) => x < y
  <2>1. ASSUME x = y, Precedes(a, b) PROVE FALSE
    <3>1. a = b
      BY <2>1
    <3> HIDE DEF a, b
    <3> QED BY <1>1, <2>1, <3>1, OnePrecedes
  <2>2. ASSUME y < x, Precedes(a, b) PROVE FALSE
    <3>1. Precedes(b, a)
      BY <2>2, LaterFollows
    <3> HIDE DEF a, b
    <3> QED BY <1>1, <2>2, <3>1, OnePrecedes
  <2> QED BY <2>1, <2>2
<1>4. Precedes(a, b) \in BOOLEAN
  BY DEF Precedes
<1> QED BY <1>2, <1>3, <1>4

-----------------------------------------------------------------------------
(* Random bytes.                                                           *)

(* The numbers that the first digits of a text make.                       *)
Numerals(digits, base, u) ==
  /\ u \in [0..Len(digits) -> Nat]
  /\ u[0] = 0
  /\ \A n \in 1..Len(digits) : u[n] = u[n - 1] * base + digits[n]

(* A text of digits is the last of those numbers.                          *)
LEMMA PositionalFacts ==
  ASSUME NEW digits \in Seq(Nat), NEW base \in Nat
  PROVE  \E u : Numerals(digits, base, u) /\ Positional(digits, base) = u[Len(digits)]
<1> DEFINE N == Len(digits)
           Eq(f) == f = [n \in 0..N |-> IF n = 0 THEN 0 ELSE f[n - 1] * base + digits[n]]
           chosen == CHOOSE f : Eq(f)
           step == [n \in 1..N |-> [v \in Nat |-> v * base + digits[n]]]
<1>1. Positional(digits, base) = chosen[N]
  BY DEF Positional
<1> HIDE DEF chosen
<1>2. N \in Nat /\ \A n \in 1..N : digits[n] \in Nat
  BY ElementOfSeq, LenProperties
<1>3. step \in [1..N -> [Nat -> Nat]]
  BY <1>2
<1>4. \A n \in 1..N : \A v \in Nat : step[n][v] = v * base + digits[n]
  OBVIOUS
<1> HIDE DEF step, N
<1>5. PICK u : StepsUpTo(N, Nat, 0, step, u)
  <2>1. 0 \in Nat
    OBVIOUS
  <2> QED BY <1>2, <1>3, <2>1, RecursionUpTo
<1>6. ASSUME NEW n \in 1..N PROVE u[n] = u[n - 1] * base + digits[n]
  <2>1. n - 1 \in 0..N
    BY <1>2
  <2>2. u[n] = step[n][u[n - 1]] /\ u[n - 1] \in Nat
    BY <1>5, <2>1 DEF StepsUpTo
  <2> QED BY <1>4, <2>2
<1>7. Eq(u)
  <2>1. u[0] = 0 /\ u = [n \in 0..N |-> u[n]]
    BY <1>5 DEF StepsUpTo
  <2>2. ASSUME NEW n \in 0..N
        PROVE  u[n] = IF n = 0 THEN 0 ELSE u[n - 1] * base + digits[n]
    <3>1. CASE n # 0
      <4>1. n \in 1..N
        BY <1>2, <3>1
      <4> QED BY <1>6, <3>1, <4>1
    <3> QED BY <2>1, <3>1
  <2> QED BY <2>1, <2>2
<1>8. Eq(chosen)
  <2> HIDE DEF Eq
  <2> QED BY <1>7 DEF chosen
<1> DEFINE S == {n \in Nat : n <= N => chosen[n] = u[n]}
<1>9. 0 \in S
  BY <1>2, <1>7, <1>8
<1>10. ASSUME NEW n \in Nat, n \in S PROVE n + 1 \in S
  <2> SUFFICES ASSUME n + 1 <= N PROVE chosen[n + 1] = u[n + 1]
    OBVIOUS
  <2>1. n + 1 \in 0..N /\ n + 1 # 0 /\ (n + 1) - 1 = n /\ chosen[n] = u[n]
    BY <1>2, <1>10
  <2>2. chosen[n + 1] = chosen[n] * base + digits[n + 1]
    BY <1>8, <2>1
  <2>3. u[n + 1] = u[n] * base + digits[n + 1]
    BY <1>7, <2>1
  <2> QED BY <2>1, <2>2, <2>3
<1> HIDE DEF S, Eq
<1>11. N \in S
  BY <1>2, <1>9, <1>10, Induct
<1>12. chosen[N] = u[N]
  BY <1>2, <1>11 DEF S
<1>13. Numerals(digits, base, u)
  BY <1>5, <1>6 DEF StepsUpTo, Numerals, N
<1> QED BY <1>1, <1>12, <1>13 DEF N

(* There is one number for each place.                                     *)
LEMMA NumeralsAgree ==
  ASSUME NEW digits, NEW others, NEW base, NEW u, NEW w, NEW N \in Nat,
         Numerals(digits, base, u), Numerals(others, base, w),
         N <= Len(digits), N <= Len(others), Len(digits) \in Nat, Len(others) \in Nat,
         \A n \in 1..N : digits[n] = others[n]
  PROVE  \A n \in 0..N : u[n] = w[n]
<1> DEFINE S == {n \in Nat : n <= N => u[n] = w[n]}
<1>1. 0 \in S
  BY DEF Numerals
<1>2. ASSUME NEW n \in Nat, n \in S PROVE n + 1 \in S
  <2> SUFFICES ASSUME n + 1 <= N PROVE u[n + 1] = w[n + 1]
    OBVIOUS
  <2>1. /\ n + 1 \in 1..N /\ n + 1 \in 1..Len(digits) /\ n + 1 \in 1..Len(others)
        /\ (n + 1) - 1 = n /\ u[n] = w[n]
    BY <1>2
  <2>2. u[n + 1] = u[n] * base + digits[n + 1]
    BY <2>1 DEF Numerals
  <2>3. w[n + 1] = w[n] * base + others[n + 1]
    BY <2>1 DEF Numerals
  <2> QED BY <2>1, <2>2, <2>3
<1> HIDE DEF S
<1>3. \A n \in Nat : n \in S
  BY <1>1, <1>2, Induct
<1> QED BY <1>3 DEF S

(* A digit more.                                                           *)
LEMMA DigitMore ==
  ASSUME NEW digits \in Seq(Nat), NEW base \in Nat, NEW d \in Nat
  PROVE  /\ Positional(digits, base) \in Nat
         /\ Positional(Append(digits, d), base) = Positional(digits, base) * base + d
<1> DEFINE more == Append(digits, d)
           N == Len(digits)
<1>1. more \in Seq(Nat) /\ Len(more) = N + 1 /\ N \in Nat
  BY AppendProperties, LenProperties
<1>2. (\A n \in 1..N : digits[n] = more[n]) /\ more[N + 1] = d
  BY AppendProperties
<1> HIDE DEF more
<1>3. PICK u : Numerals(digits, base, u) /\ Positional(digits, base) = u[N]
  BY PositionalFacts
<1>4. PICK w : Numerals(more, base, w) /\ Positional(more, base) = w[Len(more)]
  BY <1>1, PositionalFacts
<1>5. u[N] \in Nat
  <2>1. N \in 0..N
    BY <1>1
  <2>2. u \in [0..N -> Nat]
    BY <1>3 DEF Numerals
  <2> QED BY <2>1, <2>2
<1> HIDE DEF N
<1>6. \A n \in 0..N : u[n] = w[n]
  <2>1. N <= Len(digits) /\ N <= Len(more) /\ Len(digits) \in Nat /\ Len(more) \in Nat
    BY <1>1 DEF N
  <2> QED BY <1>1, <1>2, <1>3, <1>4, <2>1, NumeralsAgree, SMTT(20)
<1>7. w[N + 1] = w[N] * base + d
  <2>1. N + 1 \in 1..Len(more) /\ (N + 1) - 1 = N
    BY <1>1
  <2> QED BY <1>2, <1>4, <2>1 DEF Numerals
<1>8. w[N] = u[N]
  BY <1>1, <1>6
<1> QED BY <1>1, <1>3, <1>4, <1>5, <1>7, <1>8 DEF more

(* What is written in characters is read back.                             *)
LEMMA ReadBack ==
  ASSUME NEW out \in Seq(0..(Alphabet - 1))
  PROVE  encodeBase32(Positional(out, Alphabet), Len(out)) = out
<1> DEFINE N == Len(out)
           value == Positional(out, Alphabet)
<1>1. /\ out \in Seq(Nat) /\ N \in Nat /\ out = [i \in 1..N |-> out[i]]
      /\ \A i \in 1..N : out[i] \in 0..(Alphabet - 1)
  <2>1. 0..(Alphabet - 1) \subseteq Nat
    BY AlphabetFacts
  <2>2. N \in Nat /\ \A i \in 1..N : out[i] \in 0..(Alphabet - 1)
    BY ElementOfSeq, LenProperties
  <2>3. out = [i \in 1..N |-> out[i]]
    BY LenProperties
  <2>4. out \in Seq(Nat)
    BY <2>1, <2>2, <2>3
  <2> QED BY <2>2, <2>3, <2>4
<1>2. PICK u : Numerals(out, Alphabet, u) /\ value = u[N]
  BY <1>1, AlphabetFacts, PositionalFacts
<1>3. value \in Nat
  BY <1>1, <1>2 DEF Numerals
<1> HIDE DEF value, N
<1>4. PICK r : /\ Quotients(value, N, r)
               /\ r[N] = 0 => encodeBase32(value, N) = Characters(r, N)
  BY <1>1, <1>3, Base32Facts
<1>5. ASSUME NEW i \in 1..N
      PROVE  u[i] \div Alphabet = u[i - 1] /\ u[i] % Alphabet = out[i]
  <2>1. u[i] = u[i - 1] * Alphabet + out[i] /\ i - 1 \in 0..N
    BY <1>1, <1>2 DEF Numerals, N
  <2>2. u[i - 1] \in Nat /\ out[i] \in 0..(Alphabet - 1)
    BY <1>1, <1>2, <2>1 DEF Numerals, N
  <2> DEFINE q == u[i - 1]
             d == out[i]
  <2>3. q \in Nat /\ d \in 0..(Alphabet - 1) /\ Alphabet \in Nat /\ u[i] = q * Alphabet + d
    BY <2>1, <2>2, AlphabetFacts
  <2> HIDE DEF q, d
  <2>4. (q * Alphabet + d) \div Alphabet = q /\ (q * Alphabet + d) % Alphabet = d
    BY <2>3, PutTogether
  <2>5. u[i] \div Alphabet = q /\ u[i] % Alphabet = d
    BY <2>3, <2>4
  <2> QED BY <2>5 DEF q, d
<1> DEFINE S == {n \in Nat : n <= N => r[n] = u[N - n]}
<1>6. 0 \in S
  BY <1>1, <1>2, <1>4 DEF Quotients, IsDivided
<1>7. ASSUME NEW n \in Nat, n \in S PROVE n + 1 \in S
  <2> SUFFICES ASSUME n + 1 <= N PROVE r[n + 1] = u[N - (n + 1)]
    OBVIOUS
  <2>1. /\ n + 1 \in 1..N /\ (n + 1) - 1 = n /\ r[n] = u[N - n]
        /\ N - n \in 1..N /\ (N - n) - 1 = N - (n + 1)
    BY <1>1, <1>7
  <2>2. r[n + 1] = r[n] \div Alphabet
    BY <1>4, <2>1 DEF Quotients, IsDivided
  <2>3. u[N - n] \div Alphabet = u[(N - n) - 1]
    BY <1>5, <2>1
  <2> QED BY <2>1, <2>2, <2>3
<1> HIDE DEF S
<1>8. \A n \in Nat : n \in S
  BY <1>6, <1>7, Induct
<1>9. r[N] = 0
  <2>1. N - N = 0 /\ r[N] = u[N - N] /\ u[0] = 0
    BY <1>1, <1>2, <1>8 DEF S, Numerals
  <2> QED BY <2>1
<1>10. ASSUME NEW i \in 1..N PROVE r[N - i] % Alphabet = out[i]
  <2>1. N - i \in Nat /\ N - i <= N /\ N - (N - i) = i
    BY <1>1
  <2>2. r[N - i] = u[i]
    BY <1>8, <2>1 DEF S
  <2> QED BY <1>5, <2>2
<1>11. Characters(r, N) = out
  BY <1>1, <1>10 DEF Characters
<1> QED BY <1>4, <1>9, <1>11 DEF value, N

-----------------------------------------------------------------------------
(* The bit reader.                                                         *)

(* A reader: complete characters, and the bits that make none yet.         *)
Readers ==
  {r \in [out : Seq(0..(Alphabet - 1)), buffer : Nat, bits : Nat] : r.buffer < Pow2[r.bits]}

(* How many bits it has read, and the number they make.                    *)
BitsRead(r) == Len(r.out) * CHAR_BITS + r.bits

NumberRead(r) == Positional(r.out, Alphabet) * Pow2[r.bits] + r.buffer

(* What a reader is made of.                                               *)
LEMMA ReaderFacts ==
  ASSUME NEW r \in Readers
  PROVE  /\ r = [out |-> r.out, buffer |-> r.buffer, bits |-> r.bits]
         /\ r.out \in Seq(0..(Alphabet - 1)) /\ r.out \in Seq(Nat)
         /\ r.buffer \in Nat /\ r.bits \in Nat /\ r.buffer < Pow2[r.bits]
         /\ Len(r.out) \in Nat /\ Positional(r.out, Alphabet) \in Nat
<1>1. /\ r = [out |-> r.out, buffer |-> r.buffer, bits |-> r.bits]
      /\ r.out \in Seq(0..(Alphabet - 1))
      /\ r.buffer \in Nat /\ r.bits \in Nat /\ r.buffer < Pow2[r.bits]
  BY DEF Readers
<1> DEFINE out == r.out
<1>2. out \in Seq(0..(Alphabet - 1))
  BY <1>1
<1> HIDE DEF out
<1>3. out \in Seq(Nat) /\ Len(out) \in Nat
  <2>1. 0..(Alphabet - 1) \subseteq Nat
    BY AlphabetFacts
  <2>2. Len(out) \in Nat /\ \A i \in 1..Len(out) : out[i] \in 0..(Alphabet - 1)
    BY <1>2, ElementOfSeq, LenProperties
  <2>3. out = [i \in 1..Len(out) |-> out[i]]
    BY <1>2, LenProperties
  <2>4. out \in Seq(Nat)
    BY <2>1, <2>2, <2>3
  <2> QED BY <2>2, <2>4
<1>4. Positional(out, Alphabet) \in Nat
  BY <1>3, AlphabetFacts, DigitMore
<1> QED BY <1>1, <1>3, <1>4 DEF out

(* Taking a character loses nothing.                                       *)
LEMMA TakenKeeps ==
  ASSUME NEW r \in Readers, r.bits >= CHAR_BITS
  PROVE  /\ Taken(r) \in Readers
         /\ Taken(r).bits = r.bits - CHAR_BITS
         /\ BitsRead(Taken(r)) = BitsRead(r)
         /\ NumberRead(Taken(r)) = NumberRead(r)
<1> DEFINE left == r.bits - CHAR_BITS
           p == Pow2[left]
           b == r.buffer
           A == Alphabet
           c == (b \div p) % A
           out == r.out
           v == Positional(out, A)
<1>1. /\ CHAR_BITS \in Nat /\ left \in Nat /\ r.bits = left + CHAR_BITS
      /\ out \in Seq(0..(A - 1)) /\ out \in Seq(Nat) /\ b \in Nat /\ b < Pow2[r.bits]
      /\ Len(out) \in Nat /\ v \in Nat
  BY ReaderFacts, UlidAssumption
<1>2. A \in Nat /\ A > 0 /\ p \in Nat /\ p > 0 /\ Pow2[r.bits] = p * A
  <2> HIDE DEF left
  <2>1. Pow2[left + CHAR_BITS] = Pow2[left] * Pow2[CHAR_BITS]
    BY <1>1, PowerOfSum
  <2> QED BY <1>1, <2>1, AlphabetFacts, PowerFacts DEF Alphabet
<1>3. Taken(r) = [out |-> Append(out, c), buffer |-> b % p, bits |-> left]
  BY DEF Taken
<1>4. /\ Taken(r).out = Append(out, c) /\ Taken(r).buffer = b % p /\ Taken(r).bits = left
  BY <1>3
<1> DEFINE rest == b % p
           q == b \div p
<1>5. q \in Nat /\ rest \in 0..(p - 1) /\ b = q * p + rest
  <2> HIDE DEF b, p
  <2> QED BY <1>1, <1>2, Dividing DEF b, p
<1>6. q < A
  <2>1. b < p * A
    BY <1>1, <1>2
  <2> HIDE DEF b, p, q, rest, A
  <2>2. q * p < p * A
    <3>1. q * p <= b
      BY <1>1, <1>2, <1>5
    <3>2. q * p \in Nat /\ p * A \in Nat
      BY <1>2, <1>5
    <3> QED BY <1>1, <2>1, <3>1, <3>2
  <2>3. q >= A => q * p >= p * A
    BY <1>2, <1>5
  <2>4. q * p \in Nat /\ p * A \in Nat
    BY <1>2, <1>5
  <2> QED BY <1>2, <1>5, <2>2, <2>3, <2>4
<1>7. c = q /\ c \in 0..(A - 1) /\ c \in Nat
  <2>1. q % A = q
    <3> HIDE DEF q, A
    <3> QED BY <1>2, <1>5, <1>6
  <2>2. c = q % A
    OBVIOUS
  <2> HIDE DEF c, q, A
  <2> QED BY <1>2, <1>5, <1>6, <2>1, <2>2
<1>8. /\ Append(out, c) \in Seq(0..(A - 1)) /\ Len(Append(out, c)) = Len(out) + 1
      /\ Positional(Append(out, c), A) = v * A + c
  <2> HIDE DEF out, c, A
  <2>1. Append(out, c) \in Seq(0..(A - 1)) /\ Len(Append(out, c)) = Len(out) + 1
    BY <1>1, <1>7, AppendProperties
  <2>2. Positional(Append(out, c), A) = Positional(out, A) * A + c
    BY <1>1, <1>2, <1>7, DigitMore
  <2> QED BY <2>1, <2>2
<1>9. Taken(r) \in Readers
  <2> HIDE DEF left, p, rest, out, c
  <2>1. rest \in Nat /\ rest < Pow2[left]
    BY <1>2, <1>5 DEF p
  <2>2. Taken(r) = [out |-> Append(out, c), buffer |-> rest, bits |-> left]
    BY <1>3 DEF rest
  <2> QED BY <1>1, <1>8, <2>1, <2>2 DEF Readers
<1>10. BitsRead(Taken(r)) = BitsRead(r)
  <2>1. BitsRead(Taken(r)) = Len(Append(out, c)) * CHAR_BITS + left
    BY <1>4 DEF BitsRead
  <2>2. BitsRead(r) = Len(out) * CHAR_BITS + r.bits
    BY DEF BitsRead
  <2> DEFINE n == Len(out)
  <2> HIDE DEF left, out, c, n
  <2>3. (n + 1) * CHAR_BITS + left = n * CHAR_BITS + (left + CHAR_BITS)
    BY <1>1 DEF n
  <2> QED BY <1>1, <1>8, <2>1, <2>2, <2>3 DEF n
<1>11. NumberRead(Taken(r)) = NumberRead(r)
  <2>1. NumberRead(Taken(r)) = (v * A + c) * p + rest
    BY <1>4, <1>8 DEF NumberRead
  <2>2. NumberRead(r) = v * (p * A) + b
    BY <1>2 DEF NumberRead
  <2> HIDE DEF v, A, c, p, rest, b, q
  <2>3. (v * A + q) * p + rest = v * (p * A) + (q * p + rest)
    <3>1. rest \in Nat
      BY <1>2, <1>5
    <3>2. (v * A + q) * p = (v * A) * p + q * p
      BY <1>1, <1>2, <1>5
    <3>3. (v * A) * p = v * (p * A)
      BY <1>1, <1>2
    <3>4. q * p \in Nat /\ v * (p * A) \in Nat
      BY <1>1, <1>2, <1>5
    <3> QED BY <3>1, <3>2, <3>3, <3>4
  <2> QED BY <1>5, <1>7, <2>1, <2>2, <2>3
<1> QED BY <1>4, <1>9, <1>10, <1>11

(* A byte in the buffer is read.                                           *)
LEMMA BufferedReads ==
  ASSUME NEW r \in Readers, NEW byte \in 0..(Pow2[BYTE_BITS] - 1)
  PROVE  /\ Buffered(r, byte) \in Readers
         /\ BitsRead(Buffered(r, byte)) = BitsRead(r) + BYTE_BITS
         /\ NumberRead(Buffered(r, byte)) = NumberRead(r) * Pow2[BYTE_BITS] + byte
<1> DEFINE k == r.bits
           p == Pow2[k]
           B == Pow2[BYTE_BITS]
           b == r.buffer
           out == r.out
           v == Positional(out, Alphabet)
           n == Len(out)
           next == Buffered(r, byte)
<1>1. /\ BYTE_BITS \in Nat /\ CHAR_BITS \in Nat /\ k \in Nat
      /\ out \in Seq(0..(Alphabet - 1)) /\ b \in Nat /\ b < p /\ n \in Nat /\ v \in Nat
  BY ReaderFacts, UlidAssumption
<1>2. B \in Nat /\ p \in Nat /\ Pow2[k + BYTE_BITS] = p * B
  BY <1>1, PowerFacts, PowerOfSum
<1>3. next = [out |-> out, buffer |-> b * B + byte, bits |-> k + BYTE_BITS]
  BY DEF Buffered
<1>4. next.out = out /\ next.buffer = b * B + byte /\ next.bits = k + BYTE_BITS
  BY <1>3
<1>5. byte \in Nat /\ byte < B
  <2> HIDE DEF B
  <2>1. byte \in 0..(B - 1)
    BY DEF B
  <2> QED BY <1>2, <2>1
<1>6. b * B + byte \in Nat /\ b * B + byte < p * B
  <2> HIDE DEF b, B, p
  <2>1. (b + 1) * B <= p * B
    BY <1>1, <1>2
  <2>2. (b + 1) * B = b * B + B
    BY <1>1, <1>2
  <2>3. b * B \in Nat /\ p * B \in Nat
    BY <1>1, <1>2
  <2> QED BY <1>2, <1>5, <2>1, <2>2, <2>3
<1>7. next \in Readers
  <2> DEFINE m == k + BYTE_BITS
             buffer == b * B + byte
  <2>1. m \in Nat /\ buffer \in Nat /\ buffer < Pow2[m]
    BY <1>1, <1>2, <1>6
  <2>2. next = [out |-> out, buffer |-> buffer, bits |-> m]
    BY <1>3
  <2> HIDE DEF m, buffer, out, next
  <2> QED BY <1>1, <2>1, <2>2 DEF Readers
<1>8. BitsRead(next) = BitsRead(r) + BYTE_BITS
  <2>1. BitsRead(next) = n * CHAR_BITS + (k + BYTE_BITS) /\ BitsRead(r) = n * CHAR_BITS + k
    BY <1>4 DEF BitsRead
  <2> HIDE DEF n, k, next
  <2>2. n * CHAR_BITS \in Nat
    BY <1>1
  <2> QED BY <1>1, <2>1, <2>2
<1>9. NumberRead(next) = NumberRead(r) * B + byte
  <2>1. NumberRead(next) = v * (p * B) + (b * B + byte) /\ NumberRead(r) = v * p + b
    BY <1>2, <1>4 DEF NumberRead
  <2> HIDE DEF v, p, B, b, next
  <2>2. (v * p + b) * B = (v * p) * B + b * B
    BY <1>1, <1>2
  <2>3. (v * p) * B = v * (p * B)
    BY <1>1, <1>2
  <2>4. v * (p * B) \in Nat /\ b * B \in Nat
    BY <1>1, <1>2
  <2> QED BY <1>5, <2>1, <2>2, <2>3, <2>4
<1> QED BY <1>7, <1>8, <1>9

(* A reader that has been drained has no bits left for a character.        *)
LEMMA DrainedKeeps ==
  ASSUME NEW r \in Readers
  PROVE  /\ Drained(r) \in Readers
         /\ Drained(r).bits < CHAR_BITS
         /\ BitsRead(Drained(r)) = BitsRead(r)
         /\ NumberRead(Drained(r)) = NumberRead(r)
<1> DEFINE N == r.bits \div CHAR_BITS
           Eq(f) == f = [n \in 0..N |-> IF n = 0 THEN r ELSE Taken(f[n - 1])]
           chosen == CHOOSE f : Eq(f)
           step == [n \in 1..N |->
                     [v \in Readers |-> IF v.bits >= CHAR_BITS THEN Taken(v) ELSE v]]
           Kept(n, v) == /\ v \in Readers
                         /\ v.bits = r.bits - n * CHAR_BITS
                         /\ BitsRead(v) = BitsRead(r)
                         /\ NumberRead(v) = NumberRead(r)
<1>1. Drained(r) = chosen[N]
  BY DEF Drained
<1> HIDE DEF chosen
<1>2. /\ CHAR_BITS \in Nat /\ CHAR_BITS > 0 /\ r.bits \in Nat
      /\ N \in Nat /\ N * CHAR_BITS <= r.bits /\ r.bits - N * CHAR_BITS < CHAR_BITS
  <2> DEFINE b == r.bits
             C == CHAR_BITS
  <2>1. C \in Nat /\ C > 0 /\ b \in Nat
    BY ReaderFacts, UlidAssumption
  <2> HIDE DEF b, C
  <2> DEFINE q == b \div C
             s == b % C
  <2>2. q \in Nat /\ s \in 0..(C - 1) /\ b = q * C + s
    BY <2>1, Dividing
  <2> HIDE DEF q, s
  <2>3. q * C \in Nat
    BY <2>1, <2>2
  <2>4. q * C <= b /\ b - q * C < C
    BY <2>1, <2>2, <2>3
  <2> QED BY <2>1, <2>2, <2>4 DEF q, b, C
<1> HIDE DEF N
<1>3. \A n \in 1..N : \A v \in Readers :
        step[n][v] = IF v.bits >= CHAR_BITS THEN Taken(v) ELSE v
  OBVIOUS
<1>4. step \in [1..N -> [Readers -> Readers]]
  <2>1. \A v \in Readers : (IF v.bits >= CHAR_BITS THEN Taken(v) ELSE v) \in Readers
    BY TakenKeeps
  <2> QED BY <2>1
<1> HIDE DEF step
<1>5. PICK f : StepsUpTo(N, Readers, r, step, f)
  BY <1>2, <1>4, RecursionUpTo
<1>6. ASSUME NEW n \in Nat, n + 1 <= N, NEW v, Kept(n, v)
      PROVE  v.bits >= CHAR_BITS /\ Kept(n + 1, Taken(v))
  <2>1. v \in Readers /\ v.bits = r.bits - n * CHAR_BITS
    BY <1>6
  <2>2. n * CHAR_BITS \in Nat /\ (n + 1) * CHAR_BITS = n * CHAR_BITS + CHAR_BITS
    BY <1>2
  <2>3. (n + 1) * CHAR_BITS <= N * CHAR_BITS
    BY <1>2, <1>6
  <2>4. N * CHAR_BITS \in Nat
    BY <1>2
  <2>5. v.bits >= CHAR_BITS
    BY <1>2, <2>1, <2>2, <2>3, <2>4
  <2>6. r.bits - n * CHAR_BITS - CHAR_BITS = r.bits - (n + 1) * CHAR_BITS
    BY <1>2, <2>2
  <2>7. /\ Taken(v) \in Readers /\ Taken(v).bits = v.bits - CHAR_BITS
        /\ BitsRead(Taken(v)) = BitsRead(v) /\ NumberRead(Taken(v)) = NumberRead(v)
    BY <2>1, <2>5, TakenKeeps
  <2> QED BY <1>6, <2>1, <2>5, <2>6, <2>7
<1>7. Kept(0, r)
  BY <1>2
<1> HIDE DEF Kept
<1> DEFINE F == {n \in Nat : n <= N => Kept(n, f[n])}
<1>8. \A n \in Nat : n \in F
  <2>1. 0 \in F
    BY <1>5, <1>7 DEF StepsUpTo
  <2>2. ASSUME NEW n \in Nat, n \in F PROVE n + 1 \in F
    <3> SUFFICES ASSUME n + 1 <= N PROVE Kept(n + 1, f[n + 1])
      OBVIOUS
    <3>1. n + 1 \in 1..N /\ n \in 0..N /\ (n + 1) - 1 = n /\ Kept(n, f[n])
      BY <1>2, <2>2
    <3>2. f[n + 1] = step[n + 1][f[n]] /\ f[n] \in Readers
      BY <1>5, <3>1 DEF StepsUpTo
    <3>3. f[n].bits >= CHAR_BITS /\ Kept(n + 1, Taken(f[n]))
      BY <1>6, <3>1
    <3>4. f[n + 1] = Taken(f[n])
      BY <1>3, <3>1, <3>2, <3>3
    <3> QED BY <3>3, <3>4
  <2> HIDE DEF F
  <2> QED BY <2>1, <2>2, Induct
<1>9. Eq(f)
  <2>1. f[0] = r /\ f = [n \in 0..N |-> f[n]]
    BY <1>5 DEF StepsUpTo
  <2>2. ASSUME NEW n \in 0..N, n # 0 PROVE f[n] = Taken(f[n - 1])
    <3>1. n \in 1..N /\ n - 1 \in Nat /\ (n - 1) + 1 = n /\ n - 1 \in 0..N /\ n - 1 <= N
      BY <1>2, <2>2
    <3>2. f[n] = step[n][f[n - 1]] /\ f[n - 1] \in Readers
      BY <1>5, <3>1 DEF StepsUpTo
    <3>3. f[n - 1].bits >= CHAR_BITS
      <4>1. Kept(n - 1, f[n - 1])
        BY <1>8, <3>1
      <4>2. (n - 1) + 1 <= N
        BY <1>2, <3>1
      <4> QED BY <1>6, <3>1, <4>1, <4>2
    <3> QED BY <1>3, <3>1, <3>2, <3>3
  <2>3. ASSUME NEW n \in 0..N PROVE f[n] = IF n = 0 THEN r ELSE Taken(f[n - 1])
    BY <2>1, <2>2
  <2> QED BY <2>1, <2>3
<1>10. Eq(chosen)
  <2> HIDE DEF Eq
  <2> QED BY <1>9 DEF chosen
<1> DEFINE S == {n \in Nat : n <= N => Kept(n, chosen[n])}
<1>11. 0 \in S
  BY <1>2, <1>7, <1>10
<1>12. ASSUME NEW n \in Nat, n \in S PROVE n + 1 \in S
  <2> SUFFICES ASSUME n + 1 <= N PROVE Kept(n + 1, chosen[n + 1])
    OBVIOUS
  <2>1. n + 1 \in 0..N /\ n + 1 # 0 /\ (n + 1) - 1 = n /\ Kept(n, chosen[n])
    BY <1>2, <1>12
  <2>2. chosen[n + 1] = Taken(chosen[n])
    BY <1>10, <2>1
  <2> QED BY <1>6, <2>1, <2>2
<1> HIDE DEF S, Eq
<1>13. N \in S
  BY <1>2, <1>11, <1>12, Induct
<1>14. Kept(N, chosen[N])
  BY <1>2, <1>13 DEF S
<1> QED BY <1>1, <1>2, <1>14 DEF Kept

(* Random bytes.                                                           *)
IsRandom(bytes) == bytes \in Seq(0..(Pow2[BYTE_BITS] - 1)) /\ Len(bytes) = RAND_BYTES

(* What has been read after a byte.                                        *)
ReadSoFar(bytes, u, n, r) ==
  /\ r \in Readers /\ r.bits < CHAR_BITS
  /\ BitsRead(r) = n * BYTE_BITS
  /\ NumberRead(r) = u[n]

(* A reader that has read nothing.                                         *)
LEMMA NothingRead ==
  /\ NoBits \in Readers /\ NoBits.bits < CHAR_BITS
  /\ BitsRead(NoBits) = 0 /\ NumberRead(NoBits) = 0
<1>1. NoBits.out = <<>> /\ NoBits.buffer = 0 /\ NoBits.bits = 0
  BY DEF NoBits
<1>2. <<>> \in Seq(0..(Alphabet - 1)) /\ <<>> \in Seq(Nat) /\ Len(<<>>) = 0
  BY EmptySeq
<1>3. NoBits \in Readers
  BY <1>2, PowerFacts DEF NoBits, Readers
<1>4. Positional(<<>>, Alphabet) = 0
  <2>1. PICK u : Numerals(<<>>, Alphabet, u) /\ Positional(<<>>, Alphabet) = u[Len(<<>>)]
    BY <1>2, AlphabetFacts, PositionalFacts
  <2> QED BY <1>2, <2>1 DEF Numerals
<1>5. BitsRead(NoBits) = 0
  BY <1>1, <1>2, UlidAssumption DEF BitsRead
<1>6. NumberRead(NoBits) = 0
  BY <1>1, <1>4, PowerFacts DEF NumberRead
<1> QED BY <1>1, <1>3, <1>5, <1>6, UlidAssumption

(* All bits of the random bytes become characters, and those make the      *)
(* number the bytes make.                                                  *)
LEMMA RandomnessFacts ==
  ASSUME NEW bytes, IsRandom(bytes)
  PROVE  /\ encodeRandomness(bytes) \in Seq(0..(Alphabet - 1))
         /\ Len(encodeRandomness(bytes)) = RAND_LEN
         /\ Positional(encodeRandomness(bytes), Alphabet) = FromBytes(bytes)
<1> DEFINE N == RAND_BYTES
           B == Pow2[BYTE_BITS]
           Eq(f) == f = [n \in 0..N |-> IF n = 0 THEN NoBits
                                        ELSE Drained(Buffered(f[n - 1], bytes[n]))]
           chosen == CHOOSE f : Eq(f)
           step == [n \in 1..N |-> [v \in Readers |-> Drained(Buffered(v, bytes[n]))]]
<1>1. /\ N \in Nat /\ Len(bytes) = N /\ B \in Nat /\ B > 0
      /\ BYTE_BITS \in Nat /\ CHAR_BITS \in Nat /\ CHAR_BITS > 0 /\ RAND_LEN \in Nat
      /\ BYTE_BITS * N = CHAR_BITS * RAND_LEN
  BY UlidAssumption, PowerFacts DEF IsRandom
<1>2. /\ \A n \in 1..N : bytes[n] \in 0..(B - 1)
      /\ bytes \in Seq(Nat)
  <2>1. \A n \in 1..N : bytes[n] \in 0..(B - 1)
    BY <1>1, ElementOfSeq, LenProperties DEF IsRandom
  <2>2. 0..(B - 1) \subseteq Nat
    BY <1>1
  <2>3. bytes = [n \in 1..N |-> bytes[n]]
    BY <1>1, LenProperties DEF IsRandom
  <2> HIDE DEF B, N
  <2>4. bytes \in Seq(Nat)
    BY <1>1, <2>1, <2>2, <2>3
  <2> QED BY <2>1, <2>4
<1>3. encodeRandomness(bytes) = chosen[N].out
  BY <1>1 DEF encodeRandomness
<1> HIDE DEF chosen, N, B
<1>4. PICK u : Numerals(bytes, B, u) /\ FromBytes(bytes) = u[Len(bytes)]
  BY <1>1, <1>2, PositionalFacts DEF FromBytes, B
<1>5. /\ u[0] = 0 /\ \A n \in 1..N : u[n] = u[n - 1] * B + bytes[n]
  BY <1>1, <1>4 DEF Numerals
<1>6. ASSUME NEW n \in 1..N, NEW v \in Readers
      PROVE  /\ Drained(Buffered(v, bytes[n])) \in Readers
             /\ Drained(Buffered(v, bytes[n])).bits < CHAR_BITS
             /\ BitsRead(Drained(Buffered(v, bytes[n]))) = BitsRead(v) + BYTE_BITS
             /\ NumberRead(Drained(Buffered(v, bytes[n]))) = NumberRead(v) * B + bytes[n]
  <2> DEFINE byte == bytes[n]
             w == Buffered(v, byte)
  <2>1. byte \in 0..(Pow2[BYTE_BITS] - 1)
    BY <1>2 DEF B
  <2> HIDE DEF byte
  <2>2. /\ w \in Readers /\ BitsRead(w) = BitsRead(v) + BYTE_BITS
        /\ NumberRead(w) = NumberRead(v) * B + byte
    BY <2>1, BufferedReads DEF B
  <2> HIDE DEF w
  <2>3. /\ Drained(w) \in Readers /\ Drained(w).bits < CHAR_BITS
        /\ BitsRead(Drained(w)) = BitsRead(w) /\ NumberRead(Drained(w)) = NumberRead(w)
    BY <2>2, DrainedKeeps
  <2> QED BY <2>2, <2>3 DEF w, byte
<1>7. step \in [1..N -> [Readers -> Readers]]
  BY <1>6
<1>8. \A n \in 1..N : \A v \in Readers : step[n][v] = Drained(Buffered(v, bytes[n]))
  OBVIOUS
<1> HIDE DEF step
<1>9. PICK f : StepsUpTo(N, Readers, NoBits, step, f)
  BY <1>1, <1>7, NothingRead, RecursionUpTo
<1>10. Eq(f)
  <2>1. f[0] = NoBits /\ f = [n \in 0..N |-> f[n]]
    BY <1>9 DEF StepsUpTo
  <2>2. ASSUME NEW n \in 0..N, n # 0 PROVE f[n] = Drained(Buffered(f[n - 1], bytes[n]))
    <3>1. n \in 1..N /\ n - 1 \in 0..N
      BY <1>1, <2>2
    <3> QED BY <1>8, <1>9, <3>1 DEF StepsUpTo
  <2>3. ASSUME NEW n \in 0..N
        PROVE  f[n] = IF n = 0 THEN NoBits ELSE Drained(Buffered(f[n - 1], bytes[n]))
    BY <2>1, <2>2
  <2> QED BY <2>1, <2>3
<1>11. Eq(chosen)
  <2> HIDE DEF Eq
  <2> QED BY <1>10 DEF chosen
<1> DEFINE S == {n \in Nat : n <= N => ReadSoFar(bytes, u, n, chosen[n])}
<1>12. 0 \in S
  <2>1. chosen[0] = NoBits
    BY <1>1, <1>11
  <2>2. 0 * BYTE_BITS = 0
    BY <1>1
  <2> HIDE DEF Eq
  <2> QED BY <1>5, <2>1, <2>2, NothingRead DEF ReadSoFar
<1>13. ASSUME NEW n \in Nat, n \in S PROVE n + 1 \in S
  <2> SUFFICES ASSUME n + 1 <= N PROVE ReadSoFar(bytes, u, n + 1, chosen[n + 1])
    OBVIOUS
  <2>1. /\ n + 1 \in 0..N /\ n + 1 \in 1..N /\ n + 1 # 0 /\ (n + 1) - 1 = n
        /\ ReadSoFar(bytes, u, n, chosen[n])
    BY <1>1, <1>13
  <2>2. chosen[n + 1] = Drained(Buffered(chosen[n], bytes[n + 1]))
    BY <1>11, <2>1
  <2> HIDE DEF Eq, S
  <2>3. /\ chosen[n] \in Readers /\ BitsRead(chosen[n]) = n * BYTE_BITS
        /\ NumberRead(chosen[n]) = u[n]
    BY <2>1 DEF ReadSoFar
  <2>4. /\ chosen[n + 1] \in Readers /\ chosen[n + 1].bits < CHAR_BITS
        /\ BitsRead(chosen[n + 1]) = n * BYTE_BITS + BYTE_BITS
        /\ NumberRead(chosen[n + 1]) = u[n] * B + bytes[n + 1]
    BY <1>6, <2>1, <2>2, <2>3
  <2>5. n * BYTE_BITS + BYTE_BITS = (n + 1) * BYTE_BITS
    BY <1>1
  <2>6. u[n + 1] = u[n] * B + bytes[n + 1]
    BY <1>5, <2>1
  <2> QED BY <2>4, <2>5, <2>6 DEF ReadSoFar
<1> HIDE DEF S, Eq
<1>14. N \in S
  BY <1>1, <1>12, <1>13, Induct
<1> DEFINE r == chosen[N]
           n == Len(r.out)
<1>15. /\ r \in Readers /\ r.bits < CHAR_BITS
       /\ n * CHAR_BITS + r.bits = N * BYTE_BITS
       /\ NumberRead(r) = u[N]
  BY <1>1, <1>14 DEF S, ReadSoFar, BitsRead
<1> HIDE DEF r
<1>16. /\ r.out \in Seq(0..(Alphabet - 1)) /\ r.buffer \in Nat /\ r.bits \in Nat
       /\ r.buffer < Pow2[r.bits] /\ n \in Nat /\ Positional(r.out, Alphabet) \in Nat
  BY <1>15, ReaderFacts
<1>17. n = RAND_LEN /\ r.bits = 0
  <2> DEFINE s == r.bits
             C == CHAR_BITS
             L == RAND_LEN
  <2>1. n \in Nat /\ L \in Nat /\ C \in Nat /\ C > 0 /\ s \in Nat /\ s < C
    BY <1>1, <1>15, <1>16
  <2>2. n * C + s = L * C
    <3>1. N * BYTE_BITS = BYTE_BITS * N /\ CHAR_BITS * RAND_LEN = RAND_LEN * CHAR_BITS
      BY <1>1
    <3> QED BY <1>1, <1>15, <3>1
  <2> HIDE DEF s, C, L, n
  <2>3. n * C \in Nat /\ L * C \in Nat
    BY <2>1
  <2>4. ~(n < L)
    <3> SUFFICES ASSUME n < L PROVE FALSE
      OBVIOUS
    <3>1. (n + 1) * C <= L * C /\ (n + 1) * C = n * C + C
      BY <2>1
    <3> QED BY <2>1, <2>2, <2>3, <3>1
  <2>5. ~(L < n)
    <3> SUFFICES ASSUME L < n PROVE FALSE
      OBVIOUS
    <3>1. (L + 1) * C <= n * C /\ (L + 1) * C = L * C + C
      BY <2>1
    <3> QED BY <2>1, <2>2, <2>3, <3>1
  <2>6. n = L
    BY <2>1, <2>4, <2>5
  <2>7. s = 0
    BY <2>1, <2>2, <2>3, <2>6
  <2> QED BY <2>6, <2>7 DEF s, L
<1>18. Positional(r.out, Alphabet) = u[N]
  <2>1. r.buffer = 0
    <3>1. Pow2[r.bits] = 1
      BY <1>17, PowerFacts
    <3>2. r.buffer < 1 /\ r.buffer \in Nat
      BY <1>16, <3>1
    <3> QED BY <3>2
  <2>2. NumberRead(r) = Positional(r.out, Alphabet) * 1 + 0
    BY <1>17, <2>1, PowerFacts DEF NumberRead
  <2> QED BY <1>15, <1>16, <2>2
<1>19. encodeRandomness(bytes) = r.out
  BY <1>3 DEF r
<1> QED BY <1>1, <1>4, <1>16, <1>17, <1>18, <1>19

-----------------------------------------------------------------------------
(* Identifiers.                                                            *)

(* The two SDKs make the same identifier of a time and of random bytes,    *)
(* and it has the form of one.                                             *)
LEMMA IdentifiersAgree ==
  ASSUME NEW ms \in Int, timestampMs(ms), NEW bytes, IsRandom(bytes)
  PROVE  isUlid(generateUlid(ms, bytes)) /\ generateUlid(ms, bytes) = pyGenerateUlid(ms, bytes)
<1> DEFINE a == encodeTimestamp(ms)
           b == encodeRandomness(bytes)
           Chars == 0..(Alphabet - 1)
<1>1. a \in Seq(Chars) /\ Len(a) = TIME_LEN /\ TIME_LEN \in Nat
  <2>1. a \in [1..TIME_LEN -> Chars] /\ TIME_LEN \in Nat
    BY TimesAre, UlidAssumption
  <2> HIDE DEF a, Chars
  <2>2. a \in Seq(Chars)
    BY <2>1
  <2> QED BY <2>1, <2>2, LenProperties
<1>2. b \in Seq(Chars) /\ Len(b) = RAND_LEN /\ Positional(b, Alphabet) = FromBytes(bytes)
  BY RandomnessFacts
<1>3. encodeBase32(FromBytes(bytes), RAND_LEN) = b
  BY <1>2, ReadBack
<1>4. generateUlid(ms, bytes) = pyGenerateUlid(ms, bytes)
  BY <1>3, TimesAgree DEF generateUlid, pyGenerateUlid
<1>5. generateUlid(ms, bytes) = a \o b
  BY DEF generateUlid
<1> HIDE DEF a, b, Chars
<1>6. /\ a \o b \in Seq(Chars) /\ Len(a \o b) = TIME_LEN + RAND_LEN
  BY <1>1, <1>2, ConcatProperties
<1>7. \A i \in DOMAIN (a \o b) : (a \o b)[i] \in Chars
  <2> DEFINE id == a \o b
  <2>1. id \in Seq(Chars)
    BY <1>6
  <2> HIDE DEF id
  <2>2. \A i \in DOMAIN id : id[i] \in Chars
    BY <2>1, ElementOfSeq, LenProperties
  <2> QED BY <2>2 DEF id
<1>8. isUlid(generateUlid(ms, bytes))
  BY <1>5, <1>6, <1>7 DEF isUlid, Chars
<1> QED BY <1>4, <1>8

(* The two SDKs do the same, for any bag whose texts have ASCII digits     *)
(* only and ASCII beside them, for any digits, time and random bytes, and  *)
(* for the options that CommonOptions says both document alike             *)
(* (scrubber.ts:183-227 and scrubber.py:311-353, config.ts:497-562 and     *)
(* config.py:96-181, ulid.ts:28-105 and ulid.py:27-71).                    *)
THEOREM SdksAgreeAlways == Spec => []SdksAgree
<1>1. Inputs /\ OptionsAgree => SdksAgree
  <2> SUFFICES ASSUME Inputs, OptionsAgree PROVE SdksAgree
    OBVIOUS
  <2>1. ASSUME given.for = "value", given.value \in PortableValues[MaxNesting]
        PROVE  scrubAttributes(given.value, given.inTime) = pyScrub(given.value, given.inTime, {})
    <3>1. given.inTime \in Nat
      BY <2>1, PayloadsAssumption DEF Inputs
    <3> QED BY <2>1, <3>1, ScrubbersAgree
  <2>2. ASSUME given.for = "digits"
        PROVE  /\ luhn(given.digits) = luhnValid(given.digits)
               /\ Len(given.digits) = 9 => validSin(given.digits) = luhn(given.digits)
    <3>1. given.digits \in Seq(0..9)
      BY <2>2, PayloadsAssumption DEF Inputs
    <3> QED BY <3>1, LuhnAgrees, SinAgrees
  <2>3. ASSUME given.for = "ulid"
        PROVE  LET id(ms) == generateUlid(ms, given.bytes)
                   first == given.moments[1]
                   second == given.moments[2]
               IN  /\ timestampMs(first) =>
                        isUlid(id(first)) /\ id(first) = pyGenerateUlid(first, given.bytes)
                   /\ ~timestampMs(first) => encodeTimestamp(first) = OutOfRange
                   /\ timestampMs(first) /\ timestampMs(second) =>
                        (first < second) = Precedes(encodeTimestamp(first), encodeTimestamp(second))
    <3> DEFINE id(ms) == generateUlid(ms, given.bytes)
               first == given.moments[1]
               second == given.moments[2]
    <3>1. first \in Int /\ second \in Int /\ IsRandom(given.bytes)
      BY <2>3, PayloadsAssumption DEF Inputs, IsRandom
    <3> HIDE DEF first, second
    <3>2. timestampMs(first) =>
            isUlid(id(first)) /\ id(first) = pyGenerateUlid(first, given.bytes)
      BY <3>1, IdentifiersAgree
    <3>3. ~timestampMs(first) => encodeTimestamp(first) = OutOfRange
      <4> SUFFICES ASSUME ~timestampMs(first) PROVE first < 0 \/ first > MAX_TIMESTAMP_MS
        BY DEF encodeTimestamp
      <4> QED BY <3>1, UlidAssumption DEF timestampMs
    <3>4. timestampMs(first) /\ timestampMs(second) =>
            (first < second) = Precedes(encodeTimestamp(first), encodeTimestamp(second))
      BY <3>1, TimesSort
    <3> QED BY <3>2, <3>3, <3>4 DEF first, second
  <2> QED BY <2>1, <2>2, <2>3 DEF SdksAgree
<1> QED BY <1>1, InputsAlways, OptionsAgreeAlways, PTL

=============================================================================
