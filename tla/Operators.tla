------------------------------- MODULE Operators -------------------------------
(***************************************************************************)
(* The parts of the SDKs that keep no state, put to the test together: the *)
(* masking of elements and addresses and the options here; the scrubber,   *)
(* the identifiers and the payloads in Payloads.  A behaviour picks one    *)
(* input; the invariants say what the functions make of it.                *)
(***************************************************************************)
EXTENDS Masking, Config

CONSTANTS Values,        \* attribute bags
          Times,         \* visits of a walk within the budget
          Selectors,     \* sets of mask selectors, each a path
          DigitRuns,     \* sequences of digits
          Chains,        \* elements with their ancestors
          UserSelectors, \* sets of selectors of the host
          Addresses,     \* raw addresses
          ClientOptions, \* options of a client
          Policies,      \* replay policies and the states they are asked in
          Events, Pages, \* inputs of capture(), and pages it may be called on
          Identities,    \* what identify() was given
          HostBags,      \* what the host's session attributes may be
          Moments,       \* times for an identifier
          RandomBytes    \* random parts of an identifier

(* A number is an integer number of tenths, a switch is on or off. *)
IsValue(v) ==
  /\ v.is = "number" => v.tenths \in Int
  /\ v.is = "boolean" => v \in {Bool(TRUE), Bool(FALSE)}

Policy ==
  [enabled : BOOLEAN, sampleRate : 0..10, denyRoutes : Seq(Seq(STRING)),
   minDiagnosticsLevel : DOMAIN Level]

(* A target is a sequence of elements, and an attribute has a name without *)
(* white space.                                                            *)
IsElement(el) ==
  /\ {"tag", "type", "attrs", "matches", "hooks", "classes"} \subseteq DOMAIN el
  /\ el.hooks \in Seq(ToSet(el.hooks))
  /\ el.classes \in Seq(ToSet(el.classes))
  /\ \A hook \in ToSet(el.hooks) : hook.name # Prose

IsTarget(chain) == chain \in Seq(ToSet(chain)) /\ \A el \in ToSet(chain) : IsElement(el)

ASSUME OperatorsAssumption ==
  /\ MAX_MASK_DEPTH \in Nat /\ MAX_SELECTOR_DEPTH \in Nat /\ MAX_FORM_DEPTH \in Nat
  /\ \A chain \in Chains : IsTarget(chain)
  /\ \A raw \in Addresses \ {NoAddress} : raw.params \in Seq(ToSet(raw.params))
  /\ \A opts \in ClientOptions : \A key \in DOMAIN opts :
       /\ IsValue(opts[key])
       /\ opts[key].is = "object" =>
            \A sub \in DOMAIN opts[key].object : IsValue(opts[key].object[sub])
  /\ \A asked \in Policies :
       /\ asked.tight \in Policy /\ asked.loose \in Policy
       /\ asked.level \in DOMAIN Level \cup {NoLevel}
       /\ asked.roll \in Nat

VARIABLE given           \* the input: what it is for, and its parts

Nothing == [for |-> "nothing"]

Init == given = Nothing

Value == given = Nothing /\ \E value \in Values, inTime \in Times, selectors \in Selectors :
  given' = [for |-> "value", value |-> value, inTime |-> inTime, selectors |-> selectors]

Digits == given = Nothing /\ \E digits \in DigitRuns :
  given' = [for |-> "digits", digits |-> digits]

Target == given = Nothing /\ \E chain \in Chains, selectors \in UserSelectors :
  given' = [for |-> "target", chain |-> chain, selectors |-> selectors]

Fetch == given = Nothing /\ \E raw \in Addresses, hasBase \in BOOLEAN :
  given' = [for |-> "address", raw |-> raw, hasBase |-> hasBase]

Construct == given = Nothing /\ \E opts \in ClientOptions :
  given' = [for |-> "options", opts |-> opts]

Record == given = Nothing /\ \E asked \in Policies :
  given' = [for |-> "policy", asked |-> asked]

Capture == given = Nothing /\ \E event \in Events, page \in Pages, who \in Identities :
  given' = [for |-> "event", event |-> event, page |-> page, who |-> who]

StartSession == given = Nothing /\ \E who \in Identities, attrs \in HostBags :
  given' = [for |-> "session", who |-> who, attrs |-> attrs]

Identify == given = Nothing /\ \E moments \in Moments \X Moments, bytes \in RandomBytes :
  given' = [for |-> "ulid", moments |-> moments, bytes |-> bytes]

Next ==
  \/ Value \/ Digits \/ Target \/ Fetch \/ Construct \/ Record \/ Capture \/ StartSession
  \/ Identify

Spec == Init /\ [][Next]_given

-----------------------------------------------------------------------------
(* Two addresses that only the values of their query tell apart or, when   *)
(* they parse, their hashes.                                               *)
AlikeButSecrets(raw, other, hasBase) ==
  /\ raw.form = other.form /\ raw.origin = other.origin /\ raw.path = other.path
  /\ Len(raw.params) = Len(other.params)
  /\ \A i \in DOMAIN raw.params : raw.params[i].key = other.params[i].key
  /\ tryParseUrl(raw, hasBase) \/ raw.hash = other.hash

(* A mask rule matches one of MAX_MASK_DEPTH elements of a chain. *)
MaskedFrom(chain, first, userSelectors) ==
  \E i \in DOMAIN chain :
    i \in first..(first + MAX_MASK_DEPTH - 1) /\ matchingMaskRuleId(chain[i], userSelectors) # NoRule

(* Descriptors and addresses in auto-captured events (selector.ts,         *)
(* url.ts): an element is only ever "masked" when a rule masks it or one   *)
(* of its ancestors, MAX_MASK_DEPTH elements in all, and its form is when  *)
(* one of as many elements is, counted from the form; no descriptor, of    *)
(* the element or of its form, has a value a scrubber rule finds or a text *)
(* that is not an identifier; and what is said of an address is the same   *)
(* whatever the values of its query are and, of one that parses, its hash. *)
DescriptorsLeakNothing ==
  /\ given.for = "target" =>
       LET chain == given.chain
           target == describeTarget(chain, given.selectors)
           form == describeForm(chain, given.selectors)
       IN  /\ MaskedFrom(chain, 1, given.selectors) => target = <<Masked>>
           /\ MaskedFrom(chain, formStart(chain), given.selectors) => form = <<Masked>>
           /\ \A text \in {target, form} : \A fragment \in ToSet(text) :
                IsClean(fragment, "ecma") /\ fragment # Prose
           /\ \A event \in errorResource(chain, given.selectors, TRUE) :
                MaskedFrom(chain, 1, given.selectors) => event.target = <<Masked>>
  /\ given.for = "address" /\ given.raw # NoAddress =>
       \A other \in Addresses \ {NoAddress} :
         AlikeButSecrets(given.raw, other, given.hasBase) =>
           scrubUrl(given.raw, given.hasBase) = scrubUrl(other, given.hasBase)

(* What selector.ts:17-20 says of every ancestor: "If an element (or an    *)
(* ancestor) is marked sensitive ... we collapse it to an opaque `[masked]`*)
(* token".  The walk up stops after MAX_MASK_DEPTH elements                *)
(* (selector.ts:133), and an element further down is described.            *)
MaskedAncestorsMask ==
  given.for = "target" => \A i \in DOMAIN given.chain :
    matchingMaskRuleId(given.chain[i], given.selectors) # NoRule =>
      describeTarget(given.chain, given.selectors) = <<Masked>>

-----------------------------------------------------------------------------
(* The options both SDKs document alike: the local ones, with a budget, a  *)
(* timeout and an endpoint that mean the same to both; the endpoint has no *)
(* path of its own, which only Python would keep.                          *)
CommonOptions(opts) ==
  /\ DOMAIN opts \subseteq PERMITTED_LOCAL_KWARGS \cup {"apiKey", "endpoint"}
  /\ \A key \in DOMAIN opts : opts[key] # Null /\ (IsWord(opts[key]) => opts[key].string # " ")
  /\ Option(opts, "beforeSendTimeoutMs") \notin {NaN, Bool(TRUE)}
  /\ Unset(Option(opts, "debug")) \/ IsBool(opts["debug"])
  /\ \A key \in {"onError", "beforeSend", "transport"} :
       Option(opts, key) \in {Undefined, Function}
  /\ \A key \in {"sessionInactivityMs", "sessionMaxDurationMs"} \cap DOMAIN opts :
       opts[key].is = "number" => opts[key].tenths % 10 = 0
  /\ AtLeast(Option(opts, "beforeSendTimeoutMs"), 1) =>
       opts["beforeSendTimeoutMs"].tenths <= MAX_BEFORE_SEND_TIMEOUT
  /\ Option(opts, "endpoint").is = "address" =>
       /\ opts["endpoint"].host \notin {"printer.local", "app.localhost"}
       /\ opts["endpoint"].path = <<>>

(* The two SDKs accept the same options and make the same of them, as far  *)
(* as both know them (config.ts:497-562, config.py:96-181).  TypeScript    *)
(* keeps the slashes at the end of an endpoint and Python does not, but    *)
(* both post to the same address (transport.ts:509, transport.py:250).     *)
OptionsAgree ==
  given.for = "options" /\ CommonOptions(given.opts) =>
    LET ts == resolveConfig(given.opts)
        py == pyConfig(given.opts)
    IN  /\ ts.ok = py.ok
        /\ ts.ok =>
             /\ \A key \in DOMAIN py.config \ {"endpoint"} : ts.config[key] = py.config[key]
             /\ eventsUrl(ts.config.endpoint) = pyEventsUrl(py.config.endpoint)

-----------------------------------------------------------------------------
(* `tight` records no more than `loose` in whatever state it is asked. *)
IsTightened(tight, loose) ==
  /\ tight.enabled => loose.enabled
  /\ tight.sampleRate <= loose.sampleRate
  /\ ToSet(loose.denyRoutes) \subseteq ToSet(tight.denyRoutes)
  /\ Level[loose.minDiagnosticsLevel] <= Level[tight.minDiagnosticsLevel]

(* A selector list masks at least what another masks. *)
Covers(selectors, floor) == "*" \in selectors \/ floor \subseteq selectors

(* What the SDK promises of a resolved configuration: the budget of a hook *)
(* is at most that of the SDK, inputs are masked, and no list of selectors *)
(* lets an element be read that the built-in one covers.                   *)
BudgetIsKept(config) == config.beforeSendTimeoutMs \in 1..MAX_BEFORE_SEND_TIMEOUT

StaysWithin(config) ==
  /\ BudgetIsKept(config)
  /\ "autoCapture" \in DOMAIN config =>
       LET masking == config.autoCapture["replay"].masking IN
       /\ masking.maskAllInputs
       /\ Covers(masking.blockSelector, DEFAULT_REPLAY_BLOCK_SELECTOR)
       /\ Covers(masking.maskTextSelector, DEFAULT_REPLAY_BLOCK_SELECTOR)

(* The host may tighten, never loosen (config.ts:516, config.py:159-161,   *)
(* policy.ts:150-151): what either SDK makes of options it accepts stays   *)
(* within the budget of a hook and above the floor of masking, except that *)
(* Python is asked with budgets that are numbers only; and a policy that   *)
(* is tightened never makes a session eligible.                            *)
OptionsOnlyTighten ==
  /\ given.for = "options" =>
       LET ts == resolveConfig(given.opts)
           py == pyConfig(given.opts)
       IN  /\ ts.ok => StaysWithin(ts.config)
           /\ py.ok /\ Option(given.opts, "beforeSendTimeoutMs") # NaN => StaysWithin(py.config)
  /\ given.for = "policy" =>
       LET may(policy) == eligible(policy, given.asked.level, given.asked.route, given.asked.roll)
       IN  IsTightened(given.asked.tight, given.asked.loose) /\ may(given.asked.tight) =>
             may(given.asked.loose)

(* What config.py:159-161 says of every budget: "a positive number <= 4.0  *)
(* ... Customer hooks may tighten, never loosen."  A budget that is not a  *)
(* number passes both comparisons (config.py:155-156), and is kept.        *)
PythonBudgetIsKept ==
  given.for = "options" =>
    LET py == pyConfig(given.opts) IN py.ok => BudgetIsKept(py.config)

=============================================================================
