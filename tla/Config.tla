--------------------------------- MODULE Config ---------------------------------
(***************************************************************************)
(* The options of a client: sdk/typescript/src/config.ts with the replay   *)
(* policy of autocapture/replay/policy.ts, and config.py with              *)
(* validate_session_config of session.py.                                  *)
(*                                                                         *)
(* Options are a function from the keys that are present to values.  A     *)
(* number is counted in tenths.  What a resolver returns is Accepted or    *)
(* Rejected with the error code; the checks stand in the order of the code *)
(* and the first that fails decides.  An option of the Python constructor  *)
(* has the name it has in TypeScript.                                      *)
(*                                                                         *)
(* Left out: the wording of the errors, options that are only passed on    *)
(* (onError, beforeSend, transport, sessionAttributes) once checked, and   *)
(* queries and hashes of addresses.                                        *)
(***************************************************************************)
EXTENDS Integers, Sequences, FiniteSets, SequencesExt

(* Values. *)
Undefined == [is |-> "undefined"]
Null == [is |-> "null"]
NaN == [is |-> "nan"]
Function == [is |-> "function"]
Bool(b) == [is |-> "boolean", boolean |-> b]
Number(tenths) == [is |-> "number", tenths |-> tenths]
(* A string of so many characters of so many bytes each. *)
Text(word, count, bytes) == [is |-> "string", string |-> word, count |-> count, bytes |-> bytes]
Word(word) == Text(word, 1, 1)
EmptyText == Text("", 0, 1)
(* An address with the segments of its path, and slashes at its end. *)
Url(scheme, host, path, slashes) ==
  [is |-> "address", scheme |-> scheme, host |-> host, path |-> path, slashes |-> slashes]
Address(scheme, host) == Url(scheme, host, <<>>, 0)
List(items) == [is |-> "list", list |-> items]
Options(f) == [is |-> "object", object |-> f]

Option(opts, key) == IF key \in DOMAIN opts THEN opts[key] ELSE Undefined

IsWord(v) == v.is = "string" /\ v.string # ""
OneOf(v, words) == v.is = "string" /\ v.string \in words
AtLeast(v, low) == v.is = "number" /\ v.tenths >= low
Within(v, low, high) == AtLeast(v, low) /\ v.tenths <= high
IsBool(v) == v.is = "boolean"
Words(v) == v.is = "list" /\ \A i \in DOMAIN v.list : IsWord(v.list[i])

(* An option that is missing passes every check of its own. *)
Unset(v) == v = Undefined

(* Results. *)
Accepted(config) == [ok |-> TRUE, config |-> config]
Rejected(code) == [ok |-> FALSE, code |-> code]
Check(holds, code) == [holds |-> holds, code |-> code]

Failed(checks) == {i \in DOMAIN checks : ~checks[i].holds}

(* The code of the first check that failed. *)
FirstCode(checks) == checks[Min(Failed(checks))].code

-----------------------------------------------------------------------------
(* The replay policy.                                                      *)
ALLOWED_REPLAY_KEYS ==
  {"mode", "enabled", "sampleRate", "denyRoutes", "minDiagnosticsLevel",
   "maskAllText", "maskTextSelector", "blockSelector"}

Level == [essential |-> 0, standard |-> 1, assisted_support |-> 2]

(* A selector list is the set of its selectors. *)
DEFAULT_REPLAY_BLOCK_SELECTOR == {"[data-rt-mask]", "[data-private]"}
DEFAULT_REPLAY_MASK_TEXT_SELECTOR == {"*"}

defaultMaskingConfig ==
  [maskAllInputs |-> TRUE, maskTextSelector |-> DEFAULT_REPLAY_MASK_TEXT_SELECTOR,
   blockSelector |-> DEFAULT_REPLAY_BLOCK_SELECTOR, recordCanvas |-> FALSE,
   collectFonts |-> FALSE]

defaultReplayConfig ==
  [mode |-> "auto", enabled |-> FALSE, sampleRate |-> 0, denyRoutes |-> <<>>,
   minDiagnosticsLevel |-> "standard", masking |-> defaultMaskingConfig]

Added(v) == IF Unset(v) THEN {} ELSE {v.string}

(* Mutant of BlockSelector: the host's selector takes the place of the floor. *)
BlockSelectorOfHost(opts) ==
  LET own == Added(Option(opts, "blockSelector"))
  IN  IF own = {} THEN DEFAULT_REPLAY_BLOCK_SELECTOR ELSE own

BlockSelector(opts) == DEFAULT_REPLAY_BLOCK_SELECTOR \cup Added(Option(opts, "blockSelector"))

(* All text, unless the host says that labels may be read. *)
MaskTextSelector(opts) ==
  IF Option(opts, "maskAllText") \in {Undefined, Bool(TRUE)}
  THEN DEFAULT_REPLAY_MASK_TEXT_SELECTOR
  ELSE DEFAULT_REPLAY_BLOCK_SELECTOR \cup Added(Option(opts, "maskTextSelector"))

ReplayChecks(opts) ==
  LET fine(key, Holds(_)) == Check(Unset(Option(opts, key)) \/ Holds(Option(opts, key)),
                                   "config.invalid")
  IN  <<Check(DOMAIN opts \subseteq ALLOWED_REPLAY_KEYS, "config.invalid"),
        fine("mode", LAMBDA v : OneOf(v, {"auto", "manual", "off", "review"})),
        fine("enabled", IsBool),
        fine("sampleRate", LAMBDA v : Within(v, 0, 10)),
        fine("denyRoutes", Words),
        fine("minDiagnosticsLevel", LAMBDA v : OneOf(v, DOMAIN Level)),
        fine("maskAllText", IsBool),
        fine("maskTextSelector", IsWord),
        fine("blockSelector", IsWord)>>

ResolvedReplay(opts) ==
  LET or(key, Value(_)) == IF Unset(Option(opts, key)) THEN defaultReplayConfig[key]
                           ELSE Value(Option(opts, key))
      word(v) == v.string
  IN  [mode |-> or("mode", word),
       enabled |-> or("enabled", LAMBDA v : v.boolean),
       sampleRate |-> or("sampleRate", LAMBDA v : v.tenths),
       denyRoutes |-> or("denyRoutes", LAMBDA v : [i \in DOMAIN v.list |-> v.list[i].string]),
       minDiagnosticsLevel |-> or("minDiagnosticsLevel", word),
       masking |-> [defaultMaskingConfig EXCEPT !.maskTextSelector = MaskTextSelector(opts),
                                                !.blockSelector = BlockSelector(opts)]]

resolveReplayConfig(raw) ==
  CASE Unset(raw) -> Accepted(defaultReplayConfig)
    [] IsBool(raw) -> Accepted([defaultReplayConfig EXCEPT !.enabled = raw.boolean])
    [] raw.is = "object" -> LET checks == ReplayChecks(raw.object)
                            IN  IF Failed(checks) # {} THEN Rejected(FirstCode(checks))
                                ELSE Accepted(ResolvedReplay(raw.object))
    [] OTHER -> Rejected("config.invalid")

(* A level that is not known is the lowest. *)
diagnosticsLevelAllows(level, min) == Level[level] >= Level[min]

(* A route is a sequence of characters. *)
routeIsDenied(route, denyRoutes) ==
  \E i \in DOMAIN denyRoutes :
    \/ route = denyRoutes[i]
    \/ denyRoutes[i] # <<>> /\ IsPrefix(denyRoutes[i], route)

(* eligible() of the recorder, with the deny routes as sequences; NoLevel  *)
(* stands for no level, which is not tested.                               *)
NoLevel == "none"

eligible(policy, level, route, roll) ==
  /\ policy.enabled
  /\ level # NoLevel => diagnosticsLevelAllows(level, policy.minDiagnosticsLevel)
  /\ ~routeIsDenied(route, policy.denyRoutes)
  /\ roll < policy.sampleRate

-----------------------------------------------------------------------------
(* Auto-capture.                                                           *)
AUTOCAPTURE_SWITCHES ==
  {"enabled", "rageClick", "deadClick", "repeatedSubmit", "errorJs", "errorApi",
   "apiLatency", "errorResource", "longTask"}

AUTOCAPTURE_COUNTS ==
  [rageClickThreshold |-> 3, rageClickWindowMs |-> 1000, deadClickWindowMs |-> 2500,
   repeatedSubmitThreshold |-> 2, repeatedSubmitWindowMs |-> 3000,
   errorStatusThreshold |-> 400, maxEventsPerSession |-> 200]

ALLOWED_AUTOCAPTURE_KEYS == AUTOCAPTURE_SWITCHES \cup DOMAIN AUTOCAPTURE_COUNTS \cup {"replay"}

PositiveInt(v) == AtLeast(v, 1) /\ v.tenths % 10 = 0

resolvePositiveInt(raw, fallback) == IF Unset(raw) THEN fallback ELSE raw.tenths \div 10

resolveBool(raw, fallback) == IF Unset(raw) THEN fallback ELSE raw.boolean

ResolvedAutoCapture(opts, replay) ==
  [key \in ALLOWED_AUTOCAPTURE_KEYS |->
     CASE key \in AUTOCAPTURE_SWITCHES -> resolveBool(Option(opts, key), TRUE)
       [] key \in DOMAIN AUTOCAPTURE_COUNTS ->
            resolvePositiveInt(Option(opts, key), AUTOCAPTURE_COUNTS[key])
       [] OTHER -> replay]

AutoCaptureIsFine(opts) ==
  /\ DOMAIN opts \subseteq ALLOWED_AUTOCAPTURE_KEYS
  /\ \A key \in AUTOCAPTURE_SWITCHES : Unset(Option(opts, key)) \/ IsBool(opts[key])
  /\ \A key \in DOMAIN AUTOCAPTURE_COUNTS : Unset(Option(opts, key)) \/ PositiveInt(opts[key])

NoOptions == [key \in {} |-> Undefined]

resolveAutoCapture(raw) ==
  LET opts == CASE Unset(raw) -> NoOptions
                [] IsBool(raw) -> [key \in {"enabled"} |-> raw]
                [] raw.is = "object" -> raw.object
                [] OTHER -> NoOptions
      replay == resolveReplayConfig(Option(opts, "replay"))
  IN  IF raw.is \notin {"undefined", "boolean", "object"} \/ ~AutoCaptureIsFine(opts)
      THEN Rejected("config.invalid")
      ELSE IF ~replay.ok THEN replay
      ELSE Accepted(ResolvedAutoCapture(opts, replay.config))

-----------------------------------------------------------------------------
(* The report widget.                                                      *)
WIDGET_TEXTS ==
  {"buttonText", "title", "placeholder", "submitText", "successText", "errorText",
   "className", "recordButtonText", "pauseText", "resumeText", "submitClipsText",
   "discardText", "recordingLabel", "pausedLabel", "sendingText", "consentNotice",
   "policyLinkText"}

ALLOWED_REPORT_WIDGET_KEYS ==
  WIDGET_TEXTS \cup {"enabled", "position", "record", "launcher", "policyUrl"}

REPORT_WIDGET_POSITIONS == {"bottom-right", "bottom-left", "top-right", "top-left"}

(* The rendered link goes to a page, never to a script. *)
PolicyUrl(v) == v.is = "address" /\ v.scheme \in {"https", "http", "/"}

(* A switch, or options that have no key but clips. *)
RecordOption(v) ==
  \/ IsBool(v)
  \/ /\ v.is = "object"
     /\ DOMAIN v.object \subseteq {"clips"}
     /\ \/ Unset(Option(v.object, "clips"))
        \/ OneOf(Option(v.object, "clips"), {"single", "multi"})

WidgetIsFine(opts) ==
  LET fine(key, Holds(_)) == Unset(Option(opts, key)) \/ Holds(Option(opts, key))
  IN  /\ fine("position", LAMBDA v : OneOf(v, REPORT_WIDGET_POSITIONS))
      /\ \A key \in WIDGET_TEXTS : fine(key, IsWord)
      /\ fine("record", RecordOption)
      /\ fine("launcher", LAMBDA v : OneOf(v, {"button", "icon", "none"}))
      /\ fine("policyUrl", PolicyUrl)

(* Null is no widget.  Options of a widget that is switched off are not checked. *)
resolveReportWidget(raw) ==
  LET opts == IF raw.is = "object" THEN raw.object ELSE NoOptions
      enabled == Option(opts, "enabled")
      given == {key \in DOMAIN opts : ~Unset(opts[key])}
  IN  IF raw \in {Undefined, Bool(FALSE)} THEN Accepted(Null)
      ELSE IF \/ raw # Bool(TRUE) /\ raw.is # "object"
              \/ ~(DOMAIN opts \subseteq ALLOWED_REPORT_WIDGET_KEYS)
              \/ ~Unset(enabled) /\ ~IsBool(enabled)
      THEN Rejected("config.invalid")
      ELSE IF enabled = Bool(FALSE) THEN Accepted(Null)
      ELSE IF ~WidgetIsFine(opts) THEN Rejected("config.invalid")
      ELSE Accepted([key \in given \cup {"enabled"} |->
                       IF key = "enabled" THEN Bool(TRUE) ELSE opts[key]])

-----------------------------------------------------------------------------
(* The client.                                                             *)
ALLOWED_OPTION_KEYS ==
  {"apiKey", "endpoint", "onError", "beforeSend", "beforeSendTimeoutMs", "debug", "transport",
   "maskSelectors", "sessionInactivityMs", "sessionMaxDurationMs", "autoSession",
   "sessionAttributes", "autoCapture", "reportWidget"}

MAX_API_KEY_BYTES == 4096
MAX_BEFORE_SEND_TIMEOUT == 40
MIN_SESSION_TIMEOUT == 10 * 1000
DEFAULT_SESSION_INACTIVITY == 10 * 1800000
DEFAULT_SESSION_MAX_DURATION == 10 * 43200000

utf8ByteLength(text) == text.count * text.bytes

(* printer.local stands for the names that end in .local, app.localhost for *)
(* those that end in .localhost.                                           *)
isLoopbackOrLocalHost(host) == host \in {"localhost", "127.0.0.1", "[::1]", "printer.local"}

(* An address that parses, by https or to this machine. *)
EndpointIsFine(v) ==
  /\ v.is = "address"
  /\ v.host # ""
  /\ v.scheme = "https" \/ (v.scheme = "http" /\ isLoopbackOrLocalHost(v.host))

BeforeSendTimeout(v) ==
  IF Unset(v) \/ v.tenths > MAX_BEFORE_SEND_TIMEOUT THEN MAX_BEFORE_SEND_TIMEOUT ELSE v.tenths

Timeout(v, default) == IF Unset(v) THEN default ELSE v.tenths

ClientChecks(opts) ==
  LET check(key, Holds(_), code) == Check(Holds(Option(opts, key)), code)
      fine(key, Holds(_), code) == Check(Unset(Option(opts, key)) \/ Holds(Option(opts, key)), code)
      function(v) == v = Function
      autoCapture == resolveAutoCapture(Option(opts, "autoCapture"))
      widget == resolveReportWidget(Option(opts, "reportWidget"))
  IN  <<Check(DOMAIN opts \subseteq ALLOWED_OPTION_KEYS, "config.unknown_option"),
        check("apiKey", IsWord, "config.api_key_invalid"),
        check("apiKey", LAMBDA v : IsWord(v) => utf8ByteLength(v) <= MAX_API_KEY_BYTES,
              "config.api_key_too_large"),
        check("endpoint", EndpointIsFine, "config.endpoint_invalid"),
        fine("onError", function, "config.invalid"),
        fine("beforeSend", function, "config.invalid"),
        fine("beforeSendTimeoutMs", LAMBDA v : AtLeast(v, 1), "config.invalid"),
        fine("transport", function, "config.invalid"),
        fine("maskSelectors", Words, "config.invalid"),
        fine("sessionInactivityMs",
             LAMBDA v : Within(v, MIN_SESSION_TIMEOUT, DEFAULT_SESSION_INACTIVITY),
             "config.session_inactivity_invalid"),
        fine("sessionMaxDurationMs",
             LAMBDA v : Within(v, MIN_SESSION_TIMEOUT, DEFAULT_SESSION_MAX_DURATION),
             "config.session_max_duration_invalid"),
        fine("autoSession", IsBool, "config.invalid"),
        Check(autoCapture.ok, "config.invalid"),
        Check(widget.ok, "config.invalid"),
        fine("sessionAttributes", function, "config.invalid")>>

ResolvedClient(opts) ==
  [apiKey |-> opts["apiKey"],
   endpoint |-> opts["endpoint"],
   beforeSendTimeoutMs |-> BeforeSendTimeout(Option(opts, "beforeSendTimeoutMs")),
   debug |-> Option(opts, "debug") = Bool(TRUE),
   maskSelectors |-> IF Unset(Option(opts, "maskSelectors")) THEN <<>>
                     ELSE opts["maskSelectors"].list,
   sessionInactivityMs |-> Timeout(Option(opts, "sessionInactivityMs"), DEFAULT_SESSION_INACTIVITY),
   sessionMaxDurationMs |-> Timeout(Option(opts, "sessionMaxDurationMs"),
                                    DEFAULT_SESSION_MAX_DURATION),
   autoSession |-> resolveBool(Option(opts, "autoSession"), TRUE),
   autoCapture |-> resolveAutoCapture(Option(opts, "autoCapture")).config,
   reportWidget |-> resolveReportWidget(Option(opts, "reportWidget")).config]

resolveConfig(opts) ==
  LET checks == ClientChecks(opts)
  IN  IF Failed(checks) # {} THEN Rejected(FirstCode(checks)) ELSE Accepted(ResolvedClient(opts))

(* Where events go: the path replaces that of the endpoint. *)
EVENTS_PATH == <<"v1", "events">>

eventsUrl(endpoint) == Url(endpoint.scheme, endpoint.host, EVENTS_PATH, 0)

-----------------------------------------------------------------------------
(* The Python client.                                                      *)
PERMITTED_LOCAL_KWARGS ==
  {"onError", "beforeSend", "beforeSendTimeoutMs", "debug", "transport", "sessionInactivityMs",
   "sessionMaxDurationMs", "autoSession", "sessionAttributes"}

(* A string that says nothing is empty. *)
assertNonEmptyString(v) == IsWord(v) /\ v.string # " "

assertValidEndpointUrl(v) ==
  /\ v.is = "address"
  /\ v.scheme \in {"http", "https"}
  /\ v.host # ""
  /\ v.scheme = "http" => v.host \in {"localhost", "127.0.0.1", "[::1]", "app.localhost"}

(* A boolean is a number, and NaN is neither too small nor too large. *)
BeforeSendTimeoutInPython(v) ==
  v \in {Undefined, NaN, Bool(TRUE)} \/ Within(v, 1, MAX_BEFORE_SEND_TIMEOUT)

validateOptions(opts) ==
  /\ assertNonEmptyString(Option(opts, "apiKey"))
  /\ utf8ByteLength(opts["apiKey"]) <= MAX_API_KEY_BYTES
  /\ assertValidEndpointUrl(Option(opts, "endpoint"))
  /\ DOMAIN opts \subseteq PERMITTED_LOCAL_KWARGS \cup {"apiKey", "endpoint"}
  /\ BeforeSendTimeoutInPython(Option(opts, "beforeSendTimeoutMs"))
  /\ \A key \in {"debug", "autoSession"} : Unset(Option(opts, key)) \/ IsBool(opts[key])
  /\ Option(opts, "sessionAttributes") \in {Undefined, Null, Function}

NOT_A_NUMBER == -1

(* rstrip("/") of the endpoint. *)
WithoutSlashes(endpoint) == Url(endpoint.scheme, endpoint.host, endpoint.path, 0)

(* The path is written behind the endpoint; every slash before it ends an  *)
(* empty segment.                                                          *)
pyEventsUrl(endpoint) ==
  Url(endpoint.scheme, endpoint.host,
      endpoint.path \o [i \in 1..endpoint.slashes |-> ""] \o EVENTS_PATH, 0)

(* A timeout is a whole number of milliseconds, or None. *)
SessionTimeoutInPython(v, default) ==
  \/ v \in {Undefined, Null}
  \/ Within(v, MIN_SESSION_TIMEOUT, default) /\ v.tenths % 10 = 0

validateSessionConfig(opts) ==
  /\ SessionTimeoutInPython(Option(opts, "sessionInactivityMs"), DEFAULT_SESSION_INACTIVITY)
  /\ SessionTimeoutInPython(Option(opts, "sessionMaxDurationMs"), DEFAULT_SESSION_MAX_DURATION)

pyConfig(opts) ==
  IF ~(validateOptions(opts) /\ validateSessionConfig(opts)) THEN Rejected("ConfigError")
  ELSE LET number(key, default) == IF Option(opts, key) \in {Undefined, Null} THEN default
                                   ELSE IF opts[key] = Bool(TRUE) THEN 10 ELSE opts[key].tenths
       IN  Accepted(
             [apiKey |-> opts["apiKey"],
              endpoint |-> WithoutSlashes(opts["endpoint"]),
              beforeSendTimeoutMs |->
                IF Option(opts, "beforeSendTimeoutMs") = NaN THEN NOT_A_NUMBER
                ELSE number("beforeSendTimeoutMs", MAX_BEFORE_SEND_TIMEOUT),
              debug |-> resolveBool(Option(opts, "debug"), FALSE),
              sessionInactivityMs |-> number("sessionInactivityMs", DEFAULT_SESSION_INACTIVITY),
              sessionMaxDurationMs |-> number("sessionMaxDurationMs", DEFAULT_SESSION_MAX_DURATION),
              autoSession |-> resolveBool(Option(opts, "autoSession"), TRUE)])

=============================================================================
