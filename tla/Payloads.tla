-------------------------------- MODULE Payloads --------------------------------
(***************************************************************************)
(* What the functions without state make of data of any shape, for the     *)
(* inputs of Operators: bags of attributes, identifiers and payloads.      *)
(***************************************************************************)
EXTENDS Operators, Envelope, Ulid

(* A page has an address and a size, as far as the runtime tells. *)
IsPage(page) ==
  /\ DOMAIN page \subseteq {"pageUrl", "viewportWidth", "viewportHeight"}
  /\ \A key \in DOMAIN page : page[key] \in Nat

(* Attributes are nested as deep as the values of a walk, and the context  *)
(* that an event about a page may get fits in.                             *)
ASSUME PayloadsAssumption ==
  /\ MaxNesting >= 2
  /\ {"context", "pageUrl", "viewportWidth", "viewportHeight"} \subseteq Keys
  /\ Values \subseteq RawValues[MaxNesting]
  /\ Times \subseteq Nat
  /\ DigitRuns \subseteq Seq(0..9)
  /\ \A event \in Events :
       "attributes" \in DOMAIN event => event["attributes"] \in RawValues[MaxNesting]
  /\ \A page \in Pages : IsPage(page)
  /\ \A attrs \in HostBags : attrs["userAgent"] \in Nat
  /\ Moments \subseteq Int
  /\ \A bytes \in RandomBytes : bytes \in Seq(0..(Pow2[BYTE_BITS] - 1)) /\ Len(bytes) = RAND_BYTES

-----------------------------------------------------------------------------
(* Scrubbed: nothing a rule of the dialect finds is left, the shape of the *)
(* bag is, the report names what happened, and nothing is clean that ran   *)
(* out of time.                                                            *)
Settled(report, dialect) ==
  {fragment \in Fragment :
     /\ IsClean(fragment, dialect)
     /\ fragment.shape = "redacted" => fragment.rule \in report.applied
     /\ fragment.shape = "overflow" => report.exceeded}

IsScrubbed(raw, report, dialect) ==
  /\ <<raw, report.value>> \in SameShape[MaxNesting]
  /\ report.value \in ValuesOver(Seq(Settled(report, dialect)))[MaxNesting]
  /\ report.exceeded <=> "overflow_fallback" \in report.applied

(* Whatever the bag, and wherever in the walk the budget of 4 ms runs out, *)
(* no SDK lets a text out that it has not scrubbed in its dialect          *)
(* (scrubber.ts:183-227, scrubber.py:311-353): texts that were not reached *)
(* are replaced, nothing is dropped, and the report tells.                 *)
NothingRawEscapes ==
  given.for = "value" =>
    /\ IsScrubbed(given.value, scrubAttributes(given.value, given.inTime), "ecma")
    /\ IsScrubbed(given.value, pyScrub(given.value, given.inTime, given.selectors), "python")

-----------------------------------------------------------------------------
(* The two SDKs do the same: on a bag without mask selectors whose texts   *)
(* have ASCII digits only and ASCII beside them, for the checksums a rule  *)
(* is checked with (of nine digits, both are one), for the options both    *)
(* know, and for identifiers, which sort by their time.                    *)
SdksAgree ==
  /\ given.for = "value" /\ given.value \in PortableValues[MaxNesting] =>
       scrubAttributes(given.value, given.inTime) = pyScrub(given.value, given.inTime, {})
  /\ given.for = "digits" =>
       /\ luhn(given.digits) = luhnValid(given.digits)
       /\ Len(given.digits) = 9 => validSin(given.digits) = luhn(given.digits)
  /\ OptionsAgree
  /\ given.for = "ulid" =>
       LET id(ms) == generateUlid(ms, given.bytes)
           first == given.moments[1]
           second == given.moments[2]
       IN  /\ timestampMs(first) =>
                isUlid(id(first)) /\ id(first) = pyGenerateUlid(first, given.bytes)
           /\ ~timestampMs(first) => encodeTimestamp(first) = OutOfRange
           /\ timestampMs(first) /\ timestampMs(second) =>
                (first < second) = Precedes(encodeTimestamp(first), encodeTimestamp(second))

(* What the notes of the rules say of every text (scrubber-rules.ts:49-51, *)
(* scrubber-rules.matrix.json:3): "we prefer portable anchors ... so both  *)
(* engines compile identical regex semantics".  Python compiles the        *)
(* patterns for Unicode (scrubber.py:172), where \d and \b are not what    *)
(* they are in ECMAScript.                                                 *)
TextsAreReadAlike ==
  given.for = "value" =>
    scrubAttributes(given.value, given.inTime) = pyScrub(given.value, given.inTime, {})

-----------------------------------------------------------------------------
(* What a caller may pass: the event by itself is within the limits of the *)
(* schema, and so is the actor.                                            *)
FollowsTheSchema(event, who) ==
  /\ {"type"} \subseteq DOMAIN event
  /\ DOMAIN event \subseteq {"type", "sessionId", "capturedAt", "context", "severity", "durationMs",
                             "httpStatus", "attributes"}
  /\ EventType(event["type"])
  /\ "sessionId" \in DOMAIN event => event["sessionId"] = ULID
  /\ "capturedAt" \in DOMAIN event => event["capturedAt"] = DATE
  /\ "context" \in DOMAIN event => EventContext(event["context"])
  /\ "severity" \in DOMAIN event => event["severity"] \in {"info", "warn", "error"}
  /\ "durationMs" \in DOMAIN event => event["durationMs"] >= 0
  /\ "httpStatus" \in DOMAIN event => event["httpStatus"] \in 100..599
  /\ "attributes" \in DOMAIN event => EventAttributes(event["attributes"])
  /\ DOMAIN who # {} => Actor(who)

(* The address of a page is not cut: one that is too long makes a context  *)
(* that the schema does not know.                                          *)
FitsTheContext(event, page) ==
  "context" \in DOMAIN event /\ "pageUrl" \in DOMAIN page => page["pageUrl"] <= ContextTexts["pageUrl"]

(* The host's attributes are those the schema knows. *)
KnownAttributes(attrs) ==
  /\ DOMAIN attrs \subseteq START_FIELDS \cup {"userAgent"}
  /\ "appVersion" \in DOMAIN attrs => attrs["appVersion"] \in 0..64
  /\ "releaseChannel" \in DOMAIN attrs => attrs["releaseChannel"] \in ReleaseChannels \cup {""}
  /\ "userAnonId" \in DOMAIN attrs => attrs["userAnonId"] \in 0..128

(* What the SDKs send is what the server takes (events.ts:452-528,         *)
(* session.ts:155-186): the page that is added to an event never makes its *)
(* context partial or replaces what the caller set, the envelope of every  *)
(* well-formed event is accepted and complete (in Python, of every one     *)
(* with a session), and the same holds for the start of a session - in     *)
(* Python as long as the host's attributes are those the schema knows.     *)
PayloadsAreAccepted ==
  /\ /\ given.for = "event"
     /\ FollowsTheSchema(given.event, given.who)
     /\ FitsTheContext(given.event, given.page)
     => \A inTime \in Times :
          LET ts == buildEnvelope(enrichPageContext(given.event, given.page), given.who, inTime)
              py == pyBuildEnvelope(given.event, given.who, inTime)
          IN  /\ EventBatchRequest(<<ts>>)
              /\ DOMAIN given.event \subseteq DOMAIN ts
              /\ "context" \in DOMAIN given.event =>
                   \A key \in DOMAIN given.event["context"] :
                     ts.context[key] = given.event["context"][key]
              /\ "sessionId" \in DOMAIN given.event => EventBatchRequest(<<py>>)
  /\ given.for = "session" /\ (DOMAIN given.who # {} => Actor(given.who)) =>
       /\ SessionStartRequest(buildStartPayload(given.who, given.attrs["userAgent"]))
       /\ KnownAttributes(given.attrs) =>
            SessionStartRequest(pyBuildStartPayload(given.who, given.attrs))

=============================================================================
