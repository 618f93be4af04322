-------------------------------- MODULE Envelope --------------------------------
(***************************************************************************)
(* What the SDKs send and what the schema accepts: envelope.ts,            *)
(* enrichPageContext() of client.ts and buildStartPayload() of session.ts; *)
(* envelope.py and build_start_payload() of session.py; the request bodies *)
(* of schemas/src/events.ts and schemas/src/session.ts.                    *)
(*                                                                         *)
(* An object is a function from its keys.  A string is its length, unless  *)
(* a rule reads it: an event type has a class (canonical, custom, reserved *)
(* for a canonical namespace, or malformed), an identifier and a date are  *)
(* well formed or not.  Attributes are a bag of Scrubber.                  *)
(*                                                                         *)
(* Left out: the identity of the SDK and the versions, which are constants.*)
(***************************************************************************)
EXTENDS Scrubber

ULID == "ulid"
DATE == "date-time"

(* The fields of both, those of the first where both have one. *)
Over(f, g) == [key \in DOMAIN f \cup DOMAIN g |-> IF key \in DOMAIN f THEN f[key] ELSE g[key]]

With(object, field, value) == Over([key \in {field} |-> value], object)

(* The object with the fields of all parts, of which no two share one. *)
Object(parts) ==
  [key \in UNION {DOMAIN parts[i] : i \in DOMAIN parts} |->
     parts[CHOOSE i \in DOMAIN parts : key \in DOMAIN parts[i]][key]]

Refused == [refused |-> TRUE]

-----------------------------------------------------------------------------
(* The schema.                                                             *)

(* Every key that must be there, no key that may not, every value right. *)
Fits(object, required, optional, Right(_, _)) ==
  /\ required \subseteq DOMAIN object
  /\ DOMAIN object \subseteq required \cup optional
  /\ \A key \in DOMAIN object : Right(key, object[key])

EventType(type) == type.class \in {"canonical", "custom"} /\ type.length \in 1..128

(* A key has at least 1 and at most 128 characters. *)
EventAttributes(bag) ==
  bag.kind = "bag" /\ \A i \in DOMAIN bag.items : bag.items[i].key \notin {"", "overlong"}

ScrubberReport(report) == report.applied \subseteq ToSet(Rules) \cup {"overflow_fallback"}

Actor(actor) ==
  Fits(actor, {"userId"}, {"traits"}, LAMBDA key, value : key = "userId" => value \in 1..128)

DiagnosticsLevels == {"essential", "standard", "assisted_support"}

(* The longest value of each text of a context. *)
ContextTexts ==
  [releaseVersion |-> 256, locale |-> 64, market |-> 64, routeName |-> 256, routeType |-> 64,
   componentId |-> 256, componentType |-> 128, browserFamily |-> 64, browserVersion |-> 64,
   osFamily |-> 64, deviceType |-> 64, experimentVariant |-> 128, networkState |-> 64,
   pageUrl |-> 2048, supportCode |-> 64]

ContextCore == {"releaseVersion", "locale", "market", "diagnosticsLevel"}

EventContext(context) ==
  Fits(context, ContextCore,
       DOMAIN ContextTexts \cup {"viewportWidth", "viewportHeight", "featureFlags"},
       LAMBDA key, value :
         CASE key = "diagnosticsLevel" -> value \in DiagnosticsLevels
           [] key \in DOMAIN ContextTexts ->
                value \in (IF key \in ContextCore THEN 1 ELSE 0)..ContextTexts[key]
           [] key \in {"viewportWidth", "viewportHeight"} -> value >= 0
           [] OTHER -> TRUE)

EventEnvelope(envelope) ==
  Fits(envelope, {"eventId", "type", "capturedAt", "scrubber"},
       {"sessionId", "context", "severity", "durationMs", "httpStatus", "attributes",
        "clockSkewDetected", "actor"},
       LAMBDA key, value :
         CASE key \in {"eventId", "sessionId"} -> value = ULID
           [] key = "type" -> EventType(value)
           [] key = "capturedAt" -> value = DATE
           [] key = "scrubber" -> ScrubberReport(value)
           [] key = "context" -> EventContext(value)
           [] key = "severity" -> value \in {"info", "warn", "error"}
           [] key = "durationMs" -> value >= 0
           [] key = "httpStatus" -> value \in 100..599
           [] key = "attributes" -> EventAttributes(value)
           [] key = "actor" -> Actor(value)
           [] OTHER -> TRUE)

EventBatchRequest(events) ==
  Len(events) \in 1..100 /\ \A i \in DOMAIN events : EventEnvelope(events[i])

SessionClient(client) ==
  Fits(client, {}, {"userAgent", "locale", "timezone", "viewport"},
       LAMBDA key, value : key = "userAgent" => value \in 1..512)

ReleaseChannels == {"production", "staging", "development", "canary"}

SessionStartRequest(body) ==
  Fits(body, {"sessionId", "startedAt"},
       {"appVersion", "releaseChannel", "client", "userAnonId", "identify"},
       LAMBDA key, value :
         CASE key = "sessionId" -> value = ULID
           [] key = "startedAt" -> value = DATE
           [] key = "appVersion" -> value \in 1..64
           [] key = "releaseChannel" -> value \in ReleaseChannels
           [] key = "client" -> SessionClient(value)
           [] key = "userAnonId" -> value \in 1..128
           [] OTHER -> Actor(value))

-----------------------------------------------------------------------------
(* The TypeScript SDK.                                                     *)

PAGE_CONTEXT_EVENT_TYPES == {"view.start", "page_view"}

(* The fields of the page that are not there yet, as attributes. *)
PageItems(page, names) ==
  LET keys == SetToSeq(DOMAIN page \ names)
      value(key) == IF key = "pageUrl" THEN TextValue(<<Plain>>) ELSE Scalar
  IN  [i \in DOMAIN keys |-> Item(keys[i], value(keys[i]))]

(* The attributes with the page under "context", where what is there already *)
(* wins; the other attributes stay.                                        *)
WithPage(attributes, page) ==
  LET items == attributes.items
      at == {i \in DOMAIN items : items[i].key = "context"}
      old == CHOOSE i \in at : TRUE
      mine == IF at # {} /\ IsTree(items[old].value) THEN items[old].value.items ELSE <<>>
      names == {mine[i].key : i \in DOMAIN mine}
      context == Tree("bag", PageItems(page, names) \o mine)
  IN  Tree("bag", IF at = {} THEN Append(items, Item("context", context))
                  ELSE [items EXCEPT ![old].value = context])

IsPageEvent(event) == event.type.name \in PAGE_CONTEXT_EVENT_TYPES

(* Mutant of enrichPageContext: the page always goes to the context. *)
enrichPageContextAlways(event, page) ==
  IF DOMAIN page = {} \/ ~IsPageEvent(event) THEN event
  ELSE With(event, "context",
            Over(IF "context" \in DOMAIN event THEN event["context"] ELSE <<>>, page))

(* The page of an event that is about one; no page outside a browser. *)
enrichPageContext(event, page) ==
  CASE DOMAIN page = {} \/ ~IsPageEvent(event) -> event
    [] DOMAIN page # {} /\ IsPageEvent(event) /\ "context" \in DOMAIN event ->
         With(event, "context", Over(event["context"], page))
    [] OTHER ->
         With(event, "attributes",
              WithPage(IF "attributes" \in DOMAIN event THEN event["attributes"]
                       ELSE Tree("bag", <<>>), page))

(* The pattern has no reserved names. *)
TypeIsWellFormed(type) == type.class # "malformed" /\ type.length <= 128

Carried(event, keys) == [key \in keys \cap DOMAIN event |-> event[key]]

(* Attributes that are not given are not scrubbed and not sent. *)
Scrubbed(event, Scrub(_)) ==
  IF "attributes" \notin DOMAIN event
  THEN [sent |-> <<>>, report |-> [applied |-> {}, exceeded |-> FALSE]]
  ELSE LET out == Scrub(event["attributes"])
       IN  [sent |-> [key \in {"attributes"} |-> out.value],
            report |-> [applied |-> out.applied, exceeded |-> out.exceeded]]

(* The actor is a function; the empty one is none. *)
ActorField(actor) == [key \in IF DOMAIN actor = {} THEN {} ELSE {"actor"} |-> actor]

buildEnvelope(event, actor, inTime) ==
  LET scrubbed == Scrubbed(event, LAMBDA bag : scrubAttributes(bag, inTime))
  IN  IF \/ ~TypeIsWellFormed(event.type)
         \/ "sessionId" \in DOMAIN event /\ event["sessionId"] # ULID
         \/ "capturedAt" \in DOMAIN event /\ event["capturedAt"] # DATE
      THEN Refused
      ELSE Object(<<
             [eventId |-> ULID, type |-> event.type, capturedAt |-> DATE,
              scrubber |-> scrubbed.report],
             Carried(event, {"sessionId", "context", "severity", "durationMs", "httpStatus"}),
             scrubbed.sent,
             ActorField(actor)>>)

(* The user agent is cut at 512 characters; outside a browser there is none. *)
Client(userAgent) == [userAgent |-> IF userAgent > 512 THEN 512 ELSE userAgent]

IdentifyField(identity) == [key \in IF DOMAIN identity = {} THEN {} ELSE {"identify"} |-> identity]

ClientField(userAgent) == [key \in IF userAgent = 0 THEN {} ELSE {"client"} |-> Client(userAgent)]

buildStartPayload(identity, userAgent) ==
  Object(<<[sessionId |-> ULID, startedAt |-> DATE], ClientField(userAgent),
           IdentifyField(identity)>>)

-----------------------------------------------------------------------------
(* The Python SDK.                                                         *)

(* A number that is zero is taken for one that is missing. *)
NonZero(event, keys) ==
  LET given == {key \in keys \cap DOMAIN event : event[key] # 0}
  IN  [key \in given |-> event[key]]

(* The client scrubs before it builds; a session is required. *)
pyBuildEnvelope(event, actor, inTime) ==
  LET scrubbed == Scrubbed(event, LAMBDA bag : pyScrub(bag, inTime, {}))
  IN  IF ~EventType(event.type) \/ "sessionId" \notin DOMAIN event
      THEN Refused
      ELSE Object(<<
             [eventId |-> ULID, type |-> event.type,
              capturedAt |-> IF "capturedAt" \in DOMAIN event THEN event["capturedAt"] ELSE DATE,
              scrubber |-> scrubbed.report],
             Carried(event, {"sessionId", "context", "severity"}),
             NonZero(event, {"durationMs", "httpStatus"}),
             scrubbed.sent,
             ActorField(actor)>>)

START_FIELDS == {"appVersion", "releaseChannel", "userAnonId"}

IsEmpty(key, value) == value = IF key = "releaseChannel" THEN "" ELSE 0

(* The fields the schema knows leave the host's bag, and so does the user  *)
(* agent; those that are empty are not sent, and what is left goes along   *)
(* as attributes.                                                          *)
pyBuildStartPayload(identity, attrs) ==
  LET left == DOMAIN attrs \ (START_FIELDS \cup {"userAgent"})
      known == {key \in START_FIELDS \cap DOMAIN attrs : ~IsEmpty(key, attrs[key])}
      client == IF "userAgent" \in DOMAIN attrs THEN attrs["userAgent"] ELSE 0
  IN  Object(<<
        [sessionId |-> ULID, startedAt |-> DATE],
        Carried(attrs, known),
        ClientField(client),
        [key \in IF left = {} THEN {} ELSE {"attributes"} |-> Carried(attrs, left)],
        IdentifyField(identity)>>)

=============================================================================
