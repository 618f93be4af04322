-------------------------------- MODULE Masking --------------------------------
(***************************************************************************)
(* What the TypeScript SDK says about elements and addresses:              *)
(* shouldMaskElement of scrubber.ts, autocapture/selector.ts,              *)
(* autocapture/url.ts and the handler of autocapture/error-resource.ts.    *)
(*                                                                         *)
(* An element is a record of what these functions read of it; `attrs` maps *)
(* the attributes it has to their values and `hooks` are its data-rt-*     *)
(* attributes in order.  An attribute value is a fragment of Scrubber or   *)
(* Prose.  A target is the chain from an element to the root.  A           *)
(* descriptor is a text of Scrubber, its punctuation left out.             *)
(*                                                                         *)
(* Left out: values over 48 characters, which count as Prose, and cutting  *)
(* descriptors at 256 and addresses at 512 characters.                     *)
(***************************************************************************)
EXTENDS ScrubberRules

CONSTANTS MAX_MASK_DEPTH,      \* ancestors asked whether they are masked: 32
          MAX_SELECTOR_DEPTH,  \* elements in a descriptor: 4
          MAX_FORM_DEPTH       \* ancestors on the way to a form: 8

Prose == [shape |-> "prose"]
Masked == [shape |-> "masked"]
TagName(tag) == [shape |-> "tag", tag |-> tag]

-----------------------------------------------------------------------------
(* Sensitive elements.                                                     *)

(* The rule that masks an element, or NoRule; `matches` are the selectors  *)
(* an element matches, and one that is not valid matches nothing.          *)
NoRule == "none"

matchingMaskRuleId(el, userSelectors) ==
  IF el.tag = "input" /\ el.type = "password" THEN "attr:password-input"
  ELSE IF "data-rt-mask" \in DOMAIN el.attrs THEN "attr:data-rt-mask"
  ELSE IF "data-private" \in DOMAIN el.attrs THEN "attr:data-private"
  ELSE IF userSelectors \cap el.matches # {} THEN USER_CONFIGURED
  ELSE NoRule

shouldMaskElement(el, userSelectors) ==
  \/ el.tag = "input" /\ el.type = "password"
  \/ {"data-rt-mask", "data-private"} \cap DOMAIN el.attrs # {}
  \/ userSelectors \cap el.matches # {}

-----------------------------------------------------------------------------
(* Descriptors.                                                            *)

(* No white space, no mark that an identifier has not, and ASCII. *)
isSafeAttrToken(value) == value.shape \notin {"prose", "email", "foreign", "bordered"}

(* An at sign, or five digits in a row. *)
looksLikePii(value) == value.shape = "email" \/ (IsRun(value) /\ Len(value.digits) >= 5)

Safe(value) == isSafeAttrToken(value) /\ ~looksLikePii(value)

(* The value as a text: empty when the attribute is missing or not safe. *)
safeAttr(el, name) ==
  IF name \in DOMAIN el.attrs /\ Safe(el.attrs[name]) THEN <<el.attrs[name]>> ELSE <<>>

safeClassToken(el) ==
  LET safe == {i \in DOMAIN el.classes : Safe(el.classes[i])}
  IN  IF safe = {} THEN <<>> ELSE <<el.classes[Min(safe)]>>

(* A hook gives its name, whatever it is, and its value when that is safe. *)
HookText(hook) == <<hook.name>> \o (IF Safe(hook.value) THEN <<hook.value>> ELSE <<>>)

describeElement(el, userSelectors) ==
  IF shouldMaskElement(el, userSelectors) THEN <<Masked>>
  ELSE LET onlyFor(tags, name) == IF el.tag \in tags THEN safeAttr(el, name) ELSE <<>>
           id == safeAttr(el, "id")
       IN  FlattenSeq(<<
             <<TagName(el.tag)>>,
             safeAttr(el, "role"),
             FlattenSeq([i \in DOMAIN el.hooks |-> HookText(el.hooks[i])]),
             onlyFor({"input", "button"}, "type"),
             onlyFor({"input", "select", "textarea"}, "name"),
             IF id # <<>> THEN id ELSE safeClassToken(el)>>)

AtMost(chain, n) == SubSeq(chain, 1, IF Len(chain) < n THEN Len(chain) ELSE n)

(* Mutant of isMaskedTarget: only the elements that are described. *)
isMaskedTargetInPath(chain, userSelectors) ==
  \E i \in DOMAIN AtMost(chain, MAX_SELECTOR_DEPTH) : shouldMaskElement(chain[i], userSelectors)

isMaskedTarget(chain, userSelectors) ==
  \E i \in DOMAIN AtMost(chain, MAX_MASK_DEPTH) : shouldMaskElement(chain[i], userSelectors)

(* The elements of the descriptor: up to the body, from the outermost. *)
PathOf(chain) ==
  LET path == AtMost(chain, MAX_SELECTOR_DEPTH)
      stop == {i \in DOMAIN path : path[i].tag \in {"body", "html"}}
  IN  Reverse(AtMost(path, IF stop = {} THEN Len(path) ELSE Min(stop)))

describeTarget(chain, userSelectors) ==
  CASE chain = <<>> -> <<Plain>>
    [] chain # <<>> /\ isMaskedTarget(chain, userSelectors) -> <<Masked>>
    [] OTHER -> LET path == PathOf(chain)
                IN  scrubString(FlattenSeq([i \in DOMAIN path |->
                                              describeElement(path[i], userSelectors)]))

(* The form of an element, when one is near enough; the element when the   *)
(* chain ends before; and what the walk stopped at otherwise.              *)
formStart(chain) ==
  LET forms == {i \in DOMAIN chain : chain[i].tag = "form" /\ i <= MAX_FORM_DEPTH}
  IN  CASE forms # {} -> Min(forms)
        [] forms = {} /\ Len(chain) <= MAX_FORM_DEPTH -> 1
        [] OTHER -> MAX_FORM_DEPTH + 1

describeForm(chain, userSelectors) ==
  describeTarget(SubSeq(chain, formStart(chain), Len(chain)), userSelectors)

-----------------------------------------------------------------------------
(* Addresses.  A raw address has a form ("absolute", "relative" or         *)
(* "broken"), an origin, a path, query parameters and a hash; the origin   *)
(* of an absolute address may be opaque.  What is said of it is a sequence *)
(* of pieces.                                                              *)
NoAddress == [form |-> "none"]

tryParseUrl(raw, hasBase) == raw.form = "absolute" \/ (raw.form = "relative" /\ hasBase)

(* Every parameter keeps its name and loses its value. *)
Query(params) == FlattenSeq([i \in DOMAIN params |-> <<params[i].key, "[redacted]">>])

(* An address that is not understood is cut at its question mark. *)
BeforeQuery(raw) ==
  <<raw.origin, raw.path>> \o (IF raw.params = <<>> THEN raw.hash ELSE <<>>)

scrubUrl(raw, hasBase) ==
  CASE raw.form = "none" -> <<"unknown">>
    [] raw.form # "none" /\ ~tryParseUrl(raw, hasBase) -> BeforeQuery(raw)
    [] OTHER -> (IF raw.origin = "opaque" THEN <<>> ELSE <<raw.origin>>)
                \o <<raw.path>> \o Query(raw.params)

(* The first argument of fetch: an address, or a request that has one. *)
urlFromFetchInput(input) ==
  IF input.is \in {"string", "url", "request"} THEN input.address ELSE NoAddress

methodFromFetchArgs(input, init) ==
  CASE init # "" -> init
    [] init = "" /\ input.is = "request" /\ input.method # "" -> input.method
    [] OTHER -> "GET"

(* The resource whose loading failed: src before href. *)
RESOURCE_TAGS == {"img", "script", "link", "audio", "video", "source", "track"}

resourceUrl(el) == IF el.src # NoAddress THEN el.src ELSE el.href

(* What the handler emits for an error event at a target: nothing, or one event. *)
errorResource(chain, userSelectors, hasBase) ==
  IF chain = <<>> THEN {}
  ELSE IF Head(chain).tag \notin RESOURCE_TAGS THEN {}
  ELSE {[target |-> describeTarget(chain, userSelectors),
         resourceType |-> Head(chain).tag,
         resourceUrl |-> scrubUrl(resourceUrl(Head(chain)), hasBase)]}

=============================================================================
