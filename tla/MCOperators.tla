------------------------------ MODULE MCOperators ------------------------------
(* Bounded inputs of Operators and Payloads for TLC.                                    *)
EXTENDS Payloads

-----------------------------------------------------------------------------
(* Attribute bags: two items, each a leaf or a tree of up to two leaves.   *)
Card == <<4,1,1,1,1,1,1,1,1,1,1,1,1,1,1,1>>
NoCard == <<4,1,1,1,1,1,1,1,1,1,1,1,1,1,1,2>>

MCLeaves ==
  {Scalar, TextValue(<<>>), TextValue(<<Plain, Email>>), TextValue(<<Ssn, Run(NoCard, FALSE)>>),
   TextValue(<<Run(<<0,4,6,4,5,4,2,8,6>>, FALSE)>>), TextValue(<<Run(Card, TRUE), Run(<<1,2>>, TRUE)>>),
   TextValue(<<Run(<<1,2,3,4,5,6,7,8>>, TRUE)>>),
   TextValue(<<Foreign("ssn-us"), Foreign("sin-ca"), Bordered("creditcard")>>)}

MCFewLeaves == {Scalar, TextValue(<<Email>>)}

MCTrees ==
  {Tree("list", <<>>)}
  \cup {Tree("list", <<Item("[]", a), Item("[]", b)>>) : a, b \in MCFewLeaves}
  \cup {Tree("bag", <<Item("secret", a), Item("note", b)>>) : a, b \in MCFewLeaves}

MCValues ==
  {Tree("bag", <<Item("a", v), Item("secret", w)>>) : v, w \in MCLeaves \cup MCTrees}

MCTimes == 0..8

MCKeys == {"[]", "a", "secret", "note", "context", "pageUrl", "viewportWidth", "viewportHeight"}

MCSelectors == {{}, {<<"secret">>}, {<<"a", "note">>}}

(* Up to three digits, and nine of those that double over nine and not. *)
MCDigitRuns == UNION {[1..n -> 0..9] : n \in 0..3} \cup [1..9 -> {0, 4, 6}]

-----------------------------------------------------------------------------
(* Elements: what is identifying, what masks, and how far away it is.      *)
Element(tag, type, attrs, matches, hooks, classes, src, href) ==
  [tag |-> tag, type |-> type, attrs |-> attrs, matches |-> matches, hooks |-> hooks,
   classes |-> classes, src |-> src, href |-> href]

NoAttrs == [name \in {} |-> Plain]

Some == [form |-> "absolute", origin |-> "https://host", path |-> "/path",
         params |-> <<[key |-> "k", value |-> "v"]>>, hash |-> <<"#h">>]

MCElements ==
  {Element("div", "", NoAttrs, {}, <<>>, <<Email, Run(<<1,2,3,4,5>>, FALSE), Plain>>,
           NoAddress, NoAddress),
   Element("div", "", [name \in {"data-rt-mask"} |-> Plain], {}, <<>>, <<>>, NoAddress, NoAddress),
   Element("form", "", [name \in {"id", "role"} |-> IF name = "id" THEN Ssn ELSE Plain], {},
           <<[name |-> Ssn, value |-> Prose], [name |-> Plain, value |-> Bordered("sin-ca")]>>,
           <<Foreign("ssn-us")>>, NoAddress, NoAddress),
   Element("input", "password", NoAttrs, {}, <<>>, <<>>, NoAddress, NoAddress),
   Element("input", "text", [name \in {"id", "name"} |-> IF name = "id" THEN Prose ELSE Email],
           {".private"}, <<>>, <<Prose, Ssn>>, NoAddress, NoAddress),
   Element("img", "", NoAttrs, {}, <<>>, <<>>, Some, NoAddress),
   Element("body", "", NoAttrs, {}, <<>>, <<>>, NoAddress, Some)}

MCChains == UNION {[1..n -> MCElements] : n \in 0..4}

MCUserSelectors == {{}, {".private", "not valid"}}

MCAddresses ==
  {[form |-> form, origin |-> origin, path |-> "/path", params |-> params, hash |-> hash] :
     form \in {"absolute", "relative", "broken"}, origin \in {"https://host", "opaque"},
     params \in {<<>>, <<[key |-> "k", value |-> "v"]>>, <<[key |-> "k", value |-> "w"]>>,
                 <<[key |-> "k", value |-> "v"], [key |-> "k", value |-> "w"]>>},
     hash \in {<<>>, <<"#h">>}}
  \cup {NoAddress}

-----------------------------------------------------------------------------
(* Options: a base that is fine, and up to two options replaced or added.  *)
MCOption ==
  [apiKey |-> {EmptyText, Word(" "), Text("k", 1366, 3), Text("k", 1365, 3)},
   endpoint |-> {Word("not an address"), Address("https", ""), Address("ftp", "example.com"),
                 Address("http", "example.com"), Address("http", "[::1]"),
                 Url("https", "example.com", <<>>, 2), Url("https", "example.com", <<"sub">>, 1),
                 Address("http", "printer.local"), Address("http", "app.localhost")},
   beforeSend |-> {Function, Word("f")},
   beforeSendTimeoutMs |-> {Number(0), Number(1), Number(40), Number(41), NaN, Bool(TRUE), Word("4")},
   debug |-> {Bool(TRUE), Word("yes")},
   maskSelectors |-> {List(<<Word(".private")>>), List(<<EmptyText>>), Word(".private")},
   sessionInactivityMs |->
     {Number(9990), Number(10000), Number(10005), Number(18000000), Number(18000010), Null},
   sessionMaxDurationMs |->
     {Number(9990), Number(10000), Number(432000000), Number(432000010), Bool(TRUE)},
   autoSession |-> {Bool(FALSE), Null},
   sessionAttributes |-> {Function, Null},
   tenantId |-> {Word("t")},
   autoCapture |->
     {Bool(FALSE), Null, Options([other |-> Bool(TRUE)]), Options([rageClick |-> Null]),
      Options([rageClickThreshold |-> Number(0)]), Options([rageClickThreshold |-> Number(15)]),
      Options([maxEventsPerSession |-> Number(10)]), Options([replay |-> Bool(TRUE)]),
      Options([replay |-> Options([other |-> Null])]),
      Options([replay |-> Options([sampleRate |-> Number(11)])]),
      Options([replay |-> Options([sampleRate |-> Number(5), mode |-> Word("manual"),
                                   denyRoutes |-> List(<<Word("/admin")>>)])]),
      Options([replay |-> Options([minDiagnosticsLevel |-> Word("none")])]),
      Options([replay |-> Options([blockSelector |-> Word(".mine")])]),
      Options([replay |-> Options([maskAllText |-> Bool(FALSE),
                                   maskTextSelector |-> Word(".text"),
                                   minDiagnosticsLevel |-> Word("essential")])])},
   reportWidget |->
     {Bool(TRUE), Word("yes"), Options([other |-> Null]),
      Options([enabled |-> Bool(FALSE), position |-> Word("middle")]),
      Options([position |-> Word("middle")]), Options([title |-> EmptyText]),
      Options([title |-> Word("t"), record |-> Options([clips |-> Word("multi")]),
               launcher |-> Word("icon"), policyUrl |-> Address("/", "")]),
      Options([record |-> Options([clips |-> Word("many")])]),
      Options([record |-> Options([only |-> Null])]), Options([launcher |-> Word("none")]),
      Options([policyUrl |-> Address("javascript", "")])}]

(* No inputs of a kind that a run is not about. *)
MCNone == {}

MCBase == [apiKey |-> Word("k"), endpoint |-> Address("https", "example.com")]

MCClientOptions ==
  {Restrict(MCBase, DOMAIN MCBase \ {key}) : key \in DOMAIN MCBase}
  \cup UNION {{(key :> v) @@ (other :> w) @@ MCBase : v \in MCOption[key], w \in MCOption[other]} :
                key, other \in DOMAIN MCOption}

(* Policies with one deny route more or less, asked on routes below it. *)
MCPolicy ==
  [enabled : BOOLEAN, sampleRate : {0, 5, 10}, denyRoutes : {<<>>, <<<<"a">>>>, <<<<"b">>, <<"a">>>>},
   minDiagnosticsLevel : DOMAIN Level]

MCPolicies ==
  [tight : {p \in MCPolicy : p.enabled}, loose : {p \in MCPolicy : p.sampleRate # 0},
   level : DOMAIN Level \cup {NoLevel}, route : {<<>>, <<"a", "b">>, <<"b">>}, roll : {0, 5}]

-----------------------------------------------------------------------------
(* Events with every optional field there or not, and values at a limit.   *)
MCTypes ==
  {[name |-> "page_view", class |-> "custom", length |-> 9],
   [name |-> "view.start", class |-> "canonical", length |-> 10],
   [name |-> "view.mine", class |-> "reserved", length |-> 9],
   [name |-> "no name", class |-> "malformed", length |-> 7],
   [name |-> "long", class |-> "custom", length |-> 129]}

MCContext == [releaseVersion |-> 1, locale |-> 5, market |-> 2, diagnosticsLevel |-> "standard"]

MCFields ==
  [sessionId |-> {ULID, "other"},
   capturedAt |-> {DATE, "other"},
   context |-> {MCContext, MCContext @@ [pageUrl |-> 7], [locale |-> 5]},
   severity |-> {"info", "fatal"},
   durationMs |-> {0, 10},
   httpStatus |-> {0, 200},
   attributes |-> {Tree("bag", <<>>),
                   Tree("bag", <<Item("context", Tree("bag", <<Item("pageUrl", TextValue(<<Email>>))>>))>>),
                   Tree("bag", <<Item("context", Scalar), Item("a", TextValue(<<Email>>))>>)}]

MCEvents ==
  UNION {{(key :> v) @@ (other :> w) @@ [type |-> type, sessionId |-> ULID] :
            v \in MCFields[key], w \in MCFields[other]} :
           key, other \in DOMAIN MCFields, type \in MCTypes}

MCPages == {[key \in {} |-> 0], [pageUrl |-> 2048, viewportWidth |-> 0, viewportHeight |-> 800],
            [viewportWidth |-> 1], [pageUrl |-> 2049]}

MCIdentities == {[key \in {} |-> 0], [userId |-> 128], [userId |-> 129], [userId |-> 1, traits |-> 1]}

MCHostBags ==
  {[userAgent |-> 0], [userAgent |-> 513], [userAgent |-> 512, appVersion |-> 64],
   [userAgent |-> 1, releaseChannel |-> "canary", userAnonId |-> 128],
   [userAgent |-> 1, appVersion |-> 0, releaseChannel |-> ""], [userAgent |-> 1, plan |-> 4]}

(* Times of 13 bits in three characters, five bytes of four bits in four:  *)
(* the proportions of 48 bits in ten and ten bytes in sixteen.             *)
MCMoments == (0..70) \cup {1023, 1024, 1025, 4096, 8190, 8191, 8192, -1}
MCRandomBytes == {<<0,0,0,0,0>>, <<15,15,15,15,15>>, <<1,2,4,8,15>>, <<8,0,9,1,6>>}

=============================================================================
