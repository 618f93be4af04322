------------------------------- MODULE Scrubber -------------------------------
(***************************************************************************)
(* The walk of the Stage-1 scrubber over a bag of attributes, twice:       *)
(* sdk/typescript/src/scrubber.ts, and                                     *)
(* sdk/python/resolvetrace/scrubber.py, which adds the mask selectors of   *)
(* the server side.                                                        *)
(*                                                                         *)
(* A value is a text, a scalar (number, boolean or null), or a list or bag *)
(* of items; MaxNesting bounds how deep it is nested.  The recursion of    *)
(* the code is along that depth: a walk over values nested up to n deep    *)
(* uses the walk over those that are one less.  The clock is the number of *)
(* visits of the walk that are still within the budget.                    *)
(*                                                                         *)
(* Left out: the digest of the rules and the duration of the report.       *)
(***************************************************************************)
EXTENDS ScrubberRules

CONSTANTS MaxNesting,    \* how deep values are nested
          Keys           \* the keys of items

ASSUME NestingAssumption == MaxNesting \in Nat

Depths == 0..MaxNesting

REDACTED_OVERFLOW == <<[shape |-> "overflow"]>>

(* Values; an item is a key with a value, and the key of a list item is    *)
(* "[]".                                                                   *)
TextValue(text) == [kind |-> "text", text |-> text]
Scalar == [kind |-> "scalar"]
Tree(kind, items) == [kind |-> kind, items |-> items]
Item(key, value) == [key |-> key, value |-> value]

IsTree(value) == value.kind \in {"list", "bag"}

(* The items whose values are in a set, and the values whose texts are. *)
ItemsOf(values) == [key : Keys, value : values]

Leaves(texts) == {Scalar} \cup [kind : {"text"}, text : texts]

Trees(values) == [kind : {"list", "bag"}, items : Seq(ItemsOf(values))]

ValuesOver(texts) ==
  LET upTo[n \in Depths] ==
        IF n = 0 THEN Leaves(texts) ELSE Leaves(texts) \cup Trees(upTo[n - 1])
  IN  upTo

(* What a host may pass. *)
RawValues == ValuesOver(Seq(RawFragment))

(* What both dialects read alike. *)
PortableValues == ValuesOver(Seq(PortableFragment))

-----------------------------------------------------------------------------
(* The walk.                                                               *)

OverflowOf(n, below) ==
  [value \in RawValues[n] |->
     CASE value.kind = "text" -> TextValue(REDACTED_OVERFLOW)
       [] IsTree(value) ->
            Tree(value.kind, [i \in DOMAIN value.items |->
                                [value.items[i] EXCEPT !.value = below[@]]])
       [] OTHER -> value]

replaceWithOverflow[n \in Depths] ==
  OverflowOf(n, IF n = 0 THEN <<>> ELSE replaceWithOverflow[n - 1])

(* Where a walk stands: visits left in time, rules applied, budget tripped. *)
Context == [inTime : Nat, applied : SUBSET RuleNames, exceeded : BOOLEAN]

Began(inTime) == [inTime |-> inTime, applied |-> {}, exceeded |-> FALSE]

Walked(value, ctx) == [value |-> value, ctx |-> ctx]

Visited(ctx) == [ctx EXCEPT !.inTime = @ - 1]

Applied(ctx, rules) == [ctx EXCEPT !.applied = @ \cup rules]

(* Once the budget tripped nothing is looked at. *)
Tripped(n, value, ctx) == Walked(replaceWithOverflow[n][value], [ctx EXCEPT !.exceeded = TRUE])

(* Mutant of Filled: what is left after the budget tripped is copied. *)
FilledRaw(n, value, ctx) == Walked(value, ctx)

(* What is left after the budget tripped is replaced. *)
Filled(n, value, ctx) == Walked(replaceWithOverflow[n][value], ctx)

(* The loop over the items of a list or a bag; n is how deep they are. *)
eachItem(n, items, ctx, visit) ==
  LET after[i \in 0..Len(items)] ==
        IF i = 0 THEN [items |-> <<>>, ctx |-> ctx]
        ELSE LET so_far == after[i - 1]
                 item == items[i]
                 out == IF so_far.ctx.exceeded THEN Filled(n, item.value, so_far.ctx)
                        ELSE visit[item][so_far.ctx]
             IN  [items |-> Append(so_far.items, Item(item.key, out.value)), ctx |-> out.ctx]
  IN  after[Len(items)]

(* A list or a bag of what the loop made of its items. *)
WalkedTree(kind, loop) == Walked(Tree(kind, loop.items), loop.ctx)

(* walk() in TypeScript. *)
WalkOf(n, below) ==
  [value \in RawValues[n] |-> [ctx \in Context |->
     IF ctx.exceeded \/ ctx.inTime = 0 THEN Tripped(n, value, ctx)
     ELSE CASE value.kind = "text" ->
                 LET out == scrubString(value.text)
                 IN  Walked(TextValue(out), Applied(Visited(ctx), RulesIn(out)))
            [] IsTree(value) ->
                 LET visit == [item \in ItemsOf(RawValues[n - 1]) |-> below[item.value]]
                 IN  WalkedTree(value.kind, eachItem(n - 1, value.items, Visited(ctx), visit))
            [] OTHER -> Walked(value, Visited(ctx))]]

walk[n \in Depths] == WalkOf(n, IF n = 0 THEN <<>> ELSE walk[n - 1])

(* The report lists the rules that were applied. *)
Report(walked) ==
  [value |-> walked.value, exceeded |-> walked.ctx.exceeded,
   applied |-> walked.ctx.applied
                 \cup IF walked.ctx.exceeded THEN {"overflow_fallback"} ELSE {}]

scrubAttributes(attributes, inTime) == Report(walk[MaxNesting][attributes][Began(inTime)])

-----------------------------------------------------------------------------
(* The walk in Python.  A path is the sequence of its keys.                *)

Paths == Seq(Keys)

selectorMatches(selectors, path) == \E s \in selectors : IsSuffix(s, path)

(* Everything under a masked key becomes the token, one level down. *)
maskValue(value) ==
  LET token == TextValue(<<redactionToken(USER_CONFIGURED)>>)
  IN  IF IsTree(value)
      THEN Tree(value.kind, [i \in DOMAIN value.items |-> [value.items[i] EXCEPT !.value = token]])
      ELSE token

(* An item of a bag that a selector names is masked, and takes no visit. *)
pyVisit(kind, path, selectors, item, below, ctx) ==
  LET itsPath == Append(path, item.key)
  IN  IF kind = "bag" /\ selectorMatches(selectors, itsPath)
      THEN Walked(maskValue(item.value), Applied(ctx, {USER_CONFIGURED}))
      ELSE below[item.value][itsPath][ctx]

(* _walk() at a path. *)
PyWalkOf(n, selectors, below) ==
  [value \in RawValues[n] |-> [path \in Paths |-> [ctx \in Context |->
     IF ctx.inTime = 0 THEN Tripped(n, value, ctx)
     ELSE CASE value.kind = "text" ->
                 LET out == redactDetections(value.text)
                 IN  Walked(TextValue(out), Applied(Visited(ctx), RulesIn(out)))
            [] IsTree(value) ->
                 LET visit == [item \in ItemsOf(RawValues[n - 1]) |-> [at \in Context |->
                                 pyVisit(value.kind, path, selectors, item, below, at)]]
                 IN  WalkedTree(value.kind, eachItem(n - 1, value.items, Visited(ctx), visit))
            [] OTHER -> Walked(value, Visited(ctx))]]]

pyWalk(selectors) ==
  LET walkTo[n \in Depths] == PyWalkOf(n, selectors, IF n = 0 THEN <<>> ELSE walkTo[n - 1])
  IN  walkTo

pyScrub(attributes, inTime, selectors) ==
  Report(pyWalk(selectors)[MaxNesting][attributes][<<>>][Began(inTime)])

-----------------------------------------------------------------------------
(* What a scrubbed value looks like, beside the raw one.                   *)

(* A masked value is the token, or a list or bag of tokens. *)
IsMasked(value) ==
  LET token == TextValue(<<redactionToken(USER_CONFIGURED)>>)
  IN  value = token \/ (IsTree(value) /\ \A i \in DOMAIN value.items : value.items[i].value = token)

(* Every key and every item is still there; a leaf is a leaf. *)
Alike(n, below) ==
  {pair \in RawValues[n] \X ValuesOver(Seq(Fragment))[n] :
     LET raw == pair[1]
         out == pair[2]
     IN  IF IsTree(raw)
         THEN /\ out.kind = raw.kind
              /\ Len(out.items) = Len(raw.items)
              /\ \A i \in DOMAIN raw.items :
                   /\ out.items[i].key = raw.items[i].key
                   /\ \/ <<raw.items[i].value, out.items[i].value>> \in below
                      \/ IsMasked(out.items[i].value)
         ELSE ~IsTree(out)}

SameShape[n \in Depths] == Alike(n, IF n = 0 THEN {} ELSE SameShape[n - 1])

=============================================================================
