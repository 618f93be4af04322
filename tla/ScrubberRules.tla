----------------------------- MODULE ScrubberRules -----------------------------
(***************************************************************************)
(* What the Stage-1 scrubber finds in a text: the rules of                 *)
(* sdk/typescript/src/scrubber-rules.ts with the checksums of scrubber.ts  *)
(* and of sdk/python/resolvetrace/scrubber.py.                             *)
(*                                                                         *)
(* A text is a sequence of fragments that no rule joins: an e-mail         *)
(* address, a social security number, a run of digits with or without a    *)
(* plus sign, or plain words.  A run keeps its digits, for the checksums.  *)
(* Digits are those of ASCII and nothing that is not ASCII stands beside   *)
(* them; the two fragments that are otherwise are named for the rule that  *)
(* would find them.  The patterns are compiled twice, in the dialect of    *)
(* ECMAScript ("ecma") and in that of Python ("python").                   *)
(*                                                                         *)
(* Left out: digit groups written with separators, and what a text keeps   *)
(* of a run longer than the rule that found it (a phone number ends after  *)
(* fifteen digits), numbers that mix digits of several scripts, and        *)
(* letters that are like one of ASCII but for their case.                  *)
(***************************************************************************)
EXTENDS Integers, Sequences, FiniteSets, SequencesExt

(* Fragments. *)
Plain == [shape |-> "plain"]
Email == [shape |-> "email"]
Ssn == [shape |-> "ssn"]
Run(digits, plus) == [shape |-> "run", digits |-> digits, plus |-> plus]

(* A number in digits of another script, and one with a letter beside it   *)
(* that is not ASCII.                                                      *)
Foreign(rule) == [shape |-> "foreign", rule |-> rule]
Bordered(rule) == [shape |-> "bordered", rule |-> rule]

redactionToken(rule) == [shape |-> "redacted", rule |-> rule]
USER_CONFIGURED == "selector:user-configured"

(* What a host may have written, and what of it both dialects read alike. *)
PortableFragment ==
  {Plain, Email, Ssn} \cup [shape : {"run"}, digits : Seq(0..9), plus : BOOLEAN]

RawFragment ==
  PortableFragment
    \cup [shape : {"foreign", "bordered"}, rule : {"ssn-us", "sin-ca", "creditcard", "phone-e164"}]

-----------------------------------------------------------------------------
(* The checksums.                                                          *)

Doubled(d) == IF 2 * d > 9 THEN 2 * d - 9 ELSE 2 * d

(* The terms added up one after the other. *)
SumOf(terms) ==
  LET upTo[n \in 0..Len(terms)] == IF n = 0 THEN 0 ELSE upTo[n - 1] + terms[n]
  IN  upTo[Len(terms)]

(* luhn() in TypeScript: from the right, every second digit is doubled. *)
luhnTerms(digits) ==
  LET fromRight(i) == digits[Len(digits) + 1 - i]
  IN  [i \in DOMAIN digits |-> IF i % 2 = 0 THEN Doubled(fromRight(i)) ELSE fromRight(i)]

luhn(digits) == Len(digits) >= 2 /\ SumOf(luhnTerms(digits)) % 10 = 0

(* _luhn_valid() in Python: from the left, by the parity of the length. *)
luhnValidTerms(digits) ==
  [i \in DOMAIN digits |-> IF (i - 1) % 2 = Len(digits) % 2 THEN Doubled(digits[i]) ELSE digits[i]]

luhnValid(digits) == Len(digits) >= 2 /\ SumOf(luhnValidTerms(digits)) % 10 = 0

(* Mutant of sinWeight: the weights start with 2. *)
sinWeightSwapped(i) == IF i % 2 = 0 THEN 1 ELSE 2

sinWeight(i) == IF i % 2 = 0 THEN 2 ELSE 1

(* The digits of a product are added. *)
DigitsAdded(p) == IF p > 9 THEN (p \div 10) + (p % 10) ELSE p

(* validSin(), _valid_sin(): the digits, each with its weight. *)
sinTerms(digits) == [i \in DOMAIN digits |-> DigitsAdded(digits[i] * sinWeight(i))]

validSin(digits) == Len(digits) = 9 /\ SumOf(sinTerms(digits)) % 10 = 0

-----------------------------------------------------------------------------
(* The rules, in the order of the matrix.                                  *)
Rules == <<"email", "ssn-us", "sin-ca", "creditcard", "phone-e164">>

RuleNames == ToSet(Rules) \cup {USER_CONFIGURED}

(* What a scrubbed text may have in it. *)
Fragment ==
  RawFragment \cup [shape : {"redacted"}, rule : RuleNames] \cup {[shape |-> "overflow"]}

IsRun(fragment) == fragment.shape = "run"

(* The checksum of a card, in the SDK that speaks the dialect. *)
cardIsValid(digits, dialect) == IF dialect = "ecma" THEN luhn(digits) ELSE luhnValid(digits)

(* The pattern of the rule matches the fragment and its post-check passes. *)
(* In Python \d is a digit of any script, but a checksum is over those of  *)
(* ASCII; and a letter of any script is part of a word, so that there is   *)
(* no boundary \b between it and a digit.                                  *)
Detects(rule, fragment, dialect) ==
  \/ rule = "email" /\ fragment.shape = "email"
  \/ rule = "ssn-us" /\ fragment.shape = "ssn"
  \/ rule = "sin-ca" /\ IsRun(fragment) /\ validSin(fragment.digits)
  \/ /\ rule = "creditcard" /\ IsRun(fragment)
     /\ Len(fragment.digits) \in 13..19
     /\ cardIsValid(fragment.digits, dialect)
  \/ /\ rule = "phone-e164" /\ IsRun(fragment)
     /\ fragment.plus
     /\ Len(fragment.digits) >= 8
  \/ /\ fragment = Foreign(rule)
     /\ dialect = "python"
     /\ rule \in {"ssn-us", "phone-e164"}
  \/ /\ fragment = Bordered(rule)
     /\ dialect = "ecma" \/ rule = "phone-e164"

(* One pass of a rule over the text. *)
Pass(text, rule, dialect) ==
  [i \in DOMAIN text |-> IF Detects(rule, text[i], dialect) THEN redactionToken(rule) ELSE text[i]]

(* A pass for every rule, in the order of the matrix. *)
Redacted(text, dialect) ==
  LET after[n \in 0..Len(Rules)] ==
        IF n = 0 THEN text ELSE Pass(after[n - 1], Rules[n], dialect)
  IN  after[Len(Rules)]

RulesIn(text) == {text[i].rule : i \in {j \in DOMAIN text : text[j].shape = "redacted"}}

scrubString(text) == Redacted(text, "ecma")

redactDetections(text) == Redacted(text, "python")

(* No rule of the dialect finds anything in a fragment that is still there. *)
IsClean(fragment, dialect) == \A i \in DOMAIN Rules : ~Detects(Rules[i], fragment, dialect)

=============================================================================
