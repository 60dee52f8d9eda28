-------------------------- MODULE UnobtrusiveRules --------------------------
(***************************************************************************)
(* What the client makes of the annotations of one field: an element is    *)
(* parsed, then values typed into it are checked against its rules. The    *)
(* annotations, as the server means them, are the reference.               *)
(***************************************************************************)
EXTENDS UnobtrusiveAdapters

CONSTANTS
    Elements,     \* the elements that may be parsed
    Forms,        \* the sets of names the form may have at that time
    Values        \* what may be typed

(***************************************************************************)
(* The annotations looked at, and what ASP.NET writes for them: a limit is *)
(* a number, and one on non-alphanumerical characters only if it is not    *)
(* zero; the other property of a comparison belongs to the same model.  An *)
(* expression means the same to the server and to the client if none of    *)
(* its alternatives begins another: both look for the first that is there. *)
(***************************************************************************)
Annotation == {"required", "length", "minlength", "maxlength", "regex",
               "equalto", "password"}

Limit(x) == x \in Seq(Nat) /\ Len(x) = 1

Expression(x) ==
  x \in Seq(Seq(STRING)) /\ \A a, b \in Range(x) : IsPrefix(a, b) => a = b

Written(annotation, p) ==
  /\ \A n \in DOMAIN p \cap {"min", "max", "nonalphamin"} : Limit(p[n])
  /\ \A n \in DOMAIN p \cap {"pattern", "regex"} : Expression(p[n])
  /\ annotation = "minlength" => "max" \notin DOMAIN p
  /\ annotation = "maxlength" => "min" \notin DOMAIN p
  /\ annotation = "regex" => "pattern" \in DOMAIN p
  /\ annotation = "equalto" => "other" \in DOMAIN p /\ Head(p["other"]) = "*"
  /\ "nonalphamin" \in DOMAIN p => p["nonalphamin"][1] > 0

ASSUME ElementsAssumption ==
  \A e \in Elements :
    /\ DOMAIN e.attrs \subseteq Annotation
    /\ \A a \in DOMAIN e.attrs : Written(a, e.attrs[a].params)

ASSUME ValuesAssumption == Values \subseteq Seq(STRING) /\ <<>> \in Values

VARIABLES
    el,           \* the element
    form,         \* the names of the fields of its form
    rules,        \* its rules, none before it is parsed
    value,        \* what is typed into it
    target,       \* what is typed into the field it is compared with
    verdict       \* what the validator says: "none", "valid" or "error"

vars == <<el, form, rules, value, target, verdict>>

TypeOK ==
  /\ el \in Elements /\ form \in Forms
  /\ value \in Values /\ target \in Values
  /\ verdict \in {"none", "valid", "error"}
  /\ verdict # "none" => "__dummy__" \in DOMAIN rules

Init ==
  /\ el \in Elements /\ form \in Forms
  /\ rules = <<>> /\ value = <<>> /\ target = <<>> /\ verdict = "none"

Parse ==
  /\ rules = <<>>
  /\ rules' = Adapted(el, form).rules
  /\ UNCHANGED <<el, form, value, target, verdict>>

(* The rules hold one after the other; the first that fails is the error.  *)
Check ==
  /\ rules # <<>> /\ verdict = "none"
  /\ value' \in Values /\ target' \in Values
  /\ verdict' = IF \A r \in DOMAIN rules : Passes(r, rules[r], value', target')
                  THEN "valid" ELSE "error"
  /\ UNCHANGED <<el, form, rules>>

Next == Parse \/ Check

Spec == Init /\ [][Next]_vars

-----------------------------------------------------------------------------
(* What each annotation asks of a value, with no regard to the others.     *)
Asked(annotation, p) ==
  LET Given(limit) == limit \in DOMAIN p
      NonAlphas == {i \in DOMAIN value : value[i] = "#"}
      Long(min) == value = <<>> \/ Len(value) >= min
      Short(max) == value = <<>> \/ Len(value) <= max
      OneOf(texts) == value = <<>> \/ value \in Range(texts)
  IN  CASE annotation = "required" -> el.checkbox \/ value # <<>>
        [] annotation \in {"length", "minlength", "maxlength"} ->
             /\ Given("min") => Long(p["min"][1])
             /\ Given("max") => Short(p["max"][1])
        [] annotation = "regex" -> OneOf(p["pattern"])
        [] annotation = "equalto" -> value = target
        [] annotation = "password" ->
             /\ Given("min") => Long(p["min"][1])
             /\ Given("nonalphamin") => Cardinality(NonAlphas) >= p["nonalphamin"][1]
             /\ Given("regex") => OneOf(p["regex"])

Unmet == {a \in DOMAIN el.attrs : ~Asked(a, el.attrs[a].params)}

(* Annotations that are translated to the same rule of the validator.      *)
MinLengths == {"length", "minlength", "password"}
MaxLengths == {"length", "maxlength"}
Patterns == {"regex", "password"}
Overlapping ==
  \E group \in {MinLengths, MaxLengths, Patterns} :
    \E a, b \in group \cap DOMAIN el.attrs : a # b

(* The name "*.Other" stands for: a property of the same model.            *)
Sibling == Front(el.name) \o Tail(el.attrs["equalto"].params["other"])

-----------------------------------------------------------------------------
(* The client never refuses what every annotation of the field allows,     *)
(* whatever annotations are combined: a rule that overwrites another's is  *)
(* still one that was asked for (jquery.validate.unobtrusive.js:25-30,     *)
(* :195-216).                                                              *)
NeverStricter == verdict = "error" => Unmet # {}

(* And what the client accepts meets every annotation, as long as no two   *)
(* of them become the same rule, of which only the last registered adapter *)
(* would be left, and the field to compare with is in the form when the    *)
(* element is parsed: if it comes later, the comparison is lost without a  *)
(* sign (jquery.validate.unobtrusive.js:288-319, :373-380, :412-422).      *)
ExactUnlessOverlapping ==
  /\ verdict = "valid"
  /\ ~Overlapping
  /\ "equalto" \in DOMAIN el.attrs => Sibling \in form
  => Unmet = {}
=============================================================================
