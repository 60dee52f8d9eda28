------------------------ MODULE UnobtrusiveAdapters ------------------------
(***************************************************************************)
(* jquery.validate.unobtrusive.js, the script the Public front end loads   *)
(* beside every form it validates: how the data-val-* attributes that      *)
(* ASP.NET writes for the annotations of a view model become the rules of  *)
(* the jQuery validation plugin.                                           *)
(*                                                                         *)
(* The name of a field is the sequence of its parts ("Input.Email" is      *)
(* <<"Input", "Email">>), the value of a field the sequence of its         *)
(* characters, and the parameter of a rule a sequence too: <<>> is true.   *)
(* escapeAttributeValue makes a selector match exactly the field of that   *)
(* name, hence the equality of names here.                                 *)
(***************************************************************************)
EXTENDS Naturals, FiniteSets, SequencesExt

CONSTANTS
    HasExtension,    \* whether additional-methods.js is on the page too
    Accepts(_, _, _) \* Accepts(rule, param, value): the verdict of the built-in
                     \* methods Passes does not spell out

ASSUME HasExtensionAssumption == HasExtension \in BOOLEAN

Undefined == "undefined"
True == <<>>
OrElse(x, default) == IF x = Undefined THEN default ELSE x

(***************************************************************************)
(* An element is a record: its name, whether it is a checkbox, and attrs,  *)
(* which maps each adapter the element has an attribute for to the message *)
(* and to the parameters that are there.                                   *)
(***************************************************************************)
Has(o, param) == param \in DOMAIN o.params

(* The object f once its property k has been set to x.                     *)
Put(f, k, x) == [j \in DOMAIN f \cup {k} |-> IF j = k THEN x ELSE f[j]]

setMessage(o, ruleName) ==
  [o EXCEPT !.messages = IF o.message = "" THEN @ ELSE Put(@, ruleName, o.message)]

setValidationValues(o, ruleName, value) ==
  [setMessage(o, ruleName) EXCEPT !.rules = Put(@, ruleName, value)]

(* The value undefined: no rule once validate() has copied the options.    *)
setUndefined(o, ruleName) ==
  [setMessage(o, ruleName) EXCEPT !.rules = Restrict(@, DOMAIN @ \ {ruleName})]

(* As if the prefix were lost.                                             *)
NoModelPrefix(fieldName) == <<>>

getModelPrefix(fieldName) == Front(fieldName)

appendModelPrefix(value, prefix) ==
  IF Head(value) = "*" THEN prefix \o Tail(value) ELSE value

-----------------------------------------------------------------------------
(* What each kind of adapter does to the options of an element.            *)
AdaptBool(o, fn) == setValidationValues(o, fn.rule, True)

(* The limits are read as min and max whatever the attributes are called.  *)
AdaptMinMax(o, fn) ==
  CASE Has(o, "min") /\ Has(o, "max") ->
         setValidationValues(o, fn.minMaxRule, o.params["min"] \o o.params["max"])
    [] Has(o, "min") /\ ~Has(o, "max") ->
         setValidationValues(o, fn.minRule, o.params["min"])
    [] ~Has(o, "min") /\ Has(o, "max") ->
         setValidationValues(o, fn.maxRule, o.params["max"])
    [] OTHER -> o

AdaptValue(o, ruleName, param) ==
  IF Has(o, param) THEN setValidationValues(o, ruleName, o.params[param])
                   ELSE setUndefined(o, ruleName)

AdaptSingleVal(o, fn) == AdaptValue(o, fn.rule, fn.attribute)

(* The element to compare with is looked up while the form is parsed.      *)
AdaptEqualTo(o) ==
  LET fullOtherName == appendModelPrefix(o.params["other"],
                                         getModelPrefix(o.element.name))
  IN  IF fullOtherName \in o.form
        THEN setValidationValues(o, "equalTo", fullOtherName)
        ELSE setUndefined(o, "equalTo")

(* As if a checkbox had to be checked.                                     *)
RequiredWhateverElement(o) == setValidationValues(o, "required", True)

AdaptRequired(o) ==
  IF o.element.checkbox THEN o ELSE setValidationValues(o, "required", True)

(* The names of the fields whose values the server is sent: the values     *)
(* are read when the request is made.                                      *)
AdaptRemote(o) ==
  LET prefix == getModelPrefix(o.element.name)
      fields == IF Has(o, "additionalfields")
                  THEN o.params["additionalfields"] ELSE <<o.element.name>>
  IN  setValidationValues(o, "remote",
        [i \in DOMAIN fields |-> appendModelPrefix(fields[i], prefix)])

AdaptParam(o, param, ruleName) ==
  IF Has(o, param) THEN setValidationValues(o, ruleName, o.params[param]) ELSE o

AdaptPassword(o) ==
  AdaptParam(AdaptParam(AdaptParam(o, "min", "minlength"),
                        "nonalphamin", "nonalphamin"),
             "regex", "regex")

AdaptFileExtensions(o) ==
  AdaptValue(o, "extension", "extensions")

Adapt(adapter, o) ==
  LET fn == adapter.fn IN
  CASE fn.kind = "bool"           -> AdaptBool(o, fn)
    [] fn.kind = "minmax"         -> AdaptMinMax(o, fn)
    [] fn.kind = "single"         -> AdaptSingleVal(o, fn)
    [] fn.kind = "equalto"        -> AdaptEqualTo(o)
    [] fn.kind = "required"       -> AdaptRequired(o)
    [] fn.kind = "remote"         -> AdaptRemote(o)
    [] fn.kind = "password"       -> AdaptPassword(o)
    [] fn.kind = "fileextensions" -> AdaptFileExtensions(o)

-----------------------------------------------------------------------------
(* The adapters the script registers, in the order it does.                *)
add(adapterName, params, fn) ==
  [name |-> adapterName, params |-> params, fn |-> fn]

addBool(adapterName, ruleName) ==
  add(adapterName, {}, [kind |-> "bool", rule |-> OrElse(ruleName, adapterName)])

addMinMax(adapterName, minRule, maxRule, minMaxRule, minAttribute, maxAttribute) ==
  add(adapterName, {OrElse(minAttribute, "min"), OrElse(maxAttribute, "max")},
      [kind |-> "minmax", minRule |-> minRule, maxRule |-> maxRule,
       minMaxRule |-> minMaxRule])

addSingleVal(adapterName, attribute, ruleName) ==
  add(adapterName, {OrElse(attribute, "val")},
      [kind |-> "single", attribute |-> attribute,
       rule |-> OrElse(ruleName, adapterName)])

fileAdapters ==
  IF HasExtension
    THEN <<addSingleVal("accept", "mimtype", Undefined),
           addSingleVal("extension", "extension", Undefined)>>
    ELSE <<addSingleVal("extension", "extension", "accept")>>

ruleAdapters ==
  <<addSingleVal("regex", "pattern", Undefined),
    addBool("creditcard", Undefined), addBool("date", Undefined),
    addBool("digits", Undefined), addBool("email", Undefined),
    addBool("number", Undefined), addBool("url", Undefined),
    addMinMax("length", "minlength", "maxlength", "rangelength",
              Undefined, Undefined),
    addMinMax("range", "min", "max", "range", Undefined, Undefined),
    addMinMax("minlength", "minlength", Undefined, Undefined,
              Undefined, Undefined),
    addMinMax("maxlength", "minlength", "maxlength", Undefined,
              Undefined, Undefined),
    add("equalto", {"other"}, [kind |-> "equalto"]),
    add("required", {}, [kind |-> "required"]),
    add("remote", {"url", "type", "additionalfields"}, [kind |-> "remote"]),
    add("password", {"min", "nonalphamin", "regex"}, [kind |-> "password"]),
    add("fileextensions", {"extensions"}, [kind |-> "fileextensions"])>>

adapters == fileAdapters \o ruleAdapters

(* An adapter is given the parameters it names, if the element has an      *)
(* attribute for it.                                                       *)
Offer(o, adapter) ==
  IF adapter.name \in DOMAIN o.element.attrs
    THEN LET attr == o.element.attrs[adapter.name] IN
         Adapt(adapter,
               [o EXCEPT !.message = attr.message,
                         !.params = Restrict(attr.params,
                             adapter.params \cap DOMAIN attr.params)])
    ELSE o

(***************************************************************************)
(* The rules and messages of one element of a form whose fields have the   *)
(* names form: what every adapter the element has an attribute for makes   *)
(* of it, and the rule that never fails.                                   *)
(***************************************************************************)
Offered(element, form) ==
  FoldLeft(Offer,
           [element |-> element, form |-> form, message |-> "", params |-> <<>>,
            rules |-> <<>>, messages |-> <<>>],
           adapters)

(* As if the rule that never fails were left out.                          *)
AdaptedWithoutDummy(element, form) ==
  [rules |-> Offered(element, form).rules,
   messages |-> Offered(element, form).messages]

Adapted(element, form) ==
  LET o == Offered(element, form) IN
  [rules |-> Put(o.rules, "__dummy__", True), messages |-> o.messages]

-----------------------------------------------------------------------------
(* The methods that judge a value. target is the value of the field        *)
(* "equalTo" compares with; "remote" asks the server and is not here. A    *)
(* rule is a name, and calling one that has no method throws.              *)
Unloaded == IF HasExtension THEN {} ELSE {"accept", "extension", "creditcard"}

Optional(value) == value = <<>>

(* An expression is a sequence of alternatives. It is tried from the left, *)
(* and what it finds first has to be the whole value.                      *)
MatchesRegex(value, alternatives) ==
  LET Found(alternative, i) ==
        /\ i + Len(alternative) - 1 <= Len(value)
        /\ SubSeq(value, i, i + Len(alternative) - 1) = alternative
      index == SelectInSeq([i \in DOMAIN value |-> i],
                 LAMBDA i : \E k \in DOMAIN alternatives :
                              Found(alternatives[k], i))
      match == SelectInSeq(alternatives, LAMBDA a : Found(a, index))
  IN  index = 1 /\ Len(alternatives[match]) = Len(value)

HasNonAlphas(value, nonalphamin) ==
  LET match == {i \in DOMAIN value : value[i] = "#"}
  IN  match # {} /\ Cardinality(match) >= nonalphamin

Passes(rule, param, value, target) ==
  CASE rule = "required"    -> value # <<>>
    [] rule = "minlength"   -> Optional(value) \/ Len(value) >= param[1]
    [] rule = "maxlength"   -> Optional(value) \/ Len(value) <= param[1]
    [] rule = "rangelength" -> Optional(value) \/ Len(value) \in param[1] .. param[2]
    [] rule = "regex"       -> Optional(value) \/ MatchesRegex(value, param)
    [] rule = "nonalphamin" -> HasNonAlphas(value, param[1])
    [] rule = "equalTo"     -> value = target
    [] rule \in {"remote", "__dummy__"} -> TRUE
    [] OTHER                -> Optional(value) \/ Accepts(rule, param, value)
=============================================================================
