----------------------- MODULE UnobtrusiveValidation -----------------------
(***************************************************************************)
(* One form of a page and the validation jquery.validate.unobtrusive.js    *)
(* attaches to it, on top of the validator of jquery.validate.js: the page *)
(* parses its elements, also those it adds later, the user types, leaves a *)
(* field, submits and resets, and the server answers the remote rules at   *)
(* any later time, or never.                                               *)
(*                                                                         *)
(* JavaScript has one thread: the handler of an event, with every handler  *)
(* it triggers, is one action.                                             *)
(***************************************************************************)
EXTENDS UnobtrusiveAdapters

CONSTANTS
    Field,           \* the fields the form may have
    Name,            \* the name of each, all different
    InitialField,    \* those it has when the page is loaded
    Attributes,      \* the data-val-* attributes of each field
    Value,           \* what can be typed into each field
    Replaces,        \* fields whose container has data-valmsg-replace="true"
    MaxFields,       \* bound: how many of the fields a form has
    MaxFailures      \* bound: how many requests may fail

ASSUME FieldAssumption ==
    /\ IsFiniteSet(Field)
    /\ InitialField \subseteq Field
    /\ \A f, g \in Field : Name[f] = Name[g] => f = g
    /\ Replaces \subseteq Field
    /\ DOMAIN Value = Field /\ \A f \in Field : <<>> \in Value[f]
    /\ MaxFields \in Nat /\ MaxFailures \in Nat
    /\ \A f \in Field : "equalto" \notin DOMAIN Attributes[f]
    /\ \A f \in Field : "remote" \in DOMAIN Attributes[f] =>
         LET p == Attributes[f]["remote"].params IN
         "additionalfields" \in DOMAIN p => p["additionalfields"] \in Seq(Seq(STRING))

VARIABLES
    dom,            \* the fields the form has by now
    val,            \* the value of each field
    errorClass,     \* what the page gave as options.errorClass
    options,        \* the rules of the parsed fields, validationInfo(form)
    validator,      \* whether $form.data("validator") is there, and with it the
                    \* handlers of the form
    settings,       \* the rules the validator was created with
    v,              \* the state of the validator and what the form shows
    answers,        \* history: what the server approved about the last
                    \* question of each field
    failures        \* how many requests have failed

vars == <<dom, val, errorClass, options, validator, settings, v,
           answers, failures>>
page == <<dom, errorClass, options, validator, settings>>

None == <<>>
DefaultErrorClass == "input-validation-error"

NeverAsked == [old |-> None, valid |-> TRUE]

(***************************************************************************)
(* What the summary lists, being messages, is left out: it is its class.   *)
(* The container of a field shows an error or none; message is the span    *)
(* the validator has put into it, linked whether that span still has its   *)
(* container as data.                                                      *)
(***************************************************************************)
Container == [class : {"valid", "error"}, message : {"none", "blank", "text"},
              linked : BOOLEAN]

Question == Seq((UNION Range(Value)) \cup {<<Undefined>>})

Validator ==
  [errorMap : SUBSET Field, successList : SUBSET Field,
   invalid : [Field -> {"absent", "no", "yes"}], submitted : SUBSET Field,
   pending : SUBSET Field, pendingRequest : Nat, formSubmitted : BOOLEAN,
   previous : [Field -> [old : Question, valid : BOOLEAN]],
   request : [Field -> Question],
   container : [Field -> Container],
   summary : {"valid", "errors"},
   sent : BOOLEAN]

TypeOK ==
  /\ dom \subseteq Field
  /\ \A f \in Field : val[f] \in Value[f]
  /\ errorClass \in {DefaultErrorClass, "custom"}
  /\ DOMAIN options \subseteq dom
  /\ validator \in BOOLEAN
  /\ DOMAIN settings \subseteq DOMAIN options
  /\ v \in Validator
  /\ answers \in [Field -> Question]
  /\ failures \in 0 .. MaxFailures

-----------------------------------------------------------------------------
(* The rules of a field, and what is sent to the server about it: read     *)
(* when the question is asked.                                             *)
RulesOf(f) == IF f \in DOMAIN settings THEN settings[f] ELSE <<>>

Named(name) == {g \in dom : Name[g] = name}

Data(f, values) ==
  LET fields == RulesOf(f)["remote"] IN
  <<values[f]>> \o
  [i \in DOMAIN fields |-> IF Named(fields[i]) = {} THEN <<Undefined>>
                           ELSE values[CHOOSE g \in Named(fields[i]) : TRUE]]

LocalFails(f, values) ==
  \E r \in DOMAIN RulesOf(f) \ Unloaded :
    ~Passes(r, RulesOf(f)[r], values[f], None)

(* The loaded rules that are tried before r: in the order of the adapters, *)
(* but "required" is moved to the front.                                   *)
Ahead(r, f) ==
  CASE r = "accept"     -> {"required"}
    [] r = "creditcard" -> {"required"} \cup ({"regex"} \cap DOMAIN Attributes[f])
    [] r = "extension"  -> DOMAIN RulesOf(f) \ Unloaded

(* As if check logged the exception and went on.                           *)
ThrowsNever(f, values) == FALSE

(* check gets to a rule that has no method.                                *)
Throws(f, values) ==
  \E r \in DOMAIN RulesOf(f) \cap Unloaded :
    \A a \in Ahead(r, f) \cap DOMAIN RulesOf(f) :
      Passes(a, RulesOf(f)[a], values[f], None)

Broken(values) == \E f \in DOMAIN settings : Throws(f, values)

IsRemote(f, values) ==
  "remote" \in DOMAIN RulesOf(f) /\ ~Optional(values[f]) /\ ~LocalFails(f, values)

(* As if the plugin remembered only the value the field itself had.        *)
AsksAboutTheValue(s, f, values) ==
  /\ IsRemote(f, values)
  /\ s.previous[f].old = None \/ Head(s.previous[f].old) # values[f]

Asks(s, f, values) ==
  IsRemote(f, values) /\ s.previous[f].old # Data(f, values)

Fails(s, f, values) ==
  \/ LocalFails(f, values)
  \/ /\ IsRemote(f, values) /\ ~Asks(s, f, values)
     /\ ~s.previous[f].valid

(* An empty field whose only rule is for filled ones neither fails nor     *)
(* succeeds.                                                               *)
DependencyMismatch(f, values) ==
  /\ Cardinality(DOMAIN RulesOf(f)) = 1 /\ Optional(values[f])
  /\ DOMAIN RulesOf(f) \cap {"required", "nonalphamin", "__dummy__"} = {}

(* check of every field of fs. A new question about a field aborts the one *)
(* before it.                                                              *)
Checked(s, fs, values) ==
  LET failed == {f \in fs : Fails(s, f, values)}
      asked  == {f \in fs : Asks(s, f, values)}
  IN  [s EXCEPT
         !.errorMap = failed,
         !.successList = {f \in fs \ (failed \cup asked) :
             RulesOf(f) # <<>> /\ ~DependencyMismatch(f, values)},
         !.submitted = @ \cup failed,
         !.previous = [f \in Field |->
             IF f \in asked THEN [@[f] EXCEPT !.old = Data(f, values)] ELSE @[f]],
         !.request = [f \in Field |->
             IF f \in asked THEN Data(f, values) ELSE @[f]],
         !.pending = @ \cup asked,
         !.pendingRequest = @ + Cardinality(asked \ s.pending)]

-----------------------------------------------------------------------------
(* What the form shows. The class onError takes off the error it places    *)
(* into its container is the default one, so with that class the validator *)
(* never finds an error again and places a new one each time.              *)
onError(f, c) ==
  [c EXCEPT !.class = "error",
            !.message = IF f \in Replaces THEN "text" ELSE @,
            !.linked = f \in Replaces]

onSuccess(f, c) ==
  [c EXCEPT !.class = "valid",
            !.message = IF f \in Replaces THEN "none" ELSE @,
            !.linked = FALSE]

showLabel(f, c, failed) ==
  LET found == errorClass # DefaultErrorClass /\ c.message # "none"
      error == IF found THEN [c EXCEPT !.message = "text"] ELSE onError(f, c)
  IN  CASE failed -> error
        [] ~failed /\ found /\ ~c.linked -> [c EXCEPT !.message = "blank"]
        [] OTHER -> onSuccess(f, error)

showErrors(s) ==
  [s EXCEPT !.container = [f \in Field |->
     IF f \in s.errorMap \cup s.successList
       THEN showLabel(f, @[f], f \in s.errorMap) ELSE @[f]]]

onErrors(s) ==
  IF s.errorMap = {} THEN s
  ELSE [s EXCEPT !.summary = "errors"]

-----------------------------------------------------------------------------
(* Validator.form and Validator.element. An exception leaves the validator *)
(* as prepareElement made it.                                              *)
Interrupted(s) == [s EXCEPT !.errorMap = {}, !.successList = {}]

form(s, values) ==
  LET checked == Checked(s, DOMAIN settings, values) IN
  showErrors(onErrors([checked EXCEPT
    !.invalid = [f \in Field |->
                   IF f \in checked.errorMap THEN "yes" ELSE "absent"]]))

(* As if a field were noted as valid before it is checked.                 *)
ElementNotesFirst(s, f, values) ==
  LET checked == Checked(s, {f}, values) IN
  IF Throws(f, values) THEN [Interrupted(s) EXCEPT !.invalid[f] = "no"]
  ELSE showErrors([checked EXCEPT
         !.invalid[f] = IF f \in checked.errorMap THEN "yes" ELSE "no"])

element(s, f, values) ==
  LET checked == Checked(s, {f}, values) IN
  IF Throws(f, values) THEN Interrupted(s)
  ELSE showErrors([checked EXCEPT
         !.invalid[f] = IF f \in checked.errorMap THEN "yes" ELSE "no"])

(* The submit handler: the page leaves once nothing fails or is pending,   *)
(* and at once when a check throws, for then nothing keeps the browser     *)
(* from it. What was checked before that is gone with the page.            *)
submit(s, values) ==
  LET checked == form(s, values) IN
  CASE Broken(values) -> [s EXCEPT !.sent = TRUE]
    [] ~Broken(values) /\ checked.errorMap # {} -> checked
    [] ~Broken(values) /\ checked.errorMap = {} /\ checked.pendingRequest > 0 ->
         [checked EXCEPT !.formSubmitted = TRUE]
    [] OTHER -> [checked EXCEPT !.sent = TRUE]

(* As if a field could be asked about twice at a time.                     *)
StopRequestOnly(s, f, valid, values) ==
  [s EXCEPT !.pendingRequest = IF @ = 0 THEN 0 ELSE @ - 1]

(* No check throws here: see WaitingIsWhole.                               *)
stopRequest(s, f, valid, values) ==
  LET rest == [s EXCEPT !.pendingRequest = IF @ = 0 THEN 0 ELSE @ - 1,
                        !.pending = @ \ {f}]
      last == rest.pendingRequest = 0 /\ rest.formSubmitted
      checked == form(rest, values)
  IN  CASE valid /\ last ->
             IF checked.errorMap = {}
               THEN [submit(checked, values) EXCEPT !.formSubmitted = FALSE]
               ELSE checked
        [] ~valid /\ last -> [onErrors(rest) EXCEPT !.formSubmitted = FALSE]
        [] OTHER -> rest

(* The answer to the live request about f: the question may be older than  *)
(* the last reset, and previous is then no longer that of the field.       *)
remoteSuccess(s, f, valid, values) ==
  LET shown ==
        showErrors(
          IF valid THEN [s EXCEPT !.errorMap = {}, !.successList = {f},
                                  !.invalid[f] = "no"]
                   ELSE [s EXCEPT !.errorMap = @ \cup {f},
                                  !.successList = @ \ {f},
                                  !.invalid[f] = "yes"])
      noted == [shown EXCEPT
                  !.previous[f].valid =
                     IF s.previous[f].old = s.request[f] THEN valid ELSE @,
                  !.request[f] = None]
  IN  stopRequest(noted, f, valid, values)

(* resetForm, then what onReset does to the form.                          *)
resetForm(s) ==
  [s EXCEPT
     !.invalid = [f \in Field |-> "absent"], !.submitted = {},
     !.errorMap = {}, !.successList = {},
     !.previous = [f \in Field |->
         IF f \in DOMAIN settings THEN NeverAsked ELSE @[f]],
     !.container = [f \in Field |->
         IF errorClass # DefaultErrorClass /\ @[f].message = "text"
           THEN [@[f] EXCEPT !.message = "blank"] ELSE @[f]]]

(* As if onReset left the data of the errors alone.                        *)
ResetKeepsLinks(s) ==
  LET reset == resetForm(s) IN
  [reset EXCEPT !.summary = "valid",
                !.container = [f \in Field |-> [@[f] EXCEPT !.class = "valid"]]]

onReset(s) ==
  LET reset == resetForm(s) IN
  [reset EXCEPT
     !.summary = "valid",
     !.container = [f \in Field |->
         IF @[f].class = "error"
           THEN [@[f] EXCEPT !.class = "valid", !.linked = FALSE] ELSE @[f]]]

-----------------------------------------------------------------------------
Init ==
  /\ dom = InitialField
  /\ val = [f \in Field |-> <<>>]
  /\ errorClass \in {DefaultErrorClass, "custom"}
  /\ options = <<>> /\ settings = <<>>
  /\ validator = FALSE
  /\ v = [errorMap |-> {}, successList |-> {},
          invalid |-> [f \in Field |-> "absent"], submitted |-> {},
          pending |-> {}, pendingRequest |-> 0, formSubmitted |-> FALSE,
          previous |-> [f \in Field |-> NeverAsked],
          request |-> [f \in Field |-> None],
          container |-> [f \in Field |->
              [class |-> "valid", message |-> "none", linked |-> FALSE]],
          summary |-> "valid",
          sent |-> FALSE]
  /\ answers = [f \in Field |-> None]
  /\ failures = 0

(* The rules each field gets when it is parsed while the form has S.       *)
RulesIn ==
  [S \in SUBSET Field |-> [f \in Field |->
     Adapted([name |-> Name[f], checkbox |-> FALSE, attrs |-> Attributes[f]],
             {Name[g] : g \in S}).rules]]

(* As if every element of the page were taken for one of the form.         *)
ParsedOnThePage(S) == [f \in Field |-> RulesIn[dom][f]]

(* Parsing the elements of S replaces what an earlier parse found of them. *)
Parsed(S) ==
  [f \in DOMAIN options \cup S |->
     IF f \in S THEN RulesIn[dom][f] ELSE options[f]]

(* A validator that is there stays as it is. The reset handler is replaced *)
(* by itself: off takes off any proxy of onReset, for they share its guid. *)
attachValidation ==
  /\ validator' = TRUE
  /\ settings' = IF validator THEN settings ELSE options'

parseElement(f, skipAttach) ==
  /\ f \in dom
  /\ options' = Parsed({f})
  /\ IF skipAttach THEN UNCHANGED <<validator, settings>>
                   ELSE attachValidation
  /\ UNCHANGED <<dom, val, errorClass, v, answers, failures>>

(* The whole form, as when the document is ready, or one element of it.    *)
parse(S) ==
  /\ S \subseteq dom
  /\ options' = Parsed(S)
  /\ attachValidation
  /\ UNCHANGED <<dom, val, errorClass, v, answers, failures>>

AddField(f) ==
  /\ f \notin dom /\ Cardinality(dom) < MaxFields
  /\ dom' = dom \cup {f}
  /\ UNCHANGED <<val, errorClass, options, validator, settings, v, answers,
                 failures>>

(* An answer counts until its field is asked about anew, or reset.         *)
Note(given) ==
  LET before(f) == v.previous[f].old
      after(f)  == v'.previous[f].old
  IN  answers' = [f \in Field |->
        IF after(f) = before(f) /\ after(f) # None THEN given[f] ELSE None]

Type(f, value) ==
  /\ f \in dom /\ value # val[f]
  /\ val' = [val EXCEPT ![f] = value]
  /\ v' = IF f \in v.submitted \/ v.invalid[f] # "absent"
            THEN element(v, f, val') ELSE v
  /\ Note(answers)
  /\ UNCHANGED <<page, failures>>

FocusOut(f) ==
  /\ f \in dom /\ validator
  /\ f \in v.submitted \/ ~Optional(val[f])
  /\ v' = element(v, f, val)
  /\ Note(answers)
  /\ UNCHANGED <<page, val, failures>>

Submit ==
  /\ validator
  /\ v' = submit(v, val)
  /\ Note(answers)
  /\ UNCHANGED <<page, val, failures>>

Answer(f, valid) ==
  /\ v.request[f] # None
  /\ v' = remoteSuccess(v, f, valid, val)
  /\ Note([answers EXCEPT ![f] = IF valid THEN v.request[f] ELSE None])
  /\ UNCHANGED <<page, val, failures>>

(* There is no handler for a request that fails.                           *)
RequestFails(f) ==
  /\ v.request[f] # None /\ failures < MaxFailures
  /\ v' = [v EXCEPT !.request[f] = None]
  /\ failures' = failures + 1
  /\ UNCHANGED <<page, val, answers>>

(* The handlers run before the browser empties the fields.                 *)
Reset ==
  /\ v' = IF validator THEN onReset(v) ELSE v
  /\ val' = [f \in Field |-> <<>>]
  /\ Note(answers)
  /\ UNCHANGED <<page, failures>>

Next ==
  /\ ~v.sent
  /\ \/ \E f \in Field, skipAttach \in BOOLEAN : parseElement(f, skipAttach)
     \/ parse(dom) \/ \E f \in Field : parse({f})
     \/ \E f \in Field : AddField(f) \/ FocusOut(f) \/ RequestFails(f)
     \/ \E f \in Field : \E value \in Value[f] : Type(f, value)
     \/ \E f \in Field, valid \in BOOLEAN : Answer(f, valid)
     \/ Submit
     \/ Reset

Spec == Init /\ [][Next]_vars

-----------------------------------------------------------------------------
(* Submitting waits for the server: unless a rule without a method broke   *)
(* the check, what leaves the page has passed every rule the validator     *)
(* has, and the last thing the server said about a field with a remote     *)
(* rule is yes, to the very values that are sent, its additional fields    *)
(* included. Requests, late answers, aborted ones and failures, resets and *)
(* typing while an answer is due may come in between                       *)
(* (jquery.validate.js:105-110, :1099-1124, :1519-1526; the values are     *)
(* read at call time, jquery.validate.unobtrusive.js:395-408).             *)
SentIsChecked ==
  v.sent /\ ~Broken(val) => \A f \in DOMAIN settings :
    /\ ~LocalFails(f, val)
    /\ IsRemote(f, val) => answers[f] = Data(f, val)

(* A field about which no answer is due shows an error exactly if the      *)
(* validator holds it for invalid, though onError and onSuccess only see   *)
(* the error element. With an errorClass of the page's own an error is     *)
(* still never shown at a field that is valid, but may be missing          *)
(* (jquery.validate.unobtrusive.js:52-67, :83-97, :137).                   *)
ShownIsInvalid ==
  \A f \in dom \ v.pending :
    /\ v.container[f].class = "error" => v.invalid[f] = "yes"
    /\ v.invalid[f] = "yes" /\ errorClass = DefaultErrorClass
         => v.container[f].class = "error"

(* An error that knows its container is shown by it: onSuccess never turns *)
(* a container valid for an error that a reset has put away                *)
(* (jquery.validate.unobtrusive.js:84, :116-121).                          *)
LinkIsOfAnError ==
  \A f \in Field : v.container[f].linked => v.container[f].class = "error"

(* The counter a submit waits for is the number of fields an answer is due *)
(* about, and every live request is counted: it is zero only when nothing  *)
(* can answer any more, and "pendingRequest < 0" (jquery.validate.js:1102) *)
(* does not come about.                                                    *)
PendingIsCounted ==
  /\ v.pendingRequest = Cardinality(v.pending)
  /\ \A f \in Field : v.request[f] # None => f \in v.pending

(* A form that waits for the server has no rule without a method, so that  *)
(* no exception can come between the answer and the submission it lets     *)
(* through: the answer is followed by a check of the whole form, in a      *)
(* callback no browser default stands behind                               *)
(* (jquery.validate.js:103-107, :777, :796-804, :1110).                    *)
WaitingIsWhole ==
  v.formSubmitted => \A f \in DOMAIN settings : DOMAIN RulesOf(f) \cap Unloaded = {}
=============================================================================
