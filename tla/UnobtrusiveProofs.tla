------------------------- MODULE UnobtrusiveProofs -------------------------
(***************************************************************************)
(* For any form, any rules the adapters make of it and any number of       *)
(* questions, late answers and failures: what is sent has been approved,   *)
(* what is shown is what the validator holds, and requests are counted.    *)
(*                                                                         *)
(* Each operator of the validator takes a sound state to a sound state; a  *)
(* check follows the state it starts from.  The lemmas about operators     *)
(* come first, then one step per action.                                   *)
(***************************************************************************)
EXTENDS UnobtrusiveValidation, FiniteSetTheorems, TLAPS

Labels == {"errorMap", "successList", "invalid", "submitted", "pending",
           "pendingRequest", "formSubmitted", "previous", "request",
           "container", "summary", "sent"}

Invalid == {"absent", "no", "yes"}

(* What a state of the validator looks like, but for the questions, which  *)
(* are whatever the rules make of the page.                                *)
Shape(s) ==
  /\ DOMAIN s = Labels
  /\ s.errorMap \subseteq Field /\ s.successList \subseteq Field
  /\ s.invalid \in [Field -> Invalid]
  /\ s.pending \subseteq Field /\ s.pendingRequest \in Nat
  /\ s.container \in [Field -> Container]
  /\ DOMAIN s.request = Field
  /\ DOMAIN s.previous = Field
  /\ \A f \in Field : DOMAIN s.previous[f] = {"old", "valid"}
  /\ \A f \in Field : s.previous[f].valid \in BOOLEAN
  /\ s.formSubmitted \in BOOLEAN /\ s.sent \in BOOLEAN

Counted(s) ==
  /\ s.pendingRequest = Cardinality(s.pending)
  /\ s.pending \subseteq DOMAIN settings
  /\ \A f \in Field : s.request[f] # None => f \in s.pending

(* A field without data-valmsg-replace has no error of its own, and an     *)
(* error in its container is linked to it as long as it shows.             *)
LinkedAt(f, c) ==
  /\ c.linked => c.class = "error"
  /\ f \notin Replaces => c.message = "none"
  /\ c.class = "error" /\ c.message # "none" => c.linked

Linked(s) == \A f \in Field : LinkedAt(f, s.container[f])

(* What the next answer shows once more is still so.                       *)
Known(s) ==
  /\ \A f \in s.errorMap : s.invalid[f] = "yes"
  /\ \A f \in s.successList : s.invalid[f] # "yes"

Agrees(s, f) ==
  /\ s.container[f].class = "error" => s.invalid[f] = "yes"
  /\ s.invalid[f] = "yes" /\ errorClass = DefaultErrorClass
       => s.container[f].class = "error"

Shown(s) == \A f \in Field \ s.pending : Agrees(s, f)

(* The validator leaves a field it has no rules for alone.                 *)
Ruled(s) ==
  \A f \in Field \ DOMAIN settings :
    s.container[f].class = "valid" /\ s.invalid[f] # "yes"

(* A live request asks the last question of its field, unless a reset has  *)
(* made the field forget it.                                               *)
Matching(s) ==
  \A f \in Field : s.request[f] # None =>
    s.previous[f].old \in {s.request[f], None}

Base(s) == Shape(s) /\ Counted(s) /\ Linked(s) /\ Ruled(s) /\ Matching(s)

Sound(s) == Base(s) /\ Known(s) /\ Shown(s)

(* Every field that has rules has the one that never fails.                *)
Rules ==
  /\ DOMAIN settings \subseteq Field
  /\ \A f \in DOMAIN settings : "__dummy__" \in DOMAIN settings[f]

(* t comes from s by asking questions only.                                *)
Follows(s, t) ==
  /\ s.pending \subseteq t.pending
  /\ \A f \in Field : f \in t.pending \/ t.previous[f] = s.previous[f]

(* Nothing of what the validator has rules for is wrong or unanswered.     *)
Passed(s, values) ==
  \A f \in DOMAIN settings :
    /\ ~LocalFails(f, values)
    /\ IsRemote(f, values) =>
         s.previous[f].valid /\ s.previous[f].old = Data(f, values)

(* Why a form is sent: a check threw, or all is well.                      *)
Released(s, values) ==
  Broken(values) \/ (s.pending = {} /\ Passed(s, values))

(* Every rule the validator has can be called.                             *)
Whole == \A f \in DOMAIN settings : DOMAIN RulesOf(f) \cap Unloaded = {}

-----------------------------------------------------------------------------
(* Checking fields: c is what a check of fs makes of s.                    *)
IsCheck(s, c, fs, values) ==
  LET failed == {f \in fs : Fails(s, f, values)}
      asked == {f \in fs : Asks(s, f, values)}
  IN  /\ DOMAIN c = Labels
      /\ c.errorMap = failed
      /\ c.successList = {f \in fs \ (failed \cup asked) :
             RulesOf(f) # <<>> /\ ~DependencyMismatch(f, values)}
      /\ c.invalid = s.invalid /\ c.container = s.container
      /\ c.formSubmitted = s.formSubmitted /\ c.sent = s.sent
      /\ c.previous = [f \in Field |->
             IF f \in asked
               THEN [s.previous[f] EXCEPT !.old = Data(f, values)]
               ELSE s.previous[f]]
      /\ c.request = [f \in Field |->
             IF f \in asked THEN Data(f, values) ELSE s.request[f]]
      /\ c.pending = s.pending \cup asked
      /\ c.pendingRequest = s.pendingRequest + Cardinality(asked \ s.pending)

LEMMA CheckedParts ==
  ASSUME NEW s, Shape(s), NEW fs \in SUBSET Field, NEW values
  PROVE  IsCheck(s, Checked(s, fs, values), fs, values)
BY DEF IsCheck, Checked, Shape, Labels

(* Only a field with a remote rule is asked about.                         *)
LEMMA AsksHasRules ==
  ASSUME NEW s, NEW f, NEW values, Asks(s, f, values) PROVE f \in DOMAIN settings
<1>1. "remote" \in DOMAIN RulesOf(f)
  BY DEF Asks, IsRemote
<1>2. f \notin DOMAIN settings => DOMAIN RulesOf(f) = {}
  BY DEF RulesOf
<1> QED BY <1>1, <1>2

LEMMA FailsHasRules ==
  ASSUME NEW s, NEW f, NEW values, Fails(s, f, values) PROVE f \in DOMAIN settings
<1>1. DOMAIN RulesOf(f) # {}
  BY DEF Fails, LocalFails, IsRemote
<1>2. f \notin DOMAIN settings => DOMAIN RulesOf(f) = {}
  BY DEF RulesOf
<1> QED BY <1>1, <1>2

(* With the rule that never fails a check is either a failure, a question  *)
(* or a success.                                                           *)
LEMMA RulesDecide ==
  ASSUME Rules, NEW f \in DOMAIN settings, NEW values
  PROVE  RulesOf(f) # <<>> /\ ~DependencyMismatch(f, values)
<1>1. "__dummy__" \in DOMAIN RulesOf(f)
  BY DEF Rules, RulesOf
<1> QED BY <1>1 DEF DependencyMismatch

LEMMA CheckedSound ==
  ASSUME NEW s, Shape(s), Counted(s), Matching(s), Rules,
         NEW fs \in SUBSET Field, NEW values
  PROVE  LET c == Checked(s, fs, values) IN
         Shape(c) /\ Counted(c) /\ Matching(c) /\ Follows(s, c)
<1> DEFINE c == Checked(s, fs, values)
           asked == {f \in fs : Asks(s, f, values)}
<1> HIDE DEF c
<1>0. /\ DOMAIN c = Labels
      /\ c.errorMap \subseteq Field /\ c.successList \subseteq Field
      /\ c.invalid = s.invalid /\ c.container = s.container
      /\ c.formSubmitted = s.formSubmitted /\ c.sent = s.sent
      /\ c.previous = [f \in Field |->
             IF f \in asked
               THEN [s.previous[f] EXCEPT !.old = Data(f, values)]
               ELSE s.previous[f]]
      /\ c.request = [f \in Field |->
             IF f \in asked THEN Data(f, values) ELSE s.request[f]]
      /\ c.pending = s.pending \cup asked
      /\ c.pendingRequest = s.pendingRequest + Cardinality(asked \ s.pending)
  <2>1. IsCheck(s, c, fs, values)
    BY CheckedParts DEF c
  <2> QED BY <2>1 DEF IsCheck
<1>1. /\ IsFiniteSet(asked \ s.pending) /\ IsFiniteSet(s.pending)
      /\ asked \subseteq Field
  BY FieldAssumption, FS_Subset DEF FieldAssumption, Shape
<1>2. /\ Cardinality(asked \ s.pending) \in Nat
      /\ Cardinality(c.pending) = Cardinality(s.pending)
                                  + Cardinality(asked \ s.pending)
  <2>1. c.pending = s.pending \cup (asked \ s.pending)
    BY <1>0
  <2>2. s.pending \cap (asked \ s.pending) = {}
    OBVIOUS
  <2>3. Cardinality(s.pending \cap (asked \ s.pending)) = 0
    BY <2>2, FS_EmptySet
  <2>4. Cardinality(s.pending) \in Nat /\ Cardinality(asked \ s.pending) \in Nat
    BY <1>1, FS_CardinalityType
  <2>5. Cardinality(s.pending \cup (asked \ s.pending))
          = Cardinality(s.pending) + Cardinality(asked \ s.pending)
            - Cardinality(s.pending \cap (asked \ s.pending))
    BY <1>1, FS_Union
  <2> QED BY <2>1, <2>3, <2>4, <2>5
<1>3. Shape(c)
  <2>1. \A f \in Field : /\ DOMAIN c.previous[f] = {"old", "valid"}
                         /\ c.previous[f].valid = s.previous[f].valid
    BY <1>0 DEF Shape
  <2> QED BY <1>0, <1>1, <1>2, <2>1 DEF Shape
<1>4. Counted(c)
  <2>1. asked \subseteq DOMAIN settings
    BY AsksHasRules
  <2> QED BY <1>0, <1>2, <2>1 DEF Counted
<1>5. Matching(c)
  <2> SUFFICES ASSUME NEW f \in Field, c.request[f] # None
               PROVE  c.previous[f].old \in {c.request[f], None}
    BY DEF Matching
  <2>1. CASE f \in asked
    BY <1>0, <2>1 DEF Shape
  <2>2. CASE f \notin asked
    BY <1>0, <2>2 DEF Matching
  <2> QED BY <2>1, <2>2
<1>6. Follows(s, c)
  BY <1>0 DEF Follows
<1> QED BY <1>3, <1>4, <1>5, <1>6 DEF c

-----------------------------------------------------------------------------
(* What onError makes of a container.                                      *)
LEMMA ErrorPlaced ==
  ASSUME NEW f \in Field, NEW c \in Container, LinkedAt(f, c)
  PROVE  LET e == onError(f, c) IN
         e \in Container /\ LinkedAt(f, e) /\ e.class = "error"
<1>1. CASE f \in Replaces
  <2>1. onError(f, c) = [c EXCEPT !.class = "error", !.message = "text",
                                  !.linked = TRUE]
    BY <1>1 DEF onError, Container
  <2> QED BY <1>1, <2>1 DEF Container, LinkedAt
<1>2. CASE f \notin Replaces
  <2>1. onError(f, c) = [c EXCEPT !.class = "error", !.message = c.message,
                                  !.linked = FALSE]
    <3>1. (f \in Replaces) = FALSE
      BY <1>2
    <3> QED BY <3>1, Zenon DEF onError, Container
  <2> QED BY <1>2, <2>1 DEF Container, LinkedAt
<1> QED BY <1>1, <1>2

(* One container: an error is shown at once with the default class, and    *)
(* what is valid is never shown as an error.                               *)
LEMMA LabelShown ==
  ASSUME NEW f \in Field, NEW c \in Container, LinkedAt(f, c),
         NEW failed \in BOOLEAN
  PROVE  LET d == showLabel(f, c, failed) IN
         /\ d \in Container /\ LinkedAt(f, d)
         /\ failed /\ errorClass = DefaultErrorClass => d.class = "error"
         /\ ~failed => d.class = "valid"
<1> DEFINE found == errorClass # DefaultErrorClass /\ c.message # "none"
<1>1. CASE failed /\ found
  BY <1>1 DEF showLabel, Container, LinkedAt
<1>2. CASE failed /\ ~found
  <2>1. showLabel(f, c, failed) = onError(f, c)
    BY <1>2 DEF showLabel
  <2> QED BY <1>2, <2>1, ErrorPlaced
<1>3. CASE ~failed /\ found /\ ~c.linked
  BY <1>3 DEF showLabel, Container, LinkedAt
<1>4. CASE ~failed /\ (~found \/ c.linked)
  BY <1>4 DEF showLabel, Container, LinkedAt, onError, onSuccess
<1> QED BY <1>1, <1>2, <1>3, <1>4

(* t is s with the errors and successes of s shown.                        *)
IsShown(s, t) ==
  /\ DOMAIN t = Labels
  /\ \A l \in Labels \ {"container"} : t[l] = s[l]
  /\ t.container \in [Field -> Container]
  /\ Linked(t)
  /\ \A f \in s.errorMap :
       errorClass = DefaultErrorClass => t.container[f].class = "error"
  /\ \A f \in s.successList \ s.errorMap : t.container[f].class = "valid"
  /\ \A f \in Field \ (s.errorMap \cup s.successList) :
       t.container[f] = s.container[f]

LEMMA ErrorsShown ==
  ASSUME NEW s, Shape(s), Linked(s)
  PROVE  IsShown(s, showErrors(s))
<1> DEFINE label(f) == showLabel(f, s.container[f], f \in s.errorMap)
           t == showErrors(s)
<1>1. \A f \in Field :
        /\ label(f) \in Container /\ LinkedAt(f, label(f))
        /\ f \in s.errorMap /\ errorClass = DefaultErrorClass
             => label(f).class = "error"
        /\ f \notin s.errorMap => label(f).class = "valid"
  <2> SUFFICES ASSUME NEW f \in Field
               PROVE  /\ label(f) \in Container /\ LinkedAt(f, label(f))
                      /\ f \in s.errorMap /\ errorClass = DefaultErrorClass
                           => label(f).class = "error"
                      /\ f \notin s.errorMap => label(f).class = "valid"
    OBVIOUS
  <2>1. s.container[f] \in Container /\ LinkedAt(f, s.container[f])
    BY DEF Shape, Linked
  <2>2. (f \in s.errorMap) \in BOOLEAN
    OBVIOUS
  <2> QED BY <2>1, <2>2, LabelShown
<1>2. /\ DOMAIN t = Labels
      /\ \A l \in Labels \ {"container"} : t[l] = s[l]
      /\ t.container = [f \in Field |->
           IF f \in s.errorMap \cup s.successList THEN label(f)
                                                 ELSE s.container[f]]
  BY DEF showErrors, Shape, Labels
<1> HIDE DEF t, label
<1>3. t.container \in [Field -> Container] /\ Linked(t)
  BY <1>1, <1>2 DEF Shape, Linked
<1>4. IsShown(s, t)
  BY <1>1, <1>2, <1>3 DEF IsShown, Shape
<1> QED BY <1>4 DEF t

(* The summary is no part of what the lemmas are about.                    *)
LEMMA SummaryOnly ==
  ASSUME NEW s, Shape(s)
  PROVE  /\ DOMAIN onErrors(s) = Labels
         /\ \A l \in Labels \ {"summary"} : onErrors(s)[l] = s[l]
BY DEF onErrors, Shape, Labels

-----------------------------------------------------------------------------
(* A rule without a method that is not reached hides behind one that fails.*)
LEMMA NoneMissing ==
  ASSUME NEW values, ~Broken(values),
         \A f \in DOMAIN settings : ~LocalFails(f, values)
  PROVE  Whole
<1> SUFFICES ASSUME NEW f \in DOMAIN settings,
                    NEW r \in DOMAIN RulesOf(f) \cap Unloaded
             PROVE  FALSE
  BY DEF Whole
<1>1. PICK a \in Ahead(r, f) \cap DOMAIN RulesOf(f) :
        ~Passes(a, RulesOf(f)[a], values[f], None)
  BY DEF Broken, Throws
<1>2. a \notin Unloaded
  BY DEF Ahead, Unloaded
<1> QED BY <1>1, <1>2 DEF LocalFails

(* Checking the whole form.                                                *)
LEMMA FormSound ==
  ASSUME NEW s, Base(s), Rules, NEW values
  PROVE  LET t == form(s, values) IN
         /\ Sound(t) /\ Follows(s, t)
         /\ t.sent = s.sent /\ t.formSubmitted = s.formSubmitted
         /\ t.errorMap = {} => \A f \in DOMAIN settings : ~LocalFails(f, values)
         /\ t.errorMap = {} /\ t.pending = {} => Passed(t, values)
<1> DEFINE c == Checked(s, DOMAIN settings, values)
           i == [c EXCEPT !.invalid = [f \in Field |->
                   IF f \in c.errorMap THEN "yes" ELSE "absent"]]
           e == onErrors(i)
           t == form(s, values)
           failed == {f \in DOMAIN settings : Fails(s, f, values)}
           asked == {f \in DOMAIN settings : Asks(s, f, values)}
<1> HIDE DEF c, e
<1>1. /\ IsCheck(s, c, DOMAIN settings, values)
      /\ Shape(c) /\ Counted(c) /\ Matching(c) /\ Follows(s, c)
  BY CheckedParts, CheckedSound DEF c, Base, Rules
<1>2. /\ Shape(i) /\ i.invalid = [f \in Field |->
                       IF f \in c.errorMap THEN "yes" ELSE "absent"]
      /\ \A l \in Labels \ {"invalid"} : i[l] = c[l]
  BY <1>1 DEF Shape, Labels, Invalid
<1> HIDE DEF i
<1>3. /\ DOMAIN e = Labels
      /\ \A l \in Labels \ {"summary"} : e[l] = i[l]
  BY <1>2, SummaryOnly DEF e
<1>4. Shape(e)
  BY <1>2, <1>3 DEF Shape, Labels
<1>5. /\ e.invalid = [f \in Field |-> IF f \in failed THEN "yes" ELSE "absent"]
      /\ e.errorMap = failed
      /\ e.successList = DOMAIN settings \ (failed \cup asked)
      /\ e.container = s.container
      /\ e.pending = s.pending \cup asked
      /\ e.sent = s.sent /\ e.formSubmitted = s.formSubmitted
  <2>1. c.successList = DOMAIN settings \ (failed \cup asked)
    BY <1>1, RulesDecide DEF IsCheck
  <2> QED BY <1>1, <1>2, <1>3, <2>1 DEF IsCheck, Labels
<1>6. Linked(e)
  BY <1>5 DEF Base, Linked
<1>7. t = showErrors(e) /\ IsShown(e, t)
  BY <1>4, <1>6, ErrorsShown DEF form, c, i, e
<1> HIDE DEF t
<1>8. Shape(t)
  BY <1>4, <1>7 DEF Shape, IsShown, Labels
<1>9. \A l \in Labels \ {"invalid", "summary", "container"} : t[l] = c[l]
  BY <1>2, <1>3, <1>7 DEF IsShown
<1>10. Counted(t) /\ Matching(t) /\ Follows(s, t)
  BY <1>1, <1>9 DEF Counted, Matching, Follows, Labels
<1>11. /\ t.invalid = e.invalid /\ t.errorMap = failed
       /\ t.successList = e.successList /\ t.pending = e.pending
       /\ t.sent = s.sent /\ t.formSubmitted = s.formSubmitted
       /\ Linked(t)
  BY <1>5, <1>7 DEF IsShown, Labels
<1>12. Known(t)
  BY <1>5, <1>11, <1>4 DEF Known, Shape
<1>13. Ruled(t)
  BY <1>5, <1>7, <1>11 DEF Ruled, Base, IsShown
<1>14. Shown(t)
  <2> SUFFICES ASSUME NEW f \in Field \ t.pending PROVE Agrees(t, f)
    BY DEF Shown
  <2>1. CASE f \in failed
    BY <1>5, <1>7, <1>11, <2>1 DEF Agrees, IsShown
  <2>2. CASE f \in DOMAIN settings \ failed
    BY <1>5, <1>7, <1>11, <2>2 DEF Agrees, IsShown
  <2>3. CASE f \notin DOMAIN settings
    BY <1>13, <2>3 DEF Ruled, Agrees
  <2> QED BY <2>1, <2>2, <2>3
<1>15. ASSUME t.errorMap = {}, t.pending = {} PROVE Passed(t, values)
  <2> SUFFICES ASSUME NEW f \in DOMAIN settings
               PROVE  /\ ~LocalFails(f, values)
                      /\ IsRemote(f, values) => /\ t.previous[f].valid
                           /\ t.previous[f].old = Data(f, values)
    BY DEF Passed
  <2>1. ~Fails(s, f, values) /\ ~Asks(s, f, values)
    BY <1>15, <1>5, <1>11
  <2>2. t.previous[f] = s.previous[f] /\ s.previous[f].valid \in BOOLEAN
    BY <1>10, <1>15 DEF Follows, Rules, Base, Shape
  <2> QED BY <2>1, <2>2 DEF Fails, Asks
<1>16. ASSUME t.errorMap = {}, NEW f \in DOMAIN settings
       PROVE  ~LocalFails(f, values)
  BY <1>11, <1>16 DEF Fails
<1> QED
  BY <1>8, <1>10, <1>11, <1>12, <1>13, <1>14, <1>15, <1>16 DEF t, Sound, Base

(* A check that threw leaves the validator without errors or successes.    *)
LEMMA InterruptedSound ==
  ASSUME NEW s, Sound(s)
  PROVE  LET t == Interrupted(s) IN
         /\ Sound(t) /\ Follows(s, t)
         /\ t.sent = s.sent /\ t.formSubmitted = s.formSubmitted
<1> DEFINE t == Interrupted(s)
<1>1. /\ DOMAIN t = Labels /\ t.errorMap = {} /\ t.successList = {}
      /\ \A l \in Labels \ {"errorMap", "successList"} : t[l] = s[l]
  BY DEF Interrupted, Sound, Base, Shape, Labels
<1> HIDE DEF t
<1>2. /\ t.invalid = s.invalid /\ t.pending = s.pending
      /\ t.pendingRequest = s.pendingRequest /\ t.previous = s.previous
      /\ t.request = s.request /\ t.container = s.container
      /\ t.formSubmitted = s.formSubmitted /\ t.sent = s.sent
  BY <1>1 DEF Labels
<1>3. Shape(t)
  BY <1>1, <1>2 DEF Sound, Base, Shape
<1>4. Counted(t) /\ Matching(t)
  BY <1>2 DEF Sound, Base, Counted, Matching
<1>5. Linked(t) /\ Ruled(t)
  BY <1>2 DEF Sound, Base, Linked, Ruled
<1>6. Known(t) /\ Shown(t)
  BY <1>1, <1>2 DEF Sound, Known, Shown, Agrees
<1>7. Follows(s, t)
  BY <1>2 DEF Follows
<1> QED BY <1>2, <1>3, <1>4, <1>5, <1>6, <1>7 DEF t, Sound, Base

(* Checking one field.                                                     *)
LEMMA ElementSound ==
  ASSUME NEW s, Sound(s), Rules, NEW f \in Field, NEW values
  PROVE  LET t == element(s, f, values) IN
         /\ Sound(t) /\ Follows(s, t)
         /\ t.sent = s.sent /\ t.formSubmitted = s.formSubmitted
<1> DEFINE c == Checked(s, {f}, values)
           i == [c EXCEPT !.invalid[f] = IF f \in c.errorMap THEN "yes" ELSE "no"]
           t == element(s, f, values)
           fails == Fails(s, f, values)
           asks == Asks(s, f, values)
<1>0. SUFFICES ASSUME ~Throws(f, values)
               PROVE  /\ Sound(t) /\ Follows(s, t)
                      /\ t.sent = s.sent /\ t.formSubmitted = s.formSubmitted
  <2>1. CASE Throws(f, values)
    <3>1. t = Interrupted(s)
      BY <2>1 DEF element
    <3> QED BY <3>1, InterruptedSound
  <2> QED BY <2>1
<1> HIDE DEF c
<1>1. /\ IsCheck(s, c, {f}, values)
      /\ Shape(c) /\ Counted(c) /\ Matching(c) /\ Follows(s, c)
  BY CheckedParts, CheckedSound DEF c, Base, Sound
<1>2. /\ Shape(i)
      /\ i.invalid = [s.invalid EXCEPT ![f] =
                        IF f \in c.errorMap THEN "yes" ELSE "no"]
      /\ \A l \in Labels \ {"invalid"} : i[l] = c[l]
  BY <1>1 DEF Shape, Labels, Invalid, IsCheck
<1> HIDE DEF i
<1>3. /\ i.errorMap = IF fails THEN {f} ELSE {}
      /\ i.successList \subseteq {f}
      /\ f \in DOMAIN settings /\ ~fails /\ ~asks => i.successList = {f}
      /\ fails => i.successList = {}
      /\ i.container = s.container
      /\ s.pending \subseteq i.pending
      /\ asks => f \in i.pending
      /\ i.sent = s.sent /\ i.formSubmitted = s.formSubmitted
  <2>1. c.errorMap = IF fails THEN {f} ELSE {}
    BY <1>1 DEF IsCheck
  <2>2. /\ c.successList \subseteq {f}
        /\ f \in DOMAIN settings /\ ~fails /\ ~asks => c.successList = {f}
        /\ fails => c.successList = {}
    BY <1>1, RulesDecide DEF IsCheck
  <2> QED BY <1>1, <1>2, <2>1, <2>2 DEF IsCheck, Labels
<1>4. Linked(i)
  BY <1>3 DEF Sound, Base, Linked
<1>5. t = showErrors(i) /\ IsShown(i, t)
  BY <1>0, <1>2, <1>4, ErrorsShown DEF element, c, i
<1> HIDE DEF t
<1>6. Shape(t)
  BY <1>2, <1>5 DEF Shape, IsShown, Labels
<1>7. \A l \in Labels \ {"invalid", "container"} : t[l] = c[l]
  BY <1>2, <1>5 DEF IsShown
<1>8. Counted(t) /\ Matching(t) /\ Follows(s, t)
  BY <1>1, <1>7 DEF Counted, Matching, Follows, Labels
<1>9. /\ t.invalid = [s.invalid EXCEPT ![f] = IF fails THEN "yes" ELSE "no"]
      /\ t.errorMap = i.errorMap /\ t.successList = i.successList
      /\ t.pending = i.pending /\ t.sent = s.sent /\ Linked(t)
      /\ t.formSubmitted = s.formSubmitted
  <2>1. f \in c.errorMap <=> fails
    BY <1>1 DEF IsCheck
  <2> QED BY <1>2, <1>3, <1>5, <2>1 DEF IsShown, Labels
<1>10. Known(t)
  BY <1>3, <1>9 DEF Known, Sound, Base, Shape
<1>11. fails => f \in DOMAIN settings
  BY FailsHasRules
<1>12. \A g \in Field \ {f} : t.container[g] = s.container[g]
  BY <1>3, <1>5 DEF IsShown
<1>13. Ruled(t)
  <2> SUFFICES ASSUME NEW g \in Field \ DOMAIN settings
               PROVE  t.container[g].class = "valid" /\ t.invalid[g] # "yes"
    BY DEF Ruled
  <2>1. CASE g # f
    BY <1>9, <1>12, <2>1 DEF Ruled, Sound, Base, Shape
  <2>2. CASE g = f
    <3>1. ~fails /\ i.errorMap = {}
      BY <1>3, <1>11, <2>2
    <3>2. t.container[f].class = "valid"
      BY <1>3, <1>5, <2>2, <3>1 DEF Ruled, Sound, Base, IsShown
    <3> QED BY <1>9, <2>2, <3>1, <3>2 DEF Sound, Base, Shape
  <2> QED BY <2>1, <2>2
<1>14. Shown(t)
  <2> SUFFICES ASSUME NEW g \in Field \ t.pending PROVE Agrees(t, g)
    BY DEF Shown
  <2>1. CASE g # f
    <3>1. g \notin s.pending
      BY <1>3, <1>9
    <3>2. t.container[g] = s.container[g] /\ t.invalid[g] = s.invalid[g]
      BY <1>9, <1>12, <2>1 DEF Sound, Base, Shape
    <3>3. Agrees(s, g)
      BY <3>1 DEF Sound, Shown
    <3> QED BY <3>2, <3>3 DEF Agrees
  <2>2. CASE g = f /\ fails
    BY <1>3, <1>5, <1>9, <2>2 DEF Agrees, IsShown, Sound, Base, Shape
  <2>3. CASE g = f /\ ~fails /\ f \in DOMAIN settings
    <3>0. ~asks
      BY <1>3, <1>9, <2>3
    <3>1. f \in i.successList \ i.errorMap
      BY <1>3, <2>3, <3>0
    <3>2. t.container[f].class = "valid"
      BY <1>5, <3>1 DEF IsShown
    <3>3. t.invalid[f] = "no"
      BY <1>9, <2>3 DEF Sound, Base, Shape
    <3> QED BY <2>3, <3>2, <3>3 DEF Agrees
  <2>4. CASE g = f /\ f \notin DOMAIN settings
    BY <1>13, <2>4 DEF Ruled, Agrees
  <2> QED BY <2>1, <2>2, <2>3, <2>4
<1> QED BY <1>6, <1>8, <1>9, <1>10, <1>13, <1>14 DEF t, Sound, Base

(* Whether a submit waits, is sent or has shown a summary does not matter. *)
Core == Labels \ {"submitted", "formSubmitted", "summary", "sent"}

LEMMA SoundAlike ==
  ASSUME NEW s, NEW t, DOMAIN t = Labels, \A l \in Core : t[l] = s[l],
         t.formSubmitted \in BOOLEAN, t.sent \in BOOLEAN, Sound(s)
  PROVE  Sound(t)
<1>1. /\ t.errorMap = s.errorMap /\ t.successList = s.successList
      /\ t.invalid = s.invalid /\ t.pending = s.pending
      /\ t.pendingRequest = s.pendingRequest /\ t.previous = s.previous
      /\ t.request = s.request /\ t.container = s.container
  BY DEF Core, Labels
<1>2. Shape(t)
  BY <1>1 DEF Sound, Base, Shape
<1>3. Counted(t) /\ Matching(t)
  BY <1>1 DEF Sound, Base, Counted, Matching
<1>4. Linked(t) /\ Ruled(t)
  BY <1>1 DEF Sound, Base, Linked, Ruled
<1>5. Known(t) /\ Shown(t)
  BY <1>1 DEF Sound, Known, Shown, Agrees
<1> QED BY <1>2, <1>3, <1>4, <1>5 DEF Sound, Base

(* The submit handler sends what has passed, with no answer due.           *)
LEMMA SubmitSound ==
  ASSUME NEW s, Sound(s), Rules, NEW values
  PROVE  LET t == submit(s, values) IN
         /\ Sound(t) /\ Follows(s, t)
         /\ t.sent => s.sent \/ Released(t, values)
         /\ t.formSubmitted => s.formSubmitted \/ Whole
<1> DEFINE c == form(s, values)
           t == submit(s, values)
<1> HIDE DEF c
<1>1. /\ Sound(c) /\ Follows(s, c)
      /\ c.sent = s.sent /\ c.formSubmitted = s.formSubmitted
      /\ c.errorMap = {} => \A f \in DOMAIN settings : ~LocalFails(f, values)
      /\ c.errorMap = {} /\ c.pending = {} => Passed(c, values)
  BY FormSound DEF c, Sound
<1>2. DOMAIN c = Labels
  BY <1>1 DEF Sound, Base, Shape
<1>3. CASE Broken(values)
  <2>1. t = [s EXCEPT !.sent = TRUE]
    BY <1>3 DEF submit
  <2>2. /\ DOMAIN t = Labels /\ t.sent = TRUE
        /\ \A l \in Labels \ {"sent"} : t[l] = s[l]
    BY <2>1 DEF Sound, Base, Shape, Labels
  <2> HIDE DEF t
  <2>3. Sound(t)
    <3>1. \A l \in Core : t[l] = s[l]
      BY <2>2 DEF Core
    <3>2. t.formSubmitted \in BOOLEAN /\ t.sent \in BOOLEAN
      BY <2>2 DEF Sound, Base, Shape, Labels
    <3> QED BY <2>2, <3>1, <3>2, SoundAlike
  <2>4. Follows(s, t) /\ t.formSubmitted = s.formSubmitted
    BY <2>2 DEF Follows, Labels
  <2> QED BY <1>3, <2>3, <2>4 DEF t, Released
<1>4. CASE ~Broken(values) /\ c.errorMap # {}
  <2>1. t = c
    BY <1>4 DEF submit, c
  <2> QED BY <1>1, <2>1
<1>5. CASE ~Broken(values) /\ c.errorMap = {} /\ c.pendingRequest > 0
  <2>1. t = [c EXCEPT !.formSubmitted = TRUE]
    BY <1>5 DEF submit, c
  <2>2. /\ DOMAIN t = Labels /\ t.formSubmitted = TRUE
        /\ \A l \in Labels \ {"formSubmitted"} : t[l] = c[l]
    BY <1>2, <2>1 DEF Labels
  <2> HIDE DEF t
  <2>3. Sound(t)
    <3>1. \A l \in Core : t[l] = c[l]
      BY <2>2 DEF Core
    <3>2. t.formSubmitted \in BOOLEAN /\ t.sent \in BOOLEAN
      BY <1>1, <2>2 DEF Sound, Base, Shape, Labels
    <3> QED BY <1>1, <2>2, <3>1, <3>2, SoundAlike
  <2>4. Follows(s, t) /\ t.sent = s.sent
    BY <1>1, <2>2 DEF Follows, Labels
  <2>5. Whole
    BY <1>1, <1>5, NoneMissing
  <2> QED BY <2>3, <2>4, <2>5 DEF t
<1>6. CASE ~Broken(values) /\ c.errorMap = {} /\ ~(c.pendingRequest > 0)
  <2>1. t = [c EXCEPT !.sent = TRUE]
    BY <1>6 DEF submit, c
  <2>2. /\ DOMAIN t = Labels /\ t.sent = TRUE
        /\ \A l \in Labels \ {"sent"} : t[l] = c[l]
    BY <1>2, <2>1 DEF Labels
  <2> HIDE DEF t
  <2>3. Sound(t)
    <3>1. \A l \in Core : t[l] = c[l]
      BY <2>2 DEF Core
    <3>2. t.formSubmitted \in BOOLEAN /\ t.sent \in BOOLEAN
      BY <1>1, <2>2 DEF Sound, Base, Shape, Labels
    <3> QED BY <1>1, <2>2, <3>1, <3>2, SoundAlike
  <2>4. Follows(s, t) /\ t.formSubmitted = s.formSubmitted
    BY <1>1, <2>2 DEF Follows, Labels
  <2>5. c.pending = {}
    <3>1. IsFiniteSet(c.pending) /\ c.pendingRequest = Cardinality(c.pending)
          /\ c.pendingRequest \in Nat
      BY <1>1, FieldAssumption, FS_Subset
         DEF FieldAssumption, Sound, Base, Shape, Counted
    <3>2. Cardinality(c.pending) = 0
      BY <1>6, <3>1
    <3> QED BY <3>1, <3>2, FS_EmptySet
  <2>6. t.pending = {} /\ Passed(t, values)
    BY <1>1, <1>6, <2>2, <2>5 DEF Passed, Labels
  <2> QED BY <2>3, <2>4, <2>6 DEF t, Released
<1> QED BY <1>4, <1>5, <1>6, <1>3

(* The end of a request: one fewer is due, and a submit that waited for it *)
(* goes on.                                                                *)
LEMMA StopSound ==
  ASSUME NEW s, Base(s), Known(s), Rules, NEW f \in s.pending,
         s.request[f] = None, NEW valid \in BOOLEAN, NEW values,
         \A g \in Field \ (s.pending \ {f}) : Agrees(s, g)
  PROVE  LET t == stopRequest(s, f, valid, values) IN
         /\ Sound(t)
         /\ s.pending \ {f} \subseteq t.pending
         /\ \A g \in Field : g \in t.pending \/ t.previous[g] = s.previous[g]
         /\ t.sent => s.sent \/ Released(t, values)
         /\ t.formSubmitted => s.formSubmitted
<1> DEFINE rest == [s EXCEPT !.pendingRequest = IF @ = 0 THEN 0 ELSE @ - 1,
                             !.pending = @ \ {f}]
           last == rest.pendingRequest = 0 /\ rest.formSubmitted
           c == form(rest, values)
           t == stopRequest(s, f, valid, values)
<1>1. /\ IsFiniteSet(s.pending) /\ s.pendingRequest = Cardinality(s.pending)
      /\ s.pendingRequest \in Nat /\ DOMAIN s = Labels
  BY FieldAssumption, FS_Subset DEF FieldAssumption, Base, Shape, Counted
<1>2. /\ Cardinality(s.pending) # 0
      /\ Cardinality(s.pending \ {f}) = Cardinality(s.pending) - 1
  BY <1>1, FS_EmptySet, FS_RemoveElement
<1>3. /\ DOMAIN rest = Labels
      /\ \A l \in Labels \ {"pending", "pendingRequest"} : rest[l] = s[l]
      /\ rest.pending = s.pending \ {f}
      /\ rest.pendingRequest = Cardinality(rest.pending)
      /\ rest.pendingRequest \in Nat
  <2>1. /\ DOMAIN rest = Labels
        /\ \A l \in Labels \ {"pending", "pendingRequest"} : rest[l] = s[l]
        /\ rest.pending = s.pending \ {f}
    BY <1>1 DEF Labels
  <2>2. rest.pendingRequest = s.pendingRequest - 1
    <3>1. s.pendingRequest # 0
      BY <1>1, <1>2
    <3> QED BY <1>1, <3>1 DEF Labels
  <2>3. s.pendingRequest - 1 \in Nat
    BY <1>1, <1>2
  <2> QED BY <1>1, <1>2, <2>1, <2>2, <2>3
<1> HIDE DEF rest
<1>4. Sound(rest)
  <2>1. /\ rest.errorMap = s.errorMap /\ rest.successList = s.successList
        /\ rest.invalid = s.invalid /\ rest.previous = s.previous
        /\ rest.request = s.request /\ rest.container = s.container
        /\ rest.formSubmitted = s.formSubmitted /\ rest.sent = s.sent
    BY <1>3 DEF Labels
  <2>2. Shape(rest)
    BY <1>3, <2>1 DEF Base, Shape
  <2>3. Counted(rest)
    BY <1>3, <2>1 DEF Base, Counted, Shape
  <2>4. Linked(rest) /\ Ruled(rest) /\ Matching(rest)
    BY <2>1 DEF Base, Linked, Ruled, Matching
  <2>5. Known(rest)
    BY <2>1 DEF Known
  <2>6. Shown(rest)
    <3> SUFFICES ASSUME NEW g \in Field \ rest.pending PROVE Agrees(rest, g)
      BY DEF Shown
    <3>1. Agrees(s, g)
      BY <1>3
    <3> QED BY <2>1, <3>1 DEF Agrees
  <2> QED BY <2>2, <2>3, <2>4, <2>5, <2>6 DEF Sound, Base
<1>5. /\ s.pending \ {f} = rest.pending
      /\ s.previous = rest.previous /\ s.sent = rest.sent
      /\ s.formSubmitted = rest.formSubmitted
  BY <1>3 DEF Labels
<1>6. SUFFICES /\ Sound(t) /\ Follows(rest, t)
               /\ t.sent => rest.sent \/ Released(t, values)
               /\ t.formSubmitted => rest.formSubmitted
  BY <1>5 DEF Follows
<1>7. CASE valid /\ last
  <2>1. Sound(c) /\ Follows(rest, c) /\ c.sent = rest.sent
        /\ c.formSubmitted = rest.formSubmitted
    BY <1>4, FormSound DEF Sound
  <2>2. CASE c.errorMap = {}
    <3> DEFINE b == submit(c, values)
    <3>1. /\ Sound(b) /\ Follows(c, b)
          /\ b.sent => c.sent \/ Released(b, values)
      BY <2>1, SubmitSound
    <3>2. t = [b EXCEPT !.formSubmitted = FALSE]
      BY <1>7, <2>2 DEF stopRequest, rest
    <3> HIDE DEF b, t, c
    <3>3. /\ DOMAIN t = Labels /\ t.formSubmitted = FALSE
          /\ \A l \in Labels \ {"formSubmitted"} : t[l] = b[l]
      BY <3>1, <3>2 DEF Sound, Base, Shape, Labels
    <3>4. /\ t.sent = b.sent /\ t.pending = b.pending /\ t.previous = b.previous
          /\ t.formSubmitted \in BOOLEAN /\ t.sent \in BOOLEAN
          /\ \A l \in Core : t[l] = b[l]
      BY <3>1, <3>3 DEF Sound, Base, Shape, Labels, Core
    <3>5. Sound(t)
      BY <3>1, <3>3, <3>4, SoundAlike
    <3>6. Follows(rest, t)
      BY <2>1, <3>1, <3>4 DEF Follows
    <3> QED BY <2>1, <3>1, <3>3, <3>4, <3>5, <3>6 DEF Passed, Released
  <2>3. CASE c.errorMap # {}
    <3>1. t = c
      BY <1>7, <2>3 DEF stopRequest, rest
    <3> QED BY <2>1, <3>1
  <2> QED BY <2>2, <2>3
<1>8. CASE ~valid /\ last
  <2> DEFINE e == onErrors(rest)
  <2>1. t = [e EXCEPT !.formSubmitted = FALSE]
    BY <1>8 DEF stopRequest, rest
  <2>2. DOMAIN e = Labels /\ \A l \in Labels \ {"summary"} : e[l] = rest[l]
    BY <1>4, SummaryOnly DEF Sound, Base
  <2> HIDE DEF e, t
  <2>3. /\ DOMAIN t = Labels /\ t.formSubmitted = FALSE
        /\ \A l \in Labels \ {"formSubmitted", "summary"} : t[l] = rest[l]
    BY <2>1, <2>2 DEF Labels
  <2>4. /\ t.sent = rest.sent /\ t.pending = rest.pending
        /\ t.previous = rest.previous
        /\ t.formSubmitted \in BOOLEAN /\ t.sent \in BOOLEAN
        /\ \A l \in Core : t[l] = rest[l]
    BY <1>4, <2>3 DEF Sound, Base, Shape, Labels, Core
  <2>5. Sound(t)
    BY <1>4, <2>3, <2>4, SoundAlike
  <2> QED BY <2>3, <2>4, <2>5 DEF Follows
<1>9. CASE ~last
  <2>1. t = rest
    BY <1>9 DEF stopRequest, rest
  <2> QED BY <1>4, <2>1 DEF Follows
<1> QED BY <1>7, <1>8, <1>9

(* An answer, to the last question of its field or to one a reset has made *)
(* it forget.                                                              *)
LEMMA AnswerSound ==
  ASSUME NEW s, Sound(s), Rules, NEW f \in Field, s.request[f] # None,
         NEW valid \in BOOLEAN, NEW values
  PROVE  LET t == remoteSuccess(s, f, valid, values) IN
         /\ Sound(t)
         /\ s.pending \ {f} \subseteq t.pending
         /\ \A g \in Field \ {f} : g \in t.pending \/ t.previous[g] = s.previous[g]
         /\ \/ f \in t.pending
            \/ /\ t.previous[f].old = s.previous[f].old
               /\ s.previous[f].old = s.request[f] => t.previous[f].valid = valid
         /\ t.sent => s.sent \/ Released(t, values)
         /\ t.formSubmitted => s.formSubmitted
<1> DEFINE a == IF valid THEN [s EXCEPT !.errorMap = {}, !.successList = {f},
                                       !.invalid[f] = "no"]
                         ELSE [s EXCEPT !.errorMap = @ \cup {f},
                                        !.successList = @ \ {f},
                                        !.invalid[f] = "yes"]
           b == showErrors(a)
           old == s.previous[f].old = s.request[f]
           n == [b EXCEPT !.previous[f].valid = IF old THEN valid ELSE @,
                          !.request[f] = None]
           t == remoteSuccess(s, f, valid, values)
<1>1. Shape(s) /\ Linked(s) /\ f \in s.pending /\ f \in DOMAIN settings
  BY DEF Sound, Base, Counted
<1>2. /\ DOMAIN a = Labels
      /\ \A l \in Labels \ {"errorMap", "successList", "invalid"} : a[l] = s[l]
      /\ a.errorMap = IF valid THEN {} ELSE s.errorMap \cup {f}
      /\ a.successList = IF valid THEN {f} ELSE s.successList \ {f}
      /\ a.invalid = [s.invalid EXCEPT ![f] = IF valid THEN "no" ELSE "yes"]
  BY <1>1 DEF Shape, Labels
<1> HIDE DEF a
<1>3. Shape(a)
  BY <1>1, <1>2 DEF Shape, Labels, Invalid
<1>4. Linked(a) /\ a.container = s.container
  BY <1>1, <1>2 DEF Linked, Labels
<1>5. IsShown(a, b)
  BY <1>3, <1>4, ErrorsShown
<1> HIDE DEF b
<1>6. /\ DOMAIN b = Labels /\ Linked(b)
      /\ \A l \in Labels \ {"errorMap", "successList", "invalid", "container"} :
           b[l] = s[l]
      /\ b.errorMap = a.errorMap /\ b.successList = a.successList
      /\ b.invalid = a.invalid /\ b.container \in [Field -> Container]
  BY <1>2, <1>5 DEF IsShown, Labels
<1>7. b.previous = s.previous /\ b.request = s.request
  BY <1>6 DEF Labels
<1>8. /\ DOMAIN n = Labels
      /\ \A l \in Labels \ {"previous", "request"} : n[l] = b[l]
      /\ n.previous = [s.previous EXCEPT ![f] = [s.previous[f] EXCEPT !.valid =
                         IF old THEN valid ELSE s.previous[f].valid]]
      /\ n.request = [s.request EXCEPT ![f] = None]
  BY <1>1, <1>6, <1>7 DEF Shape, Labels
<1>9. t = stopRequest(n, f, valid, values)
  BY <1>7 DEF remoteSuccess, a, b
<1> HIDE DEF n, t
<1>10. /\ n.errorMap = a.errorMap /\ n.successList = a.successList
       /\ n.invalid = a.invalid /\ n.container = b.container
       /\ n.pending = s.pending /\ n.pendingRequest = s.pendingRequest
       /\ n.formSubmitted = s.formSubmitted /\ n.sent = s.sent
  BY <1>6, <1>8 DEF Labels
<1>11. Shape(n)
  <2>1. /\ DOMAIN n.previous = Field /\ DOMAIN n.request = Field
        /\ \A g \in Field : DOMAIN n.previous[g] = {"old", "valid"}
        /\ \A g \in Field : n.previous[g].valid \in BOOLEAN
    BY <1>1, <1>8 DEF Shape
  <2> QED BY <1>1, <1>3, <1>6, <1>8, <1>10, <2>1 DEF Shape
<1>12. Counted(n)
  BY <1>1, <1>8, <1>10 DEF Sound, Base, Counted, Shape
<1>13. Matching(n)
  <2> SUFFICES ASSUME NEW g \in Field, n.request[g] # None
               PROVE  n.previous[g].old \in {n.request[g], None}
    BY DEF Matching
  <2>1. g # f /\ n.request[g] = s.request[g] /\ n.previous[g] = s.previous[g]
    BY <1>1, <1>8 DEF Shape
  <2> QED BY <2>1 DEF Sound, Base, Matching
<1>14. Linked(n)
  BY <1>6, <1>10 DEF Linked
<1>15. \A g \in Field \ {f} : n.invalid[g] = s.invalid[g]
  BY <1>1, <1>2, <1>10 DEF Shape
<1>16. n.invalid[f] = IF valid THEN "no" ELSE "yes"
  BY <1>1, <1>2, <1>10 DEF Shape
<1>17. Known(n)
  BY <1>1, <1>2, <1>10, <1>15, <1>16 DEF Sound, Known, Shape
<1>18. \A g \in n.errorMap : g \in DOMAIN settings
  BY <1>1, <1>2, <1>10 DEF Sound, Base, Known, Ruled, Shape
<1>19. Ruled(n)
  <2> SUFFICES ASSUME NEW g \in Field \ DOMAIN settings
               PROVE  n.container[g].class = "valid" /\ n.invalid[g] # "yes"
    BY DEF Ruled
  <2>1. g # f /\ g \notin n.errorMap
    BY <1>1, <1>18
  <2>2. s.container[g].class = "valid" /\ s.invalid[g] # "yes"
    BY DEF Sound, Base, Ruled
  <2>3. n.container[g].class = "valid"
    BY <1>4, <1>5, <1>10, <2>1, <2>2 DEF IsShown
  <2> QED BY <1>15, <2>1, <2>2, <2>3
<1>20. \A g \in Field \ (n.pending \ {f}) : Agrees(n, g)
  <2> SUFFICES ASSUME NEW g \in Field, g \notin s.pending \ {f}
               PROVE  Agrees(n, g)
    BY <1>10
  <2>1. CASE g \in a.errorMap
    <3>1. n.invalid[g] = "yes"
      BY <1>10, <1>17, <2>1 DEF Known
    <3>2. errorClass = DefaultErrorClass => n.container[g].class = "error"
      BY <1>5, <1>10, <2>1 DEF IsShown
    <3> QED BY <3>1, <3>2 DEF Agrees
  <2>2. CASE g \in a.successList \ a.errorMap
    <3>1. n.invalid[g] # "yes"
      BY <1>10, <1>17, <2>2 DEF Known
    <3>2. n.container[g].class = "valid"
      BY <1>5, <1>10, <2>2 DEF IsShown
    <3> QED BY <3>1, <3>2 DEF Agrees
  <2>3. CASE g \notin a.errorMap \cup a.successList
    <3>1. g # f /\ g \notin s.pending
      BY <1>2, <2>3
    <3>2. n.container[g] = s.container[g] /\ n.invalid[g] = s.invalid[g]
      BY <1>4, <1>5, <1>10, <1>15, <2>3, <3>1 DEF IsShown
    <3>3. Agrees(s, g)
      BY <3>1 DEF Sound, Shown
    <3> QED BY <3>2, <3>3 DEF Agrees
  <2> QED BY <2>1, <2>2, <2>3
<1>21. Base(n)
  BY <1>11, <1>12, <1>13, <1>14, <1>19 DEF Base
<1>22. f \in n.pending /\ n.request[f] = None
  BY <1>1, <1>8, <1>10 DEF Shape
<1>23. /\ Sound(t)
       /\ n.pending \ {f} \subseteq t.pending
       /\ \A g \in Field : g \in t.pending \/ t.previous[g] = n.previous[g]
       /\ t.sent => n.sent \/ Released(t, values)
       /\ t.formSubmitted => n.formSubmitted
  BY <1>9, <1>17, <1>20, <1>21, <1>22, StopSound
<1>24. \A g \in Field \ {f} : n.previous[g] = s.previous[g]
  BY <1>1, <1>8 DEF Shape
<1>25. /\ n.previous[f].old = s.previous[f].old
       /\ old => n.previous[f].valid = valid
  BY <1>1, <1>8 DEF Shape
<1> QED BY <1>10, <1>23, <1>24, <1>25 DEF t

(* What onReset leaves of a container: no error, and no link to one.       *)
LEMMA PutAway ==
  ASSUME NEW f \in Field, NEW c \in Container, LinkedAt(f, c)
  PROVE  LET d == IF errorClass # DefaultErrorClass /\ c.message = "text"
                    THEN [c EXCEPT !.message = "blank"] ELSE c
             e == IF d.class = "error"
                    THEN [d EXCEPT !.class = "valid", !.linked = FALSE] ELSE d
         IN  e \in Container /\ LinkedAt(f, e) /\ e.class = "valid"
<1> DEFINE d == IF errorClass # DefaultErrorClass /\ c.message = "text"
                  THEN [c EXCEPT !.message = "blank"] ELSE c
           e == IF d.class = "error"
                  THEN [d EXCEPT !.class = "valid", !.linked = FALSE] ELSE d
<1>1. d \in Container /\ LinkedAt(f, d)
  BY DEF Container, LinkedAt
<1> HIDE DEF d
<1>2. CASE d.class = "error"
  BY <1>1, <1>2 DEF Container, LinkedAt
<1>3. CASE d.class # "error"
  BY <1>1, <1>3 DEF Container, LinkedAt
<1> QED BY <1>2, <1>3 DEF d

(* A reset: the fields the validator has rules for forget their questions, *)
(* and nothing is shown as an error any more.                              *)
LEMMA ResetSound ==
  ASSUME NEW s, Sound(s), Rules
  PROVE  LET t == onReset(s) IN
         /\ Sound(t) /\ t.sent = s.sent /\ t.pending = s.pending
         /\ t.formSubmitted = s.formSubmitted
         /\ t.previous = [f \in Field |->
              IF f \in DOMAIN settings THEN NeverAsked ELSE s.previous[f]]
<1> DEFINE r == resetForm(s)
           t == onReset(s)
           d(f) == IF errorClass # DefaultErrorClass /\ s.container[f].message = "text"
                     THEN [s.container[f] EXCEPT !.message = "blank"]
                     ELSE s.container[f]
           e(f) == IF d(f).class = "error"
                     THEN [d(f) EXCEPT !.class = "valid", !.linked = FALSE]
                     ELSE d(f)
<1>1. Shape(s) /\ Linked(s) /\ Counted(s) /\ Matching(s)
  BY DEF Sound, Base
<1>2. /\ DOMAIN r = Labels
      /\ \A l \in {"pending", "pendingRequest", "request", "formSubmitted",
                   "sent"} : r[l] = s[l]
      /\ r.errorMap = {} /\ r.successList = {}
      /\ r.invalid = [f \in Field |-> "absent"]
      /\ r.previous = [f \in Field |->
           IF f \in DOMAIN settings THEN NeverAsked ELSE s.previous[f]]
      /\ r.container = [f \in Field |-> d(f)]
  BY <1>1 DEF resetForm, Shape, Labels
<1> HIDE DEF r
<1>3. /\ DOMAIN t = Labels
      /\ \A l \in Labels \ {"container", "summary"} : t[l] = r[l]
      /\ t.container = [f \in Field |-> e(f)]
  <2>1. t = [r EXCEPT
              !.summary = "valid",
              !.container = [f \in Field |->
                  IF @[f].class = "error"
                    THEN [@[f] EXCEPT !.class = "valid", !.linked = FALSE]
                    ELSE @[f]]]
    BY DEF onReset, r
  <2>2. \A f \in Field : r.container[f] = d(f)
    BY <1>2
  <2> HIDE DEF t, d
  <2>3. t.container = [f \in Field |->
           IF r.container[f].class = "error"
             THEN [r.container[f] EXCEPT !.class = "valid", !.linked = FALSE]
             ELSE r.container[f]]
    BY <1>2, <2>1 DEF Labels
  <2> QED BY <1>2, <2>1, <2>2, <2>3 DEF Labels
<1> HIDE DEF t
<1>4. /\ t.pending = s.pending /\ t.pendingRequest = s.pendingRequest
      /\ t.request = s.request /\ t.formSubmitted = s.formSubmitted
      /\ t.sent = s.sent
      /\ t.errorMap = {} /\ t.successList = {}
      /\ t.invalid = [f \in Field |-> "absent"]
      /\ t.previous = [f \in Field |->
           IF f \in DOMAIN settings THEN NeverAsked ELSE s.previous[f]]
  BY <1>2, <1>3 DEF Labels
<1>5. \A f \in Field :
        e(f) \in Container /\ LinkedAt(f, e(f)) /\ e(f).class = "valid"
  <2> SUFFICES ASSUME NEW f \in Field
               PROVE  e(f) \in Container /\ LinkedAt(f, e(f)) /\ e(f).class = "valid"
    OBVIOUS
  <2>1. s.container[f] \in Container /\ LinkedAt(f, s.container[f])
    BY <1>1 DEF Shape, Linked
  <2> QED BY <2>1, PutAway
<1> HIDE DEF e
<1>6. Shape(t)
  <2>1. /\ DOMAIN NeverAsked = {"old", "valid"} /\ NeverAsked.valid \in BOOLEAN
    BY DEF NeverAsked
  <2>2. \A f \in Field : /\ DOMAIN t.previous[f] = {"old", "valid"}
                         /\ t.previous[f].valid \in BOOLEAN
    BY <1>1, <1>4, <2>1 DEF Shape
  <2> QED BY <1>1, <1>3, <1>4, <1>5, <2>2 DEF Shape, Invalid
<1>7. Counted(t)
  BY <1>1, <1>4 DEF Counted
<1>8. Matching(t)
  BY <1>1, <1>4 DEF Matching, NeverAsked
<1>9. Linked(t)
  BY <1>3, <1>5 DEF Linked
<1>10. Ruled(t) /\ Known(t)
  BY <1>3, <1>4, <1>5 DEF Ruled, Known
<1>11. Shown(t)
  BY <1>3, <1>4, <1>5 DEF Shown, Agrees
<1> QED BY <1>4, <1>6, <1>7, <1>8, <1>9, <1>10, <1>11 DEF t, Sound, Base

(* A request that fails is live no more; the field stays pending.          *)
LEMMA FailureSound ==
  ASSUME NEW s, Sound(s), NEW f \in Field
  PROVE  LET t == [s EXCEPT !.request[f] = None] IN
         /\ Sound(t) /\ t.sent = s.sent /\ t.pending = s.pending
         /\ t.previous = s.previous /\ t.formSubmitted = s.formSubmitted
<1> DEFINE t == [s EXCEPT !.request[f] = None]
<1>1. Shape(s) /\ Linked(s) /\ Counted(s) /\ Matching(s) /\ Ruled(s)
  BY DEF Sound, Base
<1>2. /\ DOMAIN t = Labels
      /\ \A l \in Labels \ {"request"} : t[l] = s[l]
      /\ t.request = [s.request EXCEPT ![f] = None]
  BY <1>1 DEF Shape, Labels
<1> HIDE DEF t
<1>3. /\ t.errorMap = s.errorMap /\ t.successList = s.successList
      /\ t.invalid = s.invalid /\ t.pending = s.pending
      /\ t.pendingRequest = s.pendingRequest /\ t.previous = s.previous
      /\ t.container = s.container /\ t.formSubmitted = s.formSubmitted
      /\ t.sent = s.sent
  BY <1>2 DEF Labels
<1>4. DOMAIN t.request = Field
  BY <1>1, <1>2 DEF Shape
<1>5. Shape(t)
  BY <1>1, <1>2, <1>3, <1>4 DEF Shape
<1>6. Counted(t) /\ Matching(t)
  BY <1>1, <1>2, <1>3 DEF Counted, Matching, Shape
<1>7. Linked(t) /\ Ruled(t)
  BY <1>1, <1>3 DEF Linked, Ruled
<1>8. Known(t) /\ Shown(t)
  BY <1>3 DEF Sound, Known, Shown, Agrees
<1> QED BY <1>3, <1>5, <1>6, <1>7, <1>8 DEF t, Sound, Base

-----------------------------------------------------------------------------
(* What parsing leaves behind: rules for fields of the form only, each     *)
(* with the one that never fails, and none in use before a validator is    *)
(* there.                                                                  *)
Page ==
  /\ dom \subseteq Field
  /\ DOMAIN options \subseteq Field
  /\ \A f \in DOMAIN options : "__dummy__" \in DOMAIN options[f]
  /\ ~validator => settings = <<>>

(* What the validator remembers as approved, the server has approved.      *)
Answered ==
  /\ DOMAIN answers = Field
  /\ \A f \in Field \ v.pending :
       v.previous[f].valid => answers[f] = v.previous[f].old

(* A form waits only if it has a validator, whose rules are settled.       *)
Waits == v.formSubmitted => validator /\ Whole

IInv ==
  Page /\ Rules /\ Sound(v) /\ Answered /\ Waits /\ SentIsChecked

LEMMA DummyRule ==
  ASSUME NEW S \in SUBSET Field, NEW f \in Field
  PROVE  "__dummy__" \in DOMAIN RulesIn[S][f]
<1> DEFINE o == Offered([name |-> Name[f], checkbox |-> FALSE,
                        attrs |-> Attributes[f]], {Name[g] : g \in S})
<1>1. RulesIn[S][f] = [r \in DOMAIN o.rules \cup {"__dummy__"} |->
                         IF r = "__dummy__" THEN True ELSE o.rules[r]]
  BY DEF RulesIn, Adapted, Put
<1> QED BY <1>1

LEMMA InitHolds == Init => IInv
<1> SUFFICES ASSUME Init PROVE IInv
  OBVIOUS
<1>1. Page /\ Rules /\ Waits
  BY FieldAssumption DEF FieldAssumption, Init, Page, Rules, Waits
<1>2. Shape(v)
  BY DEF Init, Shape, Labels, Invalid, Container, NeverAsked
<1>3. Counted(v)
  BY FS_EmptySet DEF Init, Counted
<1>4. Linked(v) /\ Ruled(v) /\ Matching(v) /\ Known(v) /\ Shown(v)
  BY DEF Init, Linked, LinkedAt, Ruled, Matching, Known, Shown, Agrees
<1>5. Answered /\ SentIsChecked
  BY DEF Init, Answered, SentIsChecked, NeverAsked
<1> QED BY <1>1, <1>2, <1>3, <1>4, <1>5 DEF IInv, Sound, Base

(* The rules of the page mean the same after a step that leaves it alone.  *)
LEMMA SameRules ==
  ASSUME UNCHANGED page, NEW f
  PROVE  /\ LocalFails(f, val)' <=> LocalFails(f, val')
         /\ Throws(f, val)' <=> Throws(f, val')
         /\ IsRemote(f, val)' <=> IsRemote(f, val')
         /\ Data(f, val)' = Data(f, val')
<1>1. settings' = settings /\ dom' = dom
  BY DEF page
<1>2. RulesOf(f)' = RulesOf(f)
  BY <1>1 DEF RulesOf
<1>3. LocalFails(f, val)' <=> LocalFails(f, val')
  BY <1>2 DEF LocalFails
<1>4. Throws(f, val)' <=> Throws(f, val')
  <2>1. \A r : Ahead(r, f)' = Ahead(r, f)
    BY <1>2 DEF Ahead
  <2> QED BY <1>2, <2>1 DEF Throws
<1>5. IsRemote(f, val)' <=> IsRemote(f, val')
  BY <1>2, <1>3 DEF IsRemote
<1>6. Data(f, val)' = Data(f, val')
  <2> DEFINE part(w, d, name) ==
               IF {g \in d : Name[g] = name} = {} THEN <<Undefined>>
               ELSE w[CHOOSE g \in {g \in d : Name[g] = name} : TRUE]
             data(w, d, fields) ==
               <<w[f]>> \o [i \in DOMAIN fields |-> part(w, d, fields[i])]
  <2>1. Data(f, val)' = data(val', dom', RulesOf(f)'["remote"])
    BY DEF Data, Named
  <2>2. Data(f, val') = data(val', dom, RulesOf(f)["remote"])
    BY DEF Data, Named
  <2> HIDE DEF data
  <2> QED BY <1>1, <1>2, <2>1, <2>2
<1> QED BY <1>3, <1>5, <1>6, <1>4

(* What is sent after a step has passed with all answers in.               *)
LEMMA SentPassed ==
  ASSUME UNCHANGED page, Rules, Answered',
         v'.sent => Released(v', val')
  PROVE  SentIsChecked'
<1> SUFFICES ASSUME v'.sent, ~Broken(val)', NEW f \in DOMAIN settings
             PROVE  /\ ~LocalFails(f, val)'
                    /\ IsRemote(f, val)' => answers'[f] = Data(f, val)'
  <2>1. settings' = settings
    BY DEF page
  <2> QED BY <2>1 DEF SentIsChecked
<1>0. /\ v'.pending = {} /\ Passed(v', val')
  <2>1. ~Broken(val')
    <3>1. settings' = settings
      BY DEF page
    <3> QED BY <3>1, SameRules DEF Broken
  <2> QED BY <2>1 DEF Released
<1>1. /\ ~LocalFails(f, val')
      /\ IsRemote(f, val') => v'.previous[f].valid
                                /\ v'.previous[f].old = Data(f, val')
  BY <1>0 DEF Passed
<1>2. v'.previous[f].valid => answers'[f] = v'.previous[f].old
  BY <1>0 DEF Answered, Rules
<1> QED BY <1>1, <1>2, SameRules

(* A step of the validator alone keeps the invariant if its state is sound *)
(* and what it remembers as approved is.                                   *)
LEMMA StepOfValidator ==
  ASSUME IInv, UNCHANGED page, Sound(v'), Answered',
         v'.sent => Released(v', val'),
         v'.formSubmitted => v.formSubmitted \/ (validator /\ Whole)
  PROVE  IInv'
<1>1. /\ settings' = settings /\ dom' = dom /\ errorClass' = errorClass
      /\ options' = options /\ validator' = validator
  BY DEF page
<1>2. Page' /\ Rules' /\ Waits'
  BY <1>1 DEF IInv, Page, Rules, Waits, Whole, RulesOf
<1>3. Sound(v)'
  <2>1. Shape(v)'
    BY DEF Sound, Base, Shape
  <2>2. Counted(v)' /\ Matching(v)'
    BY <1>1 DEF Sound, Base, Counted, Matching
  <2>3. Linked(v)' /\ Ruled(v)'
    BY <1>1 DEF Sound, Base, Linked, Ruled, LinkedAt
  <2>4. Known(v)'
    BY DEF Sound, Known
  <2>5. Shown(v)'
    <3>1. \A f : Agrees(v', f) => Agrees(v, f)'
      BY <1>1 DEF Agrees
    <3> QED BY <3>1 DEF Sound, Shown
  <2> QED BY <2>1, <2>2, <2>3, <2>4, <2>5 DEF Sound, Base
<1>4. SentIsChecked'
  BY SentPassed DEF IInv
<1> QED BY <1>2, <1>3, <1>4 DEF IInv

(* Checking forgets no approval but that of a field it asks about anew.    *)
LEMMA StillAnswered ==
  ASSUME Answered, Follows(v, v'), Note(answers) PROVE Answered'
<1>1. /\ DOMAIN answers' = Field
      /\ \A f \in Field :
           v'.previous[f] = v.previous[f] =>
             answers'[f] = IF v.previous[f].old # None THEN answers[f] ELSE None
  BY DEF Note
<1> SUFFICES ASSUME NEW f \in Field \ v'.pending, v'.previous[f].valid
             PROVE  answers'[f] = v'.previous[f].old
  BY <1>1 DEF Answered
<1>2. f \notin v.pending /\ v'.previous[f] = v.previous[f]
  BY DEF Follows
<1> QED BY <1>1, <1>2 DEF Answered

(* Parsing gives a validator that is not there yet its rules, and leaves   *)
(* one that is there alone.                                                *)
LEMMA ParseHolds ==
  ASSUME IInv, ~v.sent, NEW S \in SUBSET dom, options' = Parsed(S),
         attachValidation \/ UNCHANGED <<validator, settings>>,
         UNCHANGED <<dom, val, errorClass, v, answers, failures>>
  PROVE  IInv'
<1>1. /\ DOMAIN options' \subseteq Field
      /\ \A f \in DOMAIN options' : "__dummy__" \in DOMAIN options'[f]
  <2>1. options' = [f \in DOMAIN options \cup S |->
                      IF f \in S THEN RulesIn[dom][f] ELSE options[f]]
    BY DEF Parsed
  <2>2. \A f \in S : "__dummy__" \in DOMAIN RulesIn[dom][f]
    BY DummyRule DEF IInv, Page
  <2> QED BY <2>1, <2>2 DEF IInv, Page
<1>2. /\ settings' = settings \/ (~validator /\ settings' = options')
      /\ ~validator' => settings' = settings /\ ~validator
      /\ validator => validator' /\ settings' = settings
  BY DEF attachValidation
<1>3. Page' /\ Waits'
  BY <1>1, <1>2 DEF IInv, Page, Waits, Whole, RulesOf
<1>4. Rules' /\ DOMAIN settings \subseteq DOMAIN settings'
  BY <1>1, <1>2 DEF IInv, Page, Rules
<1>5. Sound(v)'
  <2>1. Shape(v)'
    BY DEF IInv, Sound, Base, Shape
  <2>2. Counted(v)' /\ Matching(v)'
    BY <1>4 DEF IInv, Sound, Base, Counted, Matching
  <2>3. Linked(v)' /\ Ruled(v)'
    BY <1>4 DEF IInv, Sound, Base, Linked, Ruled, LinkedAt
  <2>4. Known(v)'
    BY DEF IInv, Sound, Known
  <2>5. Shown(v)'
    BY DEF IInv, Sound, Shown, Agrees
  <2> QED BY <2>1, <2>2, <2>3, <2>4, <2>5 DEF Sound, Base
<1>6. Answered' /\ SentIsChecked'
  BY DEF IInv, Answered, SentIsChecked
<1> QED BY <1>3, <1>4, <1>5, <1>6 DEF IInv

(* One step per action.                                                    *)
LEMMA StepHolds == IInv /\ [Next]_vars => IInv'
<1> SUFFICES ASSUME IInv, [Next]_vars PROVE IInv'
  OBVIOUS
<1>1. Page /\ Rules /\ Sound(v) /\ Answered
  BY DEF IInv
<1>2. ASSUME ~v.sent, NEW f \in Field, NEW skipAttach \in BOOLEAN,
             parseElement(f, skipAttach)
      PROVE  IInv'
  <2>1. /\ {f} \in SUBSET dom /\ options' = Parsed({f})
        /\ attachValidation \/ UNCHANGED <<validator, settings>>
        /\ UNCHANGED <<dom, val, errorClass, v, answers, failures>>
    BY <1>2 DEF parseElement
  <2> QED BY <1>2, <2>1, ParseHolds
<1>3. ASSUME ~v.sent, NEW S, parse(S) PROVE IInv'
  <2>1. /\ S \in SUBSET dom /\ options' = Parsed(S) /\ attachValidation
        /\ UNCHANGED <<dom, val, errorClass, v, answers, failures>>
    BY <1>3 DEF parse
  <2> QED BY <1>3, <2>1, ParseHolds
<1>4. ASSUME ~v.sent, NEW f \in Field, AddField(f) PROVE IInv'
  <2>1. /\ dom' = dom \cup {f}
        /\ UNCHANGED <<errorClass, options, validator, settings, v, answers>>
    BY <1>4 DEF AddField
  <2>2. Page' /\ Rules' /\ Waits'
    BY <2>1 DEF IInv, Page, Rules, Waits, Whole, RulesOf
  <2>3. Shape(v)' /\ Counted(v)' /\ Matching(v)' /\ Linked(v)' /\ Ruled(v)'
    BY <1>1, <2>1 DEF Sound, Base, Shape, Counted, Matching, Linked, LinkedAt, Ruled
  <2>4. Known(v)' /\ Shown(v)'
    BY <1>1, <2>1 DEF Sound, Known, Shown, Agrees
  <2>5. Answered' /\ SentIsChecked'
    BY <1>1, <1>4, <2>1 DEF Answered, SentIsChecked
  <2> QED BY <2>2, <2>3, <2>4, <2>5 DEF IInv, Sound, Base
<1>5. ASSUME ~v.sent, NEW f \in Field, FocusOut(f) PROVE IInv'
  <2>1. v' = element(v, f, val) /\ Note(answers) /\ UNCHANGED page
    BY <1>5 DEF FocusOut
  <2>2. Sound(v') /\ Follows(v, v') /\ ~v'.sent
        /\ v'.formSubmitted = v.formSubmitted
    BY <1>1, <1>5, <2>1, ElementSound
  <2> QED BY <1>1, <2>1, <2>2, StillAnswered, StepOfValidator
<1>6. ASSUME ~v.sent, NEW f \in Field, NEW value \in Value[f], Type(f, value)
      PROVE  IInv'
  <2>1. /\ v' = element(v, f, val') \/ v' = v
        /\ Note(answers) /\ UNCHANGED page
    BY <1>6 DEF Type
  <2>2. Sound(v') /\ Follows(v, v') /\ ~v'.sent
        /\ v'.formSubmitted = v.formSubmitted
    <3>1. CASE v' = element(v, f, val')
      BY <1>1, <1>6, <3>1, ElementSound
    <3>2. CASE v' = v
      BY <1>1, <1>6, <3>2 DEF Follows
    <3> QED BY <2>1, <3>1, <3>2
  <2> QED BY <1>1, <2>1, <2>2, StillAnswered, StepOfValidator
<1>7. ASSUME ~v.sent, Submit PROVE IInv'
  <2>1. /\ validator /\ v' = submit(v, val) /\ Note(answers)
        /\ UNCHANGED page /\ val' = val
    BY <1>7 DEF Submit
  <2>2. /\ Sound(v') /\ Follows(v, v')
        /\ v'.sent => Released(v', val')
        /\ v'.formSubmitted => v.formSubmitted \/ Whole
    BY <1>1, <1>7, <2>1, SubmitSound
  <2> QED BY <1>1, <2>1, <2>2, StillAnswered, StepOfValidator
<1>8. ASSUME ~v.sent, NEW f \in Field, NEW valid \in BOOLEAN, Answer(f, valid)
      PROVE  IInv'
  <2>1. /\ v.request[f] # None /\ v' = remoteSuccess(v, f, valid, val)
        /\ Note([answers EXCEPT ![f] = IF valid THEN v.request[f] ELSE None])
        /\ UNCHANGED page /\ val' = val
    BY <1>8 DEF Answer
  <2>2. /\ Sound(v')
        /\ v.pending \ {f} \subseteq v'.pending
        /\ \A g \in Field \ {f} :
             g \in v'.pending \/ v'.previous[g] = v.previous[g]
        /\ \/ f \in v'.pending
           \/ /\ v'.previous[f].old = v.previous[f].old
              /\ v.previous[f].old = v.request[f] => v'.previous[f].valid = valid
        /\ v'.sent => Released(v', val')
        /\ v'.formSubmitted => v.formSubmitted
    BY <1>1, <1>8, <2>1, AnswerSound
  <2>3. /\ DOMAIN answers' = Field
        /\ \A g \in Field : v'.previous[g].old = v.previous[g].old =>
             answers'[g] = IF v.previous[g].old = None THEN None
                           ELSE IF g # f THEN answers[g]
                           ELSE IF valid THEN v.request[f] ELSE None
    BY <1>1, <2>1 DEF Answered, Note
  <2>4. Answered'
    <3> SUFFICES ASSUME NEW g \in Field \ v'.pending, v'.previous[g].valid
                 PROVE  answers'[g] = v'.previous[g].old
      BY <2>3 DEF Answered
    <3>1. CASE g # f
      BY <1>1, <2>2, <2>3, <3>1 DEF Answered
    <3>2. CASE g = f
      <4>1. v.previous[f].old \in {v.request[f], None}
        BY <1>1, <2>1 DEF Sound, Base, Matching
      <4> QED BY <2>1, <2>2, <2>3, <3>2, <4>1
    <3> QED BY <3>1, <3>2
  <2> QED BY <2>1, <2>2, <2>4, StepOfValidator
<1>9. ASSUME ~v.sent, NEW f \in Field, RequestFails(f) PROVE IInv'
  <2>1. /\ v' = [v EXCEPT !.request[f] = None]
        /\ UNCHANGED page /\ answers' = answers
    BY <1>9 DEF RequestFails
  <2>2. Sound(v') /\ v'.sent = v.sent /\ v'.pending = v.pending
        /\ v'.previous = v.previous /\ v'.formSubmitted = v.formSubmitted
    BY <1>1, <1>9, <2>1, FailureSound
  <2>3. Answered'
    BY <1>1, <2>1, <2>2 DEF Answered
  <2> QED BY <1>9, <2>1, <2>2, <2>3, StepOfValidator
<1>10. ASSUME ~v.sent, Reset PROVE IInv'
  <2>1. /\ v' = onReset(v) \/ v' = v
        /\ Note(answers) /\ UNCHANGED page
    BY <1>10 DEF Reset
  <2>2. CASE v' = v
    <3>1. Follows(v, v')
      BY <2>2 DEF Follows
    <3> QED BY <1>1, <1>10, <2>1, <2>2, <3>1, StillAnswered, StepOfValidator
  <2>3. CASE v' = onReset(v)
    <3>1. /\ Sound(v') /\ v'.sent = v.sent /\ v'.pending = v.pending
          /\ v'.formSubmitted = v.formSubmitted
          /\ v'.previous = [f \in Field |->
               IF f \in DOMAIN settings THEN NeverAsked ELSE v.previous[f]]
      BY <1>1, <2>3, ResetSound
    <3>2. Answered'
      BY <1>1, <2>1, <3>1 DEF Answered, Note, NeverAsked
    <3> QED BY <1>10, <2>1, <3>1, <3>2, StepOfValidator
  <2> QED BY <2>1, <2>2, <2>3
<1>11. CASE UNCHANGED vars
  <2>1. /\ UNCHANGED page /\ v' = v /\ val' = val /\ answers' = answers
    BY <1>11 DEF vars, page
  <2>2. Page' /\ Rules' /\ Waits' /\ Answered'
    BY <2>1 DEF IInv, page, Page, Rules, Waits, Whole, RulesOf, Answered
  <2>3. Sound(v)'
    <3>1. settings' = settings /\ errorClass' = errorClass /\ v' = v
      BY <2>1 DEF page
    <3>2. Shape(v)' /\ Counted(v)' /\ Matching(v)' /\ Linked(v)' /\ Ruled(v)'
      BY <1>1, <3>1 DEF Sound, Base, Shape, Counted, Matching, Linked, LinkedAt, Ruled
    <3>3. Known(v)' /\ Shown(v)'
      BY <1>1, <3>1 DEF Sound, Known, Shown, Agrees
    <3> QED BY <3>2, <3>3 DEF Sound, Base
  <2>4. SentIsChecked'
    <3>1. settings' = settings /\ v' = v /\ answers' = answers /\ val' = val
      BY <2>1 DEF page
    <3>2. \A f : /\ LocalFails(f, val)' <=> LocalFails(f, val)
                 /\ Throws(f, val)' <=> Throws(f, val)
                 /\ IsRemote(f, val)' <=> IsRemote(f, val)
                 /\ Data(f, val)' = Data(f, val)
      BY <2>1, SameRules
    <3> QED BY <3>1, <3>2 DEF IInv, SentIsChecked, Broken
  <2> QED BY <2>2, <2>3, <2>4 DEF IInv
<1> QED
  <2>1. CASE Next
    BY <2>1, <1>2, <1>3, <1>4, <1>5, <1>6, <1>7, <1>8, <1>9, <1>10 DEF Next
  <2> QED BY <2>1, <1>11

LEMMA IInvHolds == Spec => []IInv
BY InitHolds, StepHolds, PTL DEF Spec

-----------------------------------------------------------------------------
(* What is asked of the server: the parameter of a remote rule is a list   *)
(* of names, as the fold over the adapters keeps it.                       *)
RemoteRule(R) == "remote" \in DOMAIN R => \E n \in Nat : DOMAIN R["remote"] = 1 .. n

OptionNames == {"element", "form", "message", "params", "rules", "messages"}

Handed(o) == DOMAIN o = OptionNames /\ RemoteRule(o.rules)

Loop == INSTANCE LeftFold WITH Step <- Offer

LEMMA OfferedIsLoop ==
  ASSUME NEW e, NEW names
  PROVE  Offered(e, names) =
           Loop!Fold([element |-> e, form |-> names, message |-> "", params |-> <<>>,
                      rules |-> <<>>, messages |-> <<>>], adapters)
BY DEF Offered, FoldLeft, MapThenFoldSet, Max,
   Loop!Fold, Loop!FoldLeft, Loop!MapThenFoldSet, Loop!Max

(* Only the adapter for remote rules sets one.                             *)
Keeps(o, z) == Handed(z) /\ z.element = o.element

LEMMA OtherRule ==
  ASSUME NEW o, Handed(o), NEW r, NEW x, r # "remote" \/ \E n \in Nat : DOMAIN x = 1 .. n
  PROVE  Keeps(o, setValidationValues(o, r, x)) /\ Keeps(o, setUndefined(o, r))
<1> DEFINE m == setMessage(o, r)
<1>1. DOMAIN m = OptionNames /\ m.rules = o.rules /\ m.element = o.element
  BY DEF setMessage, Handed, OptionNames
<1> HIDE DEF m
<1>2. /\ setValidationValues(o, r, x) = [m EXCEPT !.rules = Put(@, r, x)]
      /\ setUndefined(o, r) = [m EXCEPT !.rules = Restrict(@, DOMAIN @ \ {r})]
  BY DEF setValidationValues, setUndefined, m
<1>3. RemoteRule(Put(o.rules, r, x))
  BY DEF Put, RemoteRule, Handed
<1>4. RemoteRule(Restrict(o.rules, DOMAIN o.rules \ {r}))
  BY DEF Restrict, RemoteRule, Handed
<1> QED BY <1>1, <1>2, <1>3, <1>4 DEF Keeps, Handed, OptionNames

(* What the adapters the script registers are like.                        *)
Plain(adapter) ==
  LET fn == adapter.fn IN
  \/ fn.kind \in {"bool", "single"} /\ fn.rule # "remote"
  \/ /\ fn.kind = "minmax"
     /\ fn.minRule # "remote" /\ fn.maxRule # "remote" /\ fn.minMaxRule # "remote"
  \/ fn.kind \in {"equalto", "required", "password", "fileextensions"}

RemoteAdapter ==
  add("remote", {"url", "type", "additionalfields"}, [kind |-> "remote"])

LEMMA PlainOrRemote ==
  /\ DOMAIN adapters = 1 .. Len(adapters) /\ Len(adapters) \in Nat
  /\ \A k \in DOMAIN adapters : Plain(adapters[k]) \/ adapters[k] = RemoteAdapter
<1>1. \E n \in Nat : /\ fileAdapters = [k \in 1 .. n |-> fileAdapters[k]]
                     /\ \A k \in 1 .. n : Plain(fileAdapters[k])
  <2>1. CASE HasExtension
    <3>1. fileAdapters = <<addSingleVal("accept", "mimtype", Undefined),
                           addSingleVal("extension", "extension", Undefined)>>
      BY <2>1 DEF fileAdapters
    <3>2. fileAdapters = [k \in 1 .. 2 |-> fileAdapters[k]]
      BY <3>1
    <3>3. Plain(fileAdapters[1]) /\ Plain(fileAdapters[2])
      BY <3>1 DEF addSingleVal, add, OrElse, Undefined, Plain
    <3>4. \A k \in 1 .. 2 : k = 1 \/ k = 2
      OBVIOUS
    <3> QED BY <3>2, <3>3, <3>4
  <2>2. CASE ~HasExtension
    <3>1. fileAdapters = <<addSingleVal("extension", "extension", "accept")>>
      BY <2>2 DEF fileAdapters
    <3>2. fileAdapters = [k \in 1 .. 1 |-> fileAdapters[k]]
      BY <3>1
    <3>3. Plain(fileAdapters[1])
      BY <3>1 DEF addSingleVal, add, OrElse, Undefined, Plain
    <3> QED BY <3>2, <3>3
  <2> QED BY <2>1, <2>2
<1>2. PICK n \in Nat : /\ fileAdapters = [k \in 1 .. n |-> fileAdapters[k]]
                      /\ \A k \in 1 .. n : Plain(fileAdapters[k])
  BY <1>1
<1>3. ruleAdapters = [k \in 1 .. 16 |-> ruleAdapters[k]]
  BY DEF ruleAdapters
<1>4. \A k \in 1 .. 16 : Plain(ruleAdapters[k]) \/ ruleAdapters[k] = RemoteAdapter
  <2>1. /\ Plain(ruleAdapters[1]) /\ Plain(ruleAdapters[2]) /\ Plain(ruleAdapters[3])
        /\ Plain(ruleAdapters[4]) /\ Plain(ruleAdapters[5]) /\ Plain(ruleAdapters[6])
        /\ Plain(ruleAdapters[7])
    BY DEF ruleAdapters, addSingleVal, addBool, add, OrElse, Undefined, Plain
  <2>2. /\ Plain(ruleAdapters[8]) /\ Plain(ruleAdapters[9]) /\ Plain(ruleAdapters[10])
        /\ Plain(ruleAdapters[11])
    BY DEF ruleAdapters, addMinMax, add, Undefined, Plain
  <2>3. /\ Plain(ruleAdapters[12]) /\ Plain(ruleAdapters[13])
        /\ Plain(ruleAdapters[15]) /\ Plain(ruleAdapters[16])
    BY DEF ruleAdapters, add, Plain
  <2>4. ruleAdapters[14] = RemoteAdapter
    BY DEF ruleAdapters, RemoteAdapter
  <2>5. \A k \in 1 .. 16 : \/ k = 1 \/ k = 2 \/ k = 3 \/ k = 4 \/ k = 5 \/ k = 6
                           \/ k = 7 \/ k = 8 \/ k = 9 \/ k = 10 \/ k = 11 \/ k = 12
                           \/ k = 13 \/ k = 14 \/ k = 15 \/ k = 16
    OBVIOUS
  <2> QED BY <2>1, <2>2, <2>3, <2>4, <2>5
<1>5. /\ DOMAIN adapters = 1 .. n + 16 /\ Len(adapters) = n + 16
      /\ \A k \in 1 .. n : adapters[k] = fileAdapters[k]
      /\ \A k \in 1 .. 16 : adapters[n + k] = ruleAdapters[k]
  <2>1. Loop!IsList(fileAdapters, n) /\ Loop!IsList(ruleAdapters, 16) /\ 16 \in Nat
    BY <1>2, <1>3 DEF Loop!IsList
  <2>2. adapters = fileAdapters \o ruleAdapters
    BY DEF adapters
  <2>3. Loop!IsJoined(adapters, fileAdapters, n, ruleAdapters, 16)
    BY <2>1, <2>2, Loop!Joined, Zenon
  <2> QED BY <2>3, Zenon DEF Loop!IsJoined
<1>6. \A k \in 1 .. n + 16 : k \in 1 .. n \/ (k - n \in 1 .. 16 /\ n + (k - n) = k)
  OBVIOUS
<1>7. \A k \in DOMAIN adapters : Plain(adapters[k]) \/ adapters[k] = RemoteAdapter
  <2> SUFFICES ASSUME NEW k \in 1 .. n + 16
               PROVE  Plain(adapters[k]) \/ adapters[k] = RemoteAdapter
    BY <1>5, Zenon
  <2>1. CASE k \in 1 .. n
    <3>1. adapters[k] = fileAdapters[k]
      BY <1>5, <2>1, Zenon
    <3> QED BY <1>2, <2>1, <3>1, Zenon
  <2>2. CASE k - n \in 1 .. 16 /\ n + (k - n) = k
    <3>1. adapters[n + (k - n)] = ruleAdapters[k - n]
      BY <1>5, <2>2, Zenon
    <3>2. adapters[k] = ruleAdapters[k - n]
      BY <2>2, <3>1, Zenon
    <3> QED BY <1>4, <2>2, <3>2, Zenon
  <2> QED BY <1>6, <2>1, <2>2, Zenon
<1>8. DOMAIN adapters = 1 .. Len(adapters) /\ Len(adapters) \in Nat
  <2>1. n + 16 \in Nat
    OBVIOUS
  <2> QED BY <1>5, <2>1, Zenon
<1> QED BY <1>7, <1>8

(* The names of the fields a remote rule asks about are a list.            *)
Listed(o) ==
  "remote" \in DOMAIN o.element.attrs =>
    LET p == o.element.attrs["remote"].params IN
    "additionalfields" \in DOMAIN p =>
      \E n \in Nat : DOMAIN p["additionalfields"] = 1 .. n

LEMMA OfferHanded ==
  ASSUME NEW o, Handed(o), Listed(o), NEW adapter,
         Plain(adapter) \/ adapter = RemoteAdapter
  PROVE  Keeps(o, Offer(o, adapter))
<1> DEFINE attr == o.element.attrs[adapter.name]
           q == [o EXCEPT !.message = attr.message,
                          !.params = Restrict(attr.params,
                              adapter.params \cap DOMAIN attr.params)]
           fn == adapter.fn
<1>1. CASE adapter.name \notin DOMAIN o.element.attrs
  BY <1>1 DEF Offer, Keeps
<1>2. CASE adapter.name \in DOMAIN o.element.attrs
  <2>1. Offer(o, adapter) = Adapt(adapter, q)
    BY <1>2 DEF Offer
  <2>2. /\ Keeps(o, q)
        /\ q.params = Restrict(attr.params, adapter.params \cap DOMAIN attr.params)
    BY DEF Keeps, Handed, OptionNames
  <2> HIDE DEF q
  <2>3. Handed(q)
    BY <2>2 DEF Keeps
  <2>4. \A r, x : r # "remote" => /\ Keeps(q, setValidationValues(q, r, x))
                                 /\ Keeps(q, setUndefined(q, r))
    BY <2>3, OtherRule
  <2>5. Keeps(q, q)
    BY <2>3 DEF Keeps
  <2>6. \A n, r : r # "remote" => Keeps(q, AdaptValue(q, r, n))
    BY <2>4 DEF AdaptValue
  <2>7. Keeps(q, Adapt(adapter, q))
    <3>1. CASE fn.kind = "bool" /\ fn.rule # "remote"
      BY <2>4, <3>1 DEF Adapt, AdaptBool
    <3>2. CASE fn.kind = "single" /\ fn.rule # "remote"
      BY <2>6, <3>2 DEF Adapt, AdaptSingleVal
    <3>3. CASE /\ fn.kind = "minmax" /\ fn.minRule # "remote"
               /\ fn.maxRule # "remote" /\ fn.minMaxRule # "remote"
      <4>1. Keeps(q, AdaptMinMax(q, fn))
        <5> DEFINE both == q.params["min"] \o q.params["max"]
        <5>1. AdaptMinMax(q, fn) \in
                {setValidationValues(q, fn.minMaxRule, both),
                 setValidationValues(q, fn.minRule, q.params["min"]),
                 setValidationValues(q, fn.maxRule, q.params["max"]), q}
          BY DEF AdaptMinMax
        <5> HIDE DEF both, fn
        <5> QED BY <2>4, <2>5, <3>3, <5>1
      <4>2. Adapt(adapter, q) = AdaptMinMax(q, fn)
        BY <3>3 DEF Adapt
      <4> QED BY <4>1, <4>2
    <3>4. CASE fn.kind = "equalto"
      <4>1. Keeps(q, AdaptEqualTo(q))
        BY <2>4 DEF AdaptEqualTo
      <4> QED BY <3>4, <4>1 DEF Adapt
    <3>5. CASE fn.kind = "required"
      BY <2>4, <2>5, <3>5 DEF Adapt, AdaptRequired
    <3>6. CASE fn.kind = "fileextensions"
      BY <2>6, <3>6 DEF Adapt, AdaptFileExtensions
    <3>7. CASE fn.kind = "password"
      <4>1. \A z, n, r : Keeps(q, z) /\ r # "remote" => Keeps(q, AdaptParam(z, n, r))
        BY OtherRule DEF AdaptParam, Keeps
      <4>2. Keeps(q, AdaptPassword(q))
        BY <2>5, <4>1 DEF AdaptPassword
      <4> QED BY <3>7, <4>2 DEF Adapt
    <3>8. CASE adapter = RemoteAdapter
      <4>1. /\ fn.kind = "remote" /\ adapter.name = "remote"
            /\ adapter.params = {"url", "type", "additionalfields"}
        BY <3>8 DEF RemoteAdapter, add
      <4>2. Has(q, "additionalfields") =>
              \E n \in Nat : DOMAIN q.params["additionalfields"] = 1 .. n
        BY <1>2, <2>2, <4>1 DEF Listed, Has, Restrict
      <4> DEFINE prefix == getModelPrefix(q.element.name)
                 fields == IF Has(q, "additionalfields")
                             THEN q.params["additionalfields"] ELSE <<q.element.name>>
                 x == [i \in DOMAIN fields |-> appendModelPrefix(fields[i], prefix)]
      <4>3. \E n \in Nat : DOMAIN fields = 1 .. n
        <5>1. DOMAIN <<q.element.name>> = 1 .. 1 /\ 1 \in Nat
          OBVIOUS
        <5> QED BY <4>2, <5>1
      <4>4. \E n \in Nat : DOMAIN x = 1 .. n
        BY <4>3
      <4>5. AdaptRemote(q) = setValidationValues(q, "remote", x)
        BY DEF AdaptRemote
      <4> HIDE DEF x
      <4>6. Keeps(q, AdaptRemote(q))
        BY <2>3, <4>4, <4>5, OtherRule
      <4> QED BY <4>1, <4>6 DEF Adapt
    <3> QED BY <3>1, <3>2, <3>3, <3>4, <3>5, <3>6, <3>7, <3>8 DEF Plain
  <2> QED BY <2>1, <2>2, <2>7 DEF Keeps
<1> QED BY <1>1, <1>2

LEMMA RulesInRemote ==
  ASSUME NEW S \in SUBSET Field, NEW f \in Field
  PROVE  RemoteRule(RulesIn[S][f])
<1> DEFINE names == {Name[g] : g \in S}
           e == [name |-> Name[f], checkbox |-> FALSE, attrs |-> Attributes[f]]
           blank == [element |-> e, form |-> names, message |-> "", params |-> <<>>,
                     rules |-> <<>>, messages |-> <<>>]
           n == Len(adapters)
           o == Offered(e, names)
<1>1. n \in Nat /\ DOMAIN adapters = 1 .. n
  BY PlainOrRemote
<1> HIDE DEF n
<1>2. PICK g : Loop!Values(g, blank, adapters, n) /\ o = g[n]
  BY <1>1, OfferedIsLoop, Loop!FoldValues
<1> DEFINE Fine(x) == Handed(x) /\ x.element = e
<1>3. \A x : Fine(x) => Listed(x)
  <2> SUFFICES ASSUME "remote" \in DOMAIN Attributes[f],
                      "additionalfields" \in DOMAIN Attributes[f]["remote"].params
               PROVE  \E k \in Nat :
                        DOMAIN Attributes[f]["remote"].params["additionalfields"] = 1 .. k
    BY DEF Listed
  <2>1. Attributes[f]["remote"].params["additionalfields"] \in Seq(Seq(STRING))
    BY FieldAssumption DEF FieldAssumption
  <2> DEFINE fields == Attributes[f]["remote"].params["additionalfields"]
  <2> HIDE DEF fields
  <2>2. Len(fields) \in Nat /\ DOMAIN fields = 1 .. Len(fields)
    BY <2>1 DEF fields
  <2> QED BY <2>2 DEF fields
<1>4. Fine(g[0])
  <2>1. g[0] = blank
    BY <1>2 DEF Loop!Values
  <2>2. DOMAIN blank = OptionNames /\ blank.rules = <<>> /\ blank.element = e
    BY DEF OptionNames
  <2> HIDE DEF blank, e
  <2> QED BY <2>1, <2>2 DEF Handed, RemoteRule
<1>5. ASSUME NEW k \in Nat, k + 1 \in 1 .. n, Fine(g[k]) PROVE Fine(g[k + 1])
  <2>1. g[k + 1] = Offer(g[k], adapters[k + 1])
    <3>1. (k + 1) - 1 = k
      OBVIOUS
    <3> QED BY <1>2, <1>5, <3>1 DEF Loop!Values
  <2>2. Plain(adapters[k + 1]) \/ adapters[k + 1] = RemoteAdapter
    BY <1>1, <1>5, PlainOrRemote
  <2> HIDE DEF e
  <2> QED BY <1>3, <1>5, <2>1, <2>2, OfferHanded DEF Keeps
<1>6. Fine(g[n])
  <2> DEFINE T == {k \in Nat : k <= n => Fine(g[k])}
  <2> HIDE DEF Fine
  <2>1. 0 \in T
    BY <1>4
  <2>2. ASSUME NEW k \in Nat, k \in T PROVE k + 1 \in T
    <3>1. SUFFICES ASSUME k + 1 <= n PROVE Fine(g[k + 1])
      OBVIOUS
    <3>2. k <= n /\ k + 1 \in 1 .. n
      BY <1>1, <3>1
    <3> QED BY <1>5, <2>2, <3>2
  <2> HIDE DEF T
  <2>3. n \in T
    BY <1>1, <2>1, <2>2, Loop!Induction
  <2> QED BY <1>1, <2>3 DEF T
<1>7. RemoteRule(o.rules)
  BY <1>2, <1>6 DEF Handed
<1>8. RulesIn[S][f] = Put(o.rules, "__dummy__", True)
  BY DEF RulesIn, Adapted
<1> HIDE DEF o
<1> QED BY <1>7, <1>8 DEF Put, RemoteRule

(* What is typed, and the questions there are about it.                    *)
Typing(values) == DOMAIN values = Field /\ \A f \in Field : values[f] \in Value[f]

RemoteRules(R) == \A f \in DOMAIN R : RemoteRule(R[f])

Answerable(values) == \A f \in Field : IsRemote(f, values) => Data(f, values) \in Question

LEMMA DataIsQuestion ==
  ASSUME dom \subseteq Field, RemoteRules(settings), NEW values, Typing(values)
  PROVE  Answerable(values)
<1> SUFFICES ASSUME NEW f \in Field, IsRemote(f, values)
             PROVE  Data(f, values) \in Question
  BY DEF Answerable
<1> DEFINE Said == (UNION Range(Value)) \cup {<<Undefined>>}
           fields == RulesOf(f)["remote"]
           part(i) == IF Named(fields[i]) = {} THEN <<Undefined>>
                      ELSE values[CHOOSE g \in Named(fields[i]) : TRUE]
<1>1. \A g \in Field : values[g] \in Said
  BY FieldAssumption DEF FieldAssumption, Typing, Range
<1>2. PICK n \in Nat : DOMAIN fields = 1 .. n
  <2>1. "remote" \in DOMAIN RulesOf(f)
    BY DEF IsRemote
  <2>2. f \in DOMAIN settings /\ RulesOf(f) = settings[f]
    <3>1. f \notin DOMAIN settings => DOMAIN RulesOf(f) = {}
      BY DEF RulesOf
    <3> QED BY <2>1, <3>1 DEF RulesOf
  <2> QED BY <2>1, <2>2 DEF RemoteRules, RemoteRule
<1>3. \A name : Named(name) # {} => (CHOOSE g \in Named(name) : TRUE) \in Field
  BY DEF Named
<1>4. \A i : part(i) \in Said
  <2>1. <<Undefined>> \in Said
    OBVIOUS
  <2> HIDE DEF Said
  <2> QED BY <1>1, <1>3, <2>1
<1>5. Data(f, values) = <<values[f]>> \o [i \in 1 .. n |-> part(i)]
  BY <1>2 DEF Data
<1> HIDE DEF part, Said
<1>6. <<values[f]>> \in Seq(Said) /\ [i \in 1 .. n |-> part(i)] \in Seq(Said)
  BY <1>1, <1>4
<1>7. Data(f, values) \in Seq(Said)
  BY <1>5, <1>6
<1> QED BY <1>7 DEF Question, Said

(* Each operator of the validator, once more: what it makes of a state.    *)
LEMMA CheckedTyped ==
  ASSUME NEW s \in Validator, NEW fs \in SUBSET Field, NEW values, Answerable(values)
  PROVE  Checked(s, fs, values) \in Validator
<1> DEFINE asked == {f \in fs : Asks(s, f, values)}
           failed == {f \in fs : Fails(s, f, values)}
           good == {f \in fs \ (failed \cup asked) :
                      RulesOf(f) # <<>> /\ ~DependencyMismatch(f, values)}
<1>1. \A f \in asked : Data(f, values) \in Question
  BY DEF Asks, Answerable
<1>2. Cardinality(asked \ s.pending) \in Nat
  <2>1. IsFiniteSet(asked \ s.pending)
    BY FieldAssumption, FS_Subset DEF FieldAssumption
  <2> QED BY <2>1, FS_CardinalityType
<1>3. asked \subseteq Field /\ failed \subseteq Field /\ good \subseteq Field
  OBVIOUS
<1> DEFINE previous == [f \in Field |->
             IF f \in asked THEN [s.previous[f] EXCEPT !.old = Data(f, values)]
                            ELSE s.previous[f]]
           request == [f \in Field |->
             IF f \in asked THEN Data(f, values) ELSE s.request[f]]
           submitted == s.submitted \cup failed
           pending == s.pending \cup asked
           pendingRequest == s.pendingRequest + Cardinality(asked \ s.pending)
<1>4. Checked(s, fs, values) =
        [s EXCEPT
           !.errorMap = failed, !.successList = good, !.submitted = submitted,
           !.previous = previous, !.request = request, !.pending = pending,
           !.pendingRequest = pendingRequest]
  BY DEF Checked
<1> HIDE DEF asked, failed, good
<1>5. previous \in [Field -> [old : Question, valid : BOOLEAN]]
  BY <1>1 DEF Validator
<1>6. request \in [Field -> Question]
  BY <1>1 DEF Validator
<1>7. submitted \subseteq Field /\ pending \subseteq Field /\ pendingRequest \in Nat
  BY <1>2, <1>3 DEF Validator
<1> HIDE DEF previous, request, submitted, pending, pendingRequest
<1> QED BY <1>3, <1>4, <1>5, <1>6, <1>7 DEF Validator

LEMMA LabelTyped ==
  ASSUME NEW f, NEW c \in Container, NEW failed \in BOOLEAN
  PROVE  showLabel(f, c, failed) \in Container
<1>1. \A d \in Container : onError(f, d) \in Container
  <2>1. (f \in Replaces) \in BOOLEAN
    OBVIOUS
  <2> QED BY <2>1 DEF onError, Container
<1>2. \A d \in Container : onSuccess(f, d) \in Container
  BY DEF onSuccess, Container
<1>3. \A m \in {"text", "blank"} : [c EXCEPT !.message = m] \in Container
  BY DEF Container
<1> DEFINE found == errorClass # DefaultErrorClass /\ c.message # "none"
           error == IF found THEN [c EXCEPT !.message = "text"] ELSE onError(f, c)
<1>4. error \in Container
  BY <1>1, <1>3
<1>5. showLabel(f, c, failed) \in {error, [c EXCEPT !.message = "blank"], onSuccess(f, error)}
  BY DEF showLabel
<1> HIDE DEF error
<1> QED BY <1>2, <1>3, <1>4, <1>5

LEMMA ShowErrorsTyped ==
  ASSUME NEW s \in Validator PROVE showErrors(s) \in Validator
<1> DEFINE container == [f \in Field |->
             IF f \in s.errorMap \cup s.successList
               THEN showLabel(f, s.container[f], f \in s.errorMap) ELSE s.container[f]]
<1>1. \A f \in Field : s.container[f] \in Container /\ (f \in s.errorMap) \in BOOLEAN
  BY DEF Validator
<1>2. container \in [Field -> Container]
  BY <1>1, LabelTyped
<1>3. showErrors(s) = [s EXCEPT !.container = container]
  BY DEF showErrors
<1> HIDE DEF container
<1> QED BY <1>2, <1>3 DEF Validator

LEMMA OnErrorsTyped ==
  ASSUME NEW s \in Validator PROVE onErrors(s) \in Validator
<1>1. onErrors(s) \in {s, [s EXCEPT !.summary = "errors"]}
  BY DEF onErrors
<1> QED BY <1>1 DEF Validator

LEMMA InvalidTyped ==
  ASSUME NEW s \in Validator, NEW i \in [Field -> Invalid]
  PROVE  [s EXCEPT !.invalid = i] \in Validator
BY DEF Validator, Invalid

LEMMA FlagsTyped ==
  ASSUME NEW s \in Validator, NEW b \in BOOLEAN
  PROVE  [s EXCEPT !.formSubmitted = b] \in Validator /\ [s EXCEPT !.sent = b] \in Validator
BY DEF Validator

LEMMA FormTyped ==
  ASSUME NEW s \in Validator, Rules, NEW values, Answerable(values)
  PROVE  form(s, values) \in Validator
<1> DEFINE c == Checked(s, DOMAIN settings, values)
           i == [f \in Field |-> IF f \in c.errorMap THEN "yes" ELSE "absent"]
<1>1. c \in Validator
  BY CheckedTyped DEF Rules
<1>2. i \in [Field -> Invalid]
  BY DEF Invalid
<1>3. form(s, values) = showErrors(onErrors([c EXCEPT !.invalid = i]))
  BY DEF form
<1> HIDE DEF c, i
<1> QED BY <1>1, <1>2, <1>3, InvalidTyped, OnErrorsTyped, ShowErrorsTyped

LEMMA ElementTyped ==
  ASSUME NEW s \in Validator, NEW f \in Field, NEW values, Answerable(values)
  PROVE  element(s, f, values) \in Validator
<1> DEFINE c == Checked(s, {f}, values)
           i == [c.invalid EXCEPT ![f] = IF f \in c.errorMap THEN "yes" ELSE "no"]
<1>1. c \in Validator
  BY CheckedTyped
<1>2. element(s, f, values) \in
        {Interrupted(s), showErrors([c EXCEPT !.invalid = i])}
  BY DEF element
<1>3. Interrupted(s) \in Validator
  BY DEF Interrupted, Validator
<1> HIDE DEF c
<1>4. i \in [Field -> Invalid]
  BY <1>1 DEF Invalid, Validator
<1> HIDE DEF i
<1> QED BY <1>1, <1>2, <1>4, <1>3, InvalidTyped, ShowErrorsTyped

LEMMA SubmitTyped ==
  ASSUME NEW s \in Validator, Rules, NEW values, Answerable(values)
  PROVE  submit(s, values) \in Validator
<1> DEFINE t == form(s, values)
<1>1. t \in Validator
  BY FormTyped
<1>2. submit(s, values) \in
        {t, [t EXCEPT !.formSubmitted = TRUE], [t EXCEPT !.sent = TRUE],
         [s EXCEPT !.sent = TRUE]}
  BY DEF submit
<1> HIDE DEF t
<1> QED BY <1>1, <1>2, FlagsTyped

LEMMA StopTyped ==
  ASSUME NEW s \in Validator, Rules, NEW f \in Field, NEW valid \in BOOLEAN,
         NEW values, Answerable(values)
  PROVE  stopRequest(s, f, valid, values) \in Validator
<1> DEFINE pendingRequest == IF s.pendingRequest = 0 THEN 0 ELSE s.pendingRequest - 1
           pending == s.pending \ {f}
           rest == [s EXCEPT !.pendingRequest = pendingRequest, !.pending = pending]
           checked == form(rest, values)
           sent == submit(checked, values)
           shown == onErrors(rest)
<1>1. pendingRequest \in Nat /\ pending \subseteq Field
  BY DEF Validator
<1>2. stopRequest(s, f, valid, values) \in
        {[sent EXCEPT !.formSubmitted = FALSE], checked,
         [shown EXCEPT !.formSubmitted = FALSE], rest}
  BY DEF stopRequest
<1> HIDE DEF pendingRequest, pending
<1>3. rest \in Validator
  BY <1>1 DEF Validator
<1> HIDE DEF rest
<1>4. checked \in Validator /\ shown \in Validator
  BY <1>3, FormTyped, OnErrorsTyped
<1> HIDE DEF checked, shown
<1>5. sent \in Validator
  BY <1>4, SubmitTyped
<1> HIDE DEF sent
<1> QED BY <1>2, <1>3, <1>4, <1>5, FlagsTyped

LEMMA AnswerTyped ==
  ASSUME NEW s \in Validator, Rules, NEW f \in Field, NEW valid \in BOOLEAN,
         NEW values, Answerable(values)
  PROVE  remoteSuccess(s, f, valid, values) \in Validator
<1> DEFINE a == IF valid THEN [s EXCEPT !.errorMap = {}, !.successList = {f},
                                       !.invalid[f] = "no"]
                         ELSE [s EXCEPT !.errorMap = @ \cup {f},
                                        !.successList = @ \ {f},
                                        !.invalid[f] = "yes"]
           b == showErrors(a)
           old == s.previous[f].old = s.request[f]
           n == [b EXCEPT !.previous[f].valid = IF old THEN valid ELSE @,
                          !.request[f] = None]
<1>1. /\ {} \subseteq Field /\ {f} \subseteq Field
      /\ s.errorMap \cup {f} \subseteq Field /\ s.successList \ {f} \subseteq Field
      /\ \A c \in {"no", "yes"} : [s.invalid EXCEPT ![f] = c] \in [Field -> Invalid]
  BY DEF Validator, Invalid
<1>2. \A e, g \in SUBSET Field, i \in [Field -> Invalid] :
        [s EXCEPT !.errorMap = e, !.successList = g, !.invalid = i] \in Validator
  BY DEF Validator, Invalid
<1>3. a \in Validator
  <2> DEFINE good == [s.invalid EXCEPT ![f] = "no"]
             bad == [s.invalid EXCEPT ![f] = "yes"]
             errors == s.errorMap \cup {f}
             others == s.successList \ {f}
             single == {f}
  <2>1. a = IF valid
              THEN [s EXCEPT !.errorMap = {}, !.successList = single, !.invalid = good]
              ELSE [s EXCEPT !.errorMap = errors, !.successList = others, !.invalid = bad]
    OBVIOUS
  <2>2. /\ single \subseteq Field /\ errors \subseteq Field /\ others \subseteq Field
        /\ good \in [Field -> Invalid] /\ bad \in [Field -> Invalid]
    BY <1>1
  <2> HIDE DEF a, good, bad, errors, others, single
  <2> QED BY <1>1, <1>2, <2>1, <2>2
<1>4. b \in Validator
  BY <1>3, ShowErrorsTyped
<1>5. remoteSuccess(s, f, valid, values) = stopRequest(n, f, valid, values)
  BY DEF remoteSuccess
<1> HIDE DEF a, b
<1> DEFINE w == IF old THEN valid ELSE b.previous[f].valid
           previous == [b.previous EXCEPT ![f] = [b.previous[f] EXCEPT !.valid = w]]
           request == [b.request EXCEPT ![f] = None]
<1>6. n = [b EXCEPT !.previous = previous, !.request = request]
  OBVIOUS
<1>7. w \in BOOLEAN
  BY <1>4 DEF Validator
<1> HIDE DEF old, n, w
<1>8. /\ previous \in [Field -> [old : Question, valid : BOOLEAN]]
      /\ request \in [Field -> Question]
  <2>1. None \in Question
    BY DEF None, Question
  <2> QED BY <1>4, <1>7, <2>1 DEF Validator
<1> HIDE DEF previous, request
<1>9. n \in Validator
  BY <1>4, <1>6, <1>8 DEF Validator
<1> QED BY <1>5, <1>9, StopTyped

LEMMA ResetTyped ==
  ASSUME NEW s \in Validator PROVE onReset(s) \in Validator
<1> DEFINE invalid == [f \in Field |-> "absent"]
           previous == [f \in Field |->
             IF f \in DOMAIN settings THEN NeverAsked ELSE s.previous[f]]
           blank == [f \in Field |->
             IF errorClass # DefaultErrorClass /\ s.container[f].message = "text"
               THEN [s.container[f] EXCEPT !.message = "blank"] ELSE s.container[f]]
           reset == [s EXCEPT !.invalid = invalid, !.submitted = {}, !.errorMap = {},
                              !.successList = {}, !.previous = previous,
                              !.container = blank]
           container == [f \in Field |->
             IF reset.container[f].class = "error"
               THEN [reset.container[f] EXCEPT !.class = "valid", !.linked = FALSE]
               ELSE reset.container[f]]
<1>1. reset = resetForm(s)
  BY DEF resetForm
<1>2. /\ invalid \in [Field -> Invalid]
      /\ previous \in [Field -> [old : Question, valid : BOOLEAN]]
  <2>1. NeverAsked \in [old : Question, valid : BOOLEAN]
    BY DEF NeverAsked, None, Question
  <2> QED BY <2>1 DEF Validator, Invalid
<1>3. blank \in [Field -> Container]
  BY DEF Validator, Container
<1> HIDE DEF invalid, previous, blank
<1>4. reset \in Validator
  BY <1>2, <1>3 DEF Validator, Invalid
<1> HIDE DEF reset
<1>5. onReset(s) = [reset EXCEPT !.summary = "valid", !.container = container]
  BY <1>1 DEF onReset
<1>6. container \in [Field -> Container]
  <2>1. reset.container \in [Field -> Container]
    BY <1>4 DEF Validator
  <2> QED BY <2>1 DEF Container
<1> HIDE DEF container
<1> QED BY <1>4, <1>5, <1>6 DEF Validator

(* The types, with what a question is made of.                             *)
Typed == TypeOK /\ Typing(val) /\ RemoteRules(options) /\ RemoteRules(settings)

LEMMA InitTyped == Init => Typed
<1> SUFFICES ASSUME Init PROVE Typed
  OBVIOUS
<1>1. Typing(val) /\ RemoteRules(options) /\ RemoteRules(settings)
  BY FieldAssumption DEF FieldAssumption, Init, Typing, RemoteRules
<1>2. None \in Question /\ NeverAsked \in [old : Question, valid : BOOLEAN]
  BY DEF None, NeverAsked, Question
<1> DEFINE previous == [f \in Field |-> NeverAsked]
           request == [f \in Field |-> None]
           invalid == [f \in Field |-> "absent"]
           container == [f \in Field |->
             [class |-> "valid", message |-> "none", linked |-> FALSE]]
<1>3. /\ previous \in [Field -> [old : Question, valid : BOOLEAN]]
      /\ request \in [Field -> Question]
      /\ invalid \in [Field -> {"absent", "no", "yes"}]
      /\ container \in [Field -> Container]
  BY <1>2 DEF Container
<1>4. v = [errorMap |-> {}, successList |-> {}, invalid |-> invalid, submitted |-> {},
           pending |-> {}, pendingRequest |-> 0, formSubmitted |-> FALSE,
           previous |-> previous, request |-> request, container |-> container,
           summary |-> "valid", sent |-> FALSE]
  BY DEF Init
<1>5. answers \in [Field -> Question]
  BY <1>2 DEF Init
<1> HIDE DEF previous, request, invalid, container
<1>6. v \in Validator
  BY <1>3, <1>4 DEF Validator
<1>7. /\ dom \subseteq Field /\ errorClass \in {DefaultErrorClass, "custom"}
      /\ DOMAIN options \subseteq dom /\ DOMAIN settings \subseteq DOMAIN options
      /\ validator \in BOOLEAN /\ failures \in 0 .. MaxFailures
  <2>1. options = <<>> /\ settings = <<>> /\ DOMAIN <<>> = {}
    BY DEF Init
  <2>2. dom \subseteq Field /\ errorClass \in {DefaultErrorClass, "custom"}
    BY FieldAssumption DEF FieldAssumption, Init
  <2>3. validator \in BOOLEAN
    BY DEF Init
  <2>4. failures \in 0 .. MaxFailures
    BY FieldAssumption DEF FieldAssumption, Init
  <2> QED BY <2>1, <2>2, <2>3, <2>4
<1> QED BY <1>1, <1>5, <1>6, <1>7 DEF Typed, TypeOK, Typing

LEMMA NoteTyped ==
  ASSUME NEW given \in [Field -> Question], Note(given)
  PROVE  answers' \in [Field -> Question]
<1>1. None \in Question
  BY DEF None, Question
<1> QED BY <1>1 DEF Note

LEMMA ParseTyped ==
  ASSUME Typed, NEW S \in SUBSET dom, options' = Parsed(S),
         attachValidation \/ UNCHANGED <<validator, settings>>,
         UNCHANGED <<dom, val, errorClass, v, answers, failures>>
  PROVE  Typed'
<1>1. /\ DOMAIN options' = DOMAIN options \cup S
      /\ \A f \in DOMAIN options' :
           options'[f] = IF f \in S THEN RulesIn[dom][f] ELSE options[f]
  BY DEF Parsed
<1>2. \A f \in S : RemoteRule(RulesIn[dom][f])
  BY RulesInRemote DEF Typed, TypeOK
<1>3. RemoteRules(options')
  BY <1>1, <1>2 DEF Typed, RemoteRules
<1>4. /\ settings' = settings \/ settings' = options'
      /\ validator' \in BOOLEAN
  <2>1. CASE attachValidation
    <3>1. validator' \in BOOLEAN
      BY <2>1 DEF attachValidation
    <3>2. settings' = settings \/ settings' = options'
      BY <2>1 DEF attachValidation
    <3> QED BY <3>1, <3>2
  <2>2. CASE UNCHANGED <<validator, settings>>
    BY <2>2 DEF Typed, TypeOK
  <2> QED BY <2>1, <2>2
<1>5. DOMAIN options' \subseteq dom' /\ DOMAIN settings' \subseteq DOMAIN options'
  BY <1>1, <1>4 DEF Typed, TypeOK
<1>6. RemoteRules(options)' /\ RemoteRules(settings)'
  BY <1>3, <1>4 DEF Typed, RemoteRules
<1>7. Typing(val)'
  BY DEF Typed, Typing
<1>8. TypeOK'
  BY <1>4, <1>5 DEF Typed, TypeOK
<1> QED BY <1>6, <1>7, <1>8 DEF Typed

LEMMA ValidatorTyped ==
  ASSUME Typed, UNCHANGED page, v' \in Validator, answers' \in [Field -> Question],
         Typing(val'), failures' \in 0 .. MaxFailures
  PROVE  Typed'
<1>1. /\ settings' = settings /\ dom' = dom /\ errorClass' = errorClass
      /\ options' = options /\ validator' = validator
  BY DEF page
<1>2. TypeOK'
  BY <1>1 DEF Typed, TypeOK, Typing
<1>3. Typing(val)' /\ RemoteRules(options)' /\ RemoteRules(settings)'
  BY <1>1 DEF Typed, Typing, RemoteRules
<1> QED BY <1>2, <1>3 DEF Typed

LEMMA StepTyped == Typed /\ IInv /\ [Next]_vars => Typed'
<1> SUFFICES ASSUME Typed, Rules, [Next]_vars PROVE Typed'
  BY DEF IInv
<1>1. /\ v \in Validator /\ answers \in [Field -> Question] /\ Typing(val)
      /\ failures \in 0 .. MaxFailures /\ MaxFailures \in Nat
      /\ dom \subseteq Field /\ RemoteRules(settings)
  BY FieldAssumption DEF FieldAssumption, Typed, TypeOK
<1>2. \A values : Typing(values) => Answerable(values)
  BY <1>1, DataIsQuestion
<1>3. ASSUME NEW f \in Field, NEW skipAttach \in BOOLEAN, parseElement(f, skipAttach)
      PROVE  Typed'
  <2>1. /\ {f} \in SUBSET dom /\ options' = Parsed({f})
        /\ attachValidation \/ UNCHANGED <<validator, settings>>
        /\ UNCHANGED <<dom, val, errorClass, v, answers, failures>>
    BY <1>3 DEF parseElement
  <2> QED BY <2>1, ParseTyped
<1>4. ASSUME NEW S, parse(S) PROVE Typed'
  <2>1. /\ S \in SUBSET dom /\ options' = Parsed(S) /\ attachValidation
        /\ UNCHANGED <<dom, val, errorClass, v, answers, failures>>
    BY <1>4 DEF parse
  <2> QED BY <2>1, ParseTyped
<1>5. ASSUME NEW f \in Field, AddField(f) PROVE Typed'
  <2>1. /\ dom' = dom \cup {f}
        /\ UNCHANGED <<val, errorClass, options, validator, settings, v, answers,
                      failures>>
    BY <1>5 DEF AddField
  <2>2. TypeOK'
    BY <1>1, <2>1 DEF Typed, TypeOK
  <2>3. Typing(val)' /\ RemoteRules(options)' /\ RemoteRules(settings)'
    BY <2>1 DEF Typed, Typing, RemoteRules
  <2> QED BY <2>2, <2>3 DEF Typed
<1>6. ASSUME NEW f \in Field, FocusOut(f) PROVE Typed'
  <2>1. v' = element(v, f, val) /\ Note(answers) /\ UNCHANGED page
        /\ val' = val /\ failures' = failures
    BY <1>6 DEF FocusOut
  <2>2. v' \in Validator
    BY <1>1, <1>2, <2>1, ElementTyped
  <2> QED BY <1>1, <2>1, <2>2, NoteTyped, ValidatorTyped
<1>7. ASSUME NEW f \in Field, NEW value \in Value[f], Type(f, value) PROVE Typed'
  <2>1. /\ v' = element(v, f, val') \/ v' = v
        /\ val' = [val EXCEPT ![f] = value]
        /\ Note(answers) /\ UNCHANGED page /\ failures' = failures
    BY <1>7 DEF Type
  <2>2. Typing(val')
    BY <1>1, <2>1 DEF Typing
  <2>3. v' \in Validator
    BY <1>1, <1>2, <2>1, <2>2, ElementTyped
  <2> QED BY <1>1, <2>1, <2>2, <2>3, NoteTyped, ValidatorTyped
<1>8. ASSUME Submit PROVE Typed'
  <2>1. v' = submit(v, val) /\ Note(answers) /\ UNCHANGED page
        /\ val' = val /\ failures' = failures
    BY <1>8 DEF Submit
  <2>2. v' \in Validator
    BY <1>1, <1>2, <2>1, SubmitTyped
  <2> QED BY <1>1, <2>1, <2>2, NoteTyped, ValidatorTyped
<1>9. ASSUME NEW f \in Field, NEW valid \in BOOLEAN, Answer(f, valid) PROVE Typed'
  <2> DEFINE given == [answers EXCEPT ![f] = IF valid THEN v.request[f] ELSE None]
  <2>1. /\ v' = remoteSuccess(v, f, valid, val) /\ Note(given)
        /\ UNCHANGED page /\ val' = val /\ failures' = failures
    BY <1>9 DEF Answer
  <2>2. v' \in Validator
    BY <1>1, <1>2, <2>1, AnswerTyped
  <2>3. given \in [Field -> Question]
    <3>1. v.request[f] \in Question /\ None \in Question
      BY <1>1 DEF Validator, None, Question
    <3> QED BY <1>1, <3>1
  <2> HIDE DEF given
  <2> QED BY <1>1, <2>1, <2>2, <2>3, NoteTyped, ValidatorTyped
<1>10. ASSUME NEW f \in Field, RequestFails(f) PROVE Typed'
  <2>1. /\ v' = [v EXCEPT !.request[f] = None] /\ UNCHANGED page
        /\ val' = val /\ answers' = answers
        /\ failures < MaxFailures /\ failures' = failures + 1
    BY <1>10 DEF RequestFails
  <2> DEFINE request == [v.request EXCEPT ![f] = None]
  <2>2. request \in [Field -> Question]
    <3>1. None \in Question /\ v.request \in [Field -> Question]
      BY <1>1 DEF None, Question, Validator
    <3> QED BY <3>1
  <2>3. v' = [v EXCEPT !.request = request]
    BY <2>1
  <2> HIDE DEF request
  <2>4. v' \in Validator
    BY <1>1, <2>2, <2>3 DEF Validator
  <2>5. failures' \in 0 .. MaxFailures
    BY <1>1, <2>1
  <2> QED BY <1>1, <2>1, <2>4, <2>5, ValidatorTyped
<1>11. ASSUME Reset PROVE Typed'
  <2>1. /\ v' = onReset(v) \/ v' = v
        /\ val' = [f \in Field |-> <<>>]
        /\ Note(answers) /\ UNCHANGED page /\ failures' = failures
    BY <1>11 DEF Reset
  <2>2. v' \in Validator
    BY <1>1, <2>1, ResetTyped
  <2>3. Typing(val')
    BY <2>1, FieldAssumption DEF FieldAssumption, Typing
  <2> QED BY <1>1, <2>1, <2>2, <2>3, NoteTyped, ValidatorTyped
<1>12. ASSUME UNCHANGED vars PROVE Typed'
  <2>1. /\ UNCHANGED page /\ v' = v /\ val' = val /\ answers' = answers
        /\ failures' = failures
    BY <1>12 DEF vars, page
  <2> QED BY <1>1, <2>1, ValidatorTyped
<1> QED
  <2>1. CASE Next
    BY <2>1, <1>3, <1>4, <1>5, <1>6, <1>7, <1>8, <1>9, <1>10, <1>11 DEF Next
  <2> QED BY <2>1, <1>12

(* Whatever the rules of the page and whatever is typed, what is asked of  *)
(* the server is a list of the values of fields the form has, and the      *)
(* validator never has rules for a field that was not parsed               *)
(* (jquery.validate.unobtrusive.js:395-408, jquery.validate.js:1094-1124). *)
THEOREM TypeCorrect == Spec => []TypeOK
<1>1. Typed => TypeOK
  BY DEF Typed
<1>2. Spec => []Typed
  BY InitTyped, StepTyped, IInvHolds, PTL DEF Spec
<1> QED BY <1>1, <1>2, PTL

(* Whatever the order of typing, asking, answering, failing and resetting: *)
(* what leaves the page, but by an exception of a rule without a method,   *)
(* has passed its rules, and the server has approved the very values that  *)
(* are sent (jquery.validate.js:105-110, :1099-1124).                      *)
THEOREM SentIsCheckedHolds == Spec => []SentIsChecked
<1>1. IInv => SentIsChecked
  BY DEF IInv
<1> QED BY <1>1, IInvHolds, PTL

(* What a form shows at a field nothing is due about is what the validator *)
(* holds it for (jquery.validate.unobtrusive.js:52-67, :83-97).            *)
THEOREM ShownIsInvalidHolds == Spec => []ShownIsInvalid
<1>1. IInv => ShownIsInvalid
  BY DEF IInv, Page, Sound, Shown, Agrees, ShownIsInvalid
<1> QED BY <1>1, IInvHolds, PTL

(* An error linked to its container is shown by it                         *)
(* (jquery.validate.unobtrusive.js:84, :116-121).                          *)
THEOREM LinkIsOfAnErrorHolds == Spec => []LinkIsOfAnError
<1>1. IInv => LinkIsOfAnError
  BY DEF IInv, Sound, Base, Linked, LinkedAt, LinkIsOfAnError
<1> QED BY <1>1, IInvHolds, PTL

(* The counter a submit waits for counts the fields an answer is due about *)
(* (jquery.validate.js:1099-1104).                                         *)
THEOREM PendingIsCountedHolds == Spec => []PendingIsCounted
<1>1. IInv => PendingIsCounted
  BY DEF IInv, Sound, Base, Counted, PendingIsCounted
<1> QED BY <1>1, IInvHolds, PTL

(* A form that waits has no rule without a method: the check that follows  *)
(* the answer never throws (jquery.validate.js:777, :796-804, :1110).      *)
THEOREM WaitingIsWholeHolds == Spec => []WaitingIsWhole
<1>1. IInv => WaitingIsWhole
  BY DEF IInv, Waits, Whole, WaitingIsWhole
<1> QED BY <1>1, IInvHolds, PTL
=============================================================================
