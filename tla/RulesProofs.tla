---------------------------- MODULE RulesProofs ----------------------------
(***************************************************************************)
(* For any element ASP.NET may write, with any annotations and parameters, *)
(* and any value: what the rules of the validator say is what the          *)
(* annotations say.                                                        *)
(*                                                                         *)
(* What each annotation becomes is a set of rules of its own (Becomes).    *)
(* Each adapter adds those of its annotation to the rules there are, and   *)
(* a fold over the adapters leaves rules that each come from one of the    *)
(* annotations; no rule is lost unless two annotations become the same.    *)
(***************************************************************************)
EXTENDS UnobtrusiveRules, FiniteSetTheorems, TLAPS

Loop == INSTANCE LeftFold WITH Step <- Offer

LEMMA OfferedIsLoop ==
    ASSUME NEW e, NEW f
    PROVE  Offered(e, f) =
             Loop!Fold([element |-> e, form |-> f, message |-> "", params |-> <<>>,
                        rules |-> <<>>, messages |-> <<>>], adapters)
  BY DEF Offered, FoldLeft, MapThenFoldSet, Max,
     Loop!Fold, Loop!FoldLeft, Loop!MapThenFoldSet, Loop!Max

(* The limits of "length", "minlength" and "maxlength".                    *)
Lengths == {"length", "minlength", "maxlength"}

(* The annotation a becomes the rule r with the parameter x.               *)
Becomes(a, r, x) ==
  LET p == el.attrs[a].params IN
  \/ a = "required" /\ ~ el.checkbox /\ r = "required" /\ x = True
  \/ a \in Lengths /\ Has(el.attrs[a], "min") /\ Has(el.attrs[a], "max")
     /\ r = "rangelength" /\ x = p["min"] \o p["max"]
  \/ a \in Lengths /\ Has(el.attrs[a], "min") /\ ~ Has(el.attrs[a], "max")
     /\ r = "minlength" /\ x = p["min"]
  \/ a \in Lengths /\ ~ Has(el.attrs[a], "min") /\ Has(el.attrs[a], "max")
     /\ r = "maxlength" /\ x = p["max"]
  \/ a = "regex" /\ r = "regex" /\ x = p["pattern"]
  \/ a = "equalto" /\ Sibling \in form /\ r = "equalTo" /\ x = Sibling
  \/ a = "password" /\ Has(el.attrs[a], "min") /\ r = "minlength" /\ x = p["min"]
  \/ a = "password" /\ Has(el.attrs[a], "nonalphamin")
     /\ r = "nonalphamin" /\ x = p["nonalphamin"]
  \/ a = "password" /\ Has(el.attrs[a], "regex") /\ r = "regex" /\ x = p["regex"]

----------------------------------------------------------------------------
(* The adapters of these annotations are the ones the script registers.    *)
AnnotationAdapters ==
  {addSingleVal("regex", "pattern", Undefined),
   addMinMax("length", "minlength", "maxlength", "rangelength", Undefined, Undefined),
   addMinMax("minlength", "minlength", Undefined, Undefined, Undefined, Undefined),
   addMinMax("maxlength", "minlength", "maxlength", Undefined, Undefined, Undefined),
   add("equalto", {"other"}, [kind |-> "equalto"]),
   add("required", {}, [kind |-> "required"]),
   add("password", {"min", "nonalphamin", "regex"}, [kind |-> "password"])}

LEMMA Registered ==
  /\ DOMAIN adapters = 1 .. Len(adapters) /\ Len(adapters) \in Nat
  /\ \A k \in DOMAIN adapters :
       adapters[k].name \in Annotation => adapters[k] \in AnnotationAdapters
  /\ \A a \in Annotation : \E k \in DOMAIN adapters : adapters[k].name = a
  <1> DEFINE n == Len(fileAdapters)
  <1>1. /\ n \in {1, 2} /\ DOMAIN fileAdapters = 1 .. n
        /\ \A k \in 1 .. n : fileAdapters[k].name \notin Annotation
    <2>1. CASE HasExtension
      <3>1. fileAdapters = <<addSingleVal("accept", "mimtype", Undefined),
                             addSingleVal("extension", "extension", Undefined)>>
        BY <2>1 DEF fileAdapters
      <3>2. n = 2 /\ DOMAIN fileAdapters = 1 .. 2
        BY <3>1
      <3>3. fileAdapters[1].name = "accept" /\ fileAdapters[2].name = "extension"
        BY <3>1 DEF addSingleVal, add
      <3>4. \A k \in 1 .. 2 : k = 1 \/ k = 2
        OBVIOUS
      <3> QED BY <3>2, <3>3, <3>4 DEF Annotation
    <2>2. CASE ~ HasExtension
      <3>1. fileAdapters = <<addSingleVal("extension", "extension", "accept")>>
        BY <2>2 DEF fileAdapters
      <3>2. n = 1 /\ DOMAIN fileAdapters = 1 .. 1
        BY <3>1
      <3>3. fileAdapters[1].name = "extension"
        BY <3>1 DEF addSingleVal, add
      <3> QED BY <3>2, <3>3 DEF Annotation
    <2> QED BY <2>1, <2>2
  <1>2. ruleAdapters = [k \in 1 .. 16 |-> ruleAdapters[k]]
    BY DEF ruleAdapters
  <1>3. \A k \in 1 .. 16 : ruleAdapters[k].name \in Annotation => ruleAdapters[k] \in AnnotationAdapters
    <2>1. \A k \in {1, 8, 10, 11, 12, 13, 15} : ruleAdapters[k] \in AnnotationAdapters
      BY DEF AnnotationAdapters, ruleAdapters
    <2>2. /\ ruleAdapters[2].name = "creditcard" /\ ruleAdapters[3].name = "date"
          /\ ruleAdapters[4].name = "digits" /\ ruleAdapters[5].name = "email"
          /\ ruleAdapters[6].name = "number" /\ ruleAdapters[7].name = "url"
          /\ ruleAdapters[9].name = "range" /\ ruleAdapters[14].name = "remote"
          /\ ruleAdapters[16].name = "fileextensions"
      BY DEF ruleAdapters, addBool, addMinMax, add
    <2>3. \A k \in {2, 3, 4, 5, 6, 7, 9, 14, 16} : ruleAdapters[k].name \notin Annotation
      BY <2>2 DEF Annotation
    <2>4. \A k \in 1 .. 16 : k \in {1, 8, 10, 11, 12, 13, 15} \/ k \in {2, 3, 4, 5, 6, 7, 9, 14, 16}
      OBVIOUS
    <2> QED BY <2>1, <2>3, <2>4
  <1>4. /\ ruleAdapters[1].name = "regex" /\ ruleAdapters[8].name = "length"
        /\ ruleAdapters[10].name = "minlength" /\ ruleAdapters[11].name = "maxlength"
        /\ ruleAdapters[12].name = "equalto" /\ ruleAdapters[13].name = "required"
        /\ ruleAdapters[15].name = "password"
    BY DEF ruleAdapters, addSingleVal, addMinMax, add
  <1>5. adapters = fileAdapters \o ruleAdapters
    BY DEF adapters
  <1>6. n \in Nat /\ fileAdapters = [k \in 1 .. n |-> fileAdapters[k]]
    BY <1>1 DEF fileAdapters
  <1> HIDE DEF n
  <1>7. /\ DOMAIN adapters = 1 .. n + 16 /\ Len(adapters) = n + 16
        /\ \A k \in 1 .. n : adapters[k] = fileAdapters[k]
        /\ \A k \in 1 .. 16 : adapters[n + k] = ruleAdapters[k]
    <2>1. Loop!IsList(fileAdapters, n) /\ Loop!IsList(ruleAdapters, 16)
      BY <1>2, <1>6 DEF Loop!IsList
    <2>2. n \in Nat /\ 16 \in Nat
      BY <1>6
    <2>3. Loop!IsJoined(adapters, fileAdapters, n, ruleAdapters, 16)
      BY <1>5, <2>1, <2>2, Loop!Joined, Zenon
    <2> QED BY <2>3, Zenon DEF Loop!IsJoined
  <1>8. ASSUME NEW k \in DOMAIN adapters, adapters[k].name \in Annotation
        PROVE  adapters[k] \in AnnotationAdapters
    <2>1. k \notin 1 .. n
      BY <1>1, <1>7, <1>8
    <2>2. k - n \in 1 .. 16 /\ n + (k - n) = k
      <3>1. k \in 1 .. n + 16
        BY <1>7
      <3> QED BY <1>6, <2>1, <3>1
    <2> QED BY <1>3, <1>7, <1>8, <2>2
  <1>9. \A a \in Annotation : \E k \in 1 .. 16 : ruleAdapters[k].name = a
    <2>1. \A k \in {1, 8, 10, 11, 12, 13, 15} : k \in 1 .. 16
      OBVIOUS
    <2> QED BY <1>4, <2>1 DEF Annotation
  <1>10. \A k \in 1 .. 16 : n + k \in 1 .. n + 16
    BY <1>6
  <1>11. DOMAIN adapters = 1 .. Len(adapters) /\ Len(adapters) \in Nat
    <2>1. DOMAIN adapters = 1 .. n + 16 /\ Len(adapters) = n + 16
      BY <1>7
    <2> QED BY <1>6, <2>1
  <1>12. \A a \in Annotation : \E k \in DOMAIN adapters : adapters[k].name = a
    <2> TAKE a \in Annotation
    <2>1. PICK k \in 1 .. 16 : ruleAdapters[k].name = a
      BY <1>9
    <2>2. n + k \in DOMAIN adapters /\ adapters[n + k] = ruleAdapters[k]
      BY <1>7, <1>10
    <2> QED BY <2>1, <2>2
  <1> QED BY <1>8, <1>11, <1>12

----------------------------------------------------------------------------
(* The options an adapter is given, and the rules they hold.               *)
Given(o) ==
    /\ DOMAIN o = {"element", "form", "message", "params", "rules", "messages"}
    /\ o.element = el /\ o.form = form

Holds(o, r, x) == r \in DOMAIN o.rules /\ o.rules[r] = x

(* z is what an adapter makes of o for the annotation a: the rules a       *)
(* becomes, and what was there before, but for a comparison that is lost.  *)
Adds(a, o, z) ==
    /\ \A r, x : Becomes(a, r, x) => Holds(z, r, x)
    /\ \A r \in DOMAIN z.rules : Becomes(a, r, z.rules[r]) \/ Holds(o, r, z.rules[r])
    /\ \A r \in DOMAIN o.rules :
         \/ Holds(z, r, o.rules[r])
         \/ \E x : Becomes(a, r, x)
         \/ a = "equalto" /\ r = "equalTo"

LEMMA SetValues ==
    ASSUME NEW o, Given(o), NEW r, NEW x
    PROVE  LET z == setValidationValues(o, r, x) IN
           /\ Given(z) /\ z.params = o.params
           /\ Holds(z, r, x)
           /\ \A q \in DOMAIN z.rules : q = r \/ Holds(o, q, z.rules[q])
           /\ \A q \in DOMAIN o.rules : q = r \/ Holds(z, q, o.rules[q])
  <1> DEFINE m == setMessage(o, r)
             z == setValidationValues(o, r, x)
  <1>1. /\ Given(m) /\ m.params = o.params /\ m.rules = o.rules
    BY DEF setMessage, Given
  <1> HIDE DEF m
  <1>2. z = [m EXCEPT !.rules = Put(@, r, x)]
    BY DEF setValidationValues, m
  <1> HIDE DEF z
  <1>3. Given(z) /\ z.params = o.params /\ z.rules = Put(o.rules, r, x)
    BY <1>1, <1>2 DEF Given
  <1> QED BY <1>3 DEF Put, Holds, z

LEMMA SetUndefined ==
    ASSUME NEW o, Given(o), NEW r
    PROVE  LET z == setUndefined(o, r) IN
           /\ Given(z)
           /\ \A q \in DOMAIN z.rules : Holds(o, q, z.rules[q])
           /\ \A q \in DOMAIN o.rules : q = r \/ Holds(z, q, o.rules[q])
  <1> DEFINE m == setMessage(o, r)
             z == setUndefined(o, r)
  <1>1. /\ Given(m) /\ m.rules = o.rules
    BY DEF setMessage, Given
  <1> HIDE DEF m
  <1>2. z = [m EXCEPT !.rules = Restrict(@, DOMAIN @ \ {r})]
    BY DEF setUndefined, m
  <1> HIDE DEF z
  <1>3. Given(z) /\ z.rules = Restrict(o.rules, DOMAIN o.rules \ {r})
    BY <1>1, <1>2 DEF Given
  <1> QED BY <1>3 DEF Restrict, Holds, z

(* What an adapter is given when the element has the annotation.           *)
LEMMA Handed ==
    ASSUME NEW o, Given(o), NEW adapter, adapter.name \in DOMAIN el.attrs
    PROVE  \E q : /\ Given(q) /\ q.rules = o.rules
                  /\ Offer(o, adapter) = Adapt(adapter, q)
                  /\ \A n \in adapter.params :
                       Has(q, n) <=> n \in DOMAIN el.attrs[adapter.name].params
                  /\ \A n \in DOMAIN q.params :
                       q.params[n] = el.attrs[adapter.name].params[n]
  <1> DEFINE attr == el.attrs[adapter.name]
             q == [o EXCEPT !.message = attr.message,
                            !.params = Restrict(attr.params,
                                adapter.params \cap DOMAIN attr.params)]
  <1>1. Offer(o, adapter) = Adapt(adapter, q)
    BY DEF Offer, Given
  <1>2. /\ Given(q) /\ q.rules = o.rules
        /\ q.params = Restrict(attr.params, adapter.params \cap DOMAIN attr.params)
    BY DEF Given
  <1> HIDE DEF q
  <1>3. /\ \A n \in adapter.params : Has(q, n) <=> n \in DOMAIN attr.params
        /\ \A n \in DOMAIN q.params : q.params[n] = attr.params[n]
    BY <1>2 DEF Has, Restrict
  <1> QED BY <1>1, <1>2, <1>3

(* An annotation that becomes one rule, and one that becomes none.         *)
LEMMA OneRule ==
    ASSUME NEW o, NEW q, Given(q), q.rules = o.rules, NEW a, NEW r0, NEW x0,
           \A r, x : Becomes(a, r, x) <=> r = r0 /\ x = x0
    PROVE  /\ Given(setValidationValues(q, r0, x0))
           /\ Adds(a, o, setValidationValues(q, r0, x0))
  <1> DEFINE z == setValidationValues(q, r0, x0)
  <1>1. /\ Given(z) /\ Holds(z, r0, x0)
        /\ \A r \in DOMAIN z.rules : r = r0 \/ Holds(q, r, z.rules[r])
        /\ \A r \in DOMAIN q.rules : r = r0 \/ Holds(z, r, q.rules[r])
    BY SetValues
  <1> HIDE DEF z
  <1>2. Adds(a, o, z)
    BY <1>1 DEF Adds, Holds
  <1> QED BY <1>1, <1>2 DEF z

LEMMA NoRule ==
    ASSUME NEW o, NEW q, q.rules = o.rules, NEW a, \A r, x : ~ Becomes(a, r, x)
    PROVE  Adds(a, o, q)
  BY DEF Adds, Holds

(* One case per adapter.                                                   *)
LEMMA AdapterStep ==
    ASSUME el \in Elements, NEW o, Given(o), NEW adapter \in AnnotationAdapters,
           adapter.name \in DOMAIN el.attrs
    PROVE  /\ Given(Offer(o, adapter))
           /\ Adds(adapter.name, o, Offer(o, adapter))
  <1> DEFINE a == adapter.name
             p == el.attrs[adapter.name].params
             z == Offer(o, adapter)
  <1>1. Written(a, p)
    BY ElementsAssumption
  <1>2. PICK q : /\ Given(q) /\ q.rules = o.rules
                 /\ z = Adapt(adapter, q)
                 /\ \A n \in adapter.params : Has(q, n) <=> n \in DOMAIN p
                 /\ \A n \in DOMAIN q.params : q.params[n] = p[n]
    BY Handed
  <1> HIDE DEF z
  <1>3. CASE adapter = addSingleVal("regex", "pattern", Undefined)
    <2>1. /\ a = "regex" /\ adapter.params = {"pattern"}
          /\ adapter.fn = [kind |-> "single", attribute |-> "pattern", rule |-> "regex"]
      BY <1>3 DEF addSingleVal, add, OrElse, Undefined
    <2>2. Has(q, "pattern") /\ q.params["pattern"] = p["pattern"]
      BY <1>1, <1>2, <2>1 DEF Written, Has
    <2>3. z = setValidationValues(q, "regex", p["pattern"])
      BY <1>2, <2>1, <2>2 DEF Adapt, AdaptSingleVal, AdaptValue
    <2>4. \A r, x : Becomes(a, r, x) <=> r = "regex" /\ x = p["pattern"]
      BY <2>1 DEF Becomes, Lengths
    <2> QED BY <1>2, <2>3, <2>4, OneRule DEF z
  <1>4. ASSUME NEW maxRule, NEW minMaxRule,
               adapter = addMinMax(a, "minlength", maxRule, minMaxRule, Undefined, Undefined),
               a \in Lengths,
               a = "length" => minMaxRule = "rangelength",
               a # "minlength" => maxRule = "maxlength"
        PROVE  Given(z) /\ Adds(a, o, z)
    <2>1. /\ adapter.params = {"min", "max"}
          /\ adapter.fn = [kind |-> "minmax", minRule |-> "minlength",
                           maxRule |-> maxRule, minMaxRule |-> minMaxRule]
      BY <1>4 DEF addMinMax, add, OrElse
    <2>2. /\ Has(q, "min") <=> "min" \in DOMAIN p
          /\ Has(q, "max") <=> "max" \in DOMAIN p
          /\ Has(q, "min") => q.params["min"] = p["min"]
          /\ Has(q, "max") => q.params["max"] = p["max"]
      BY <1>2, <2>1 DEF Has
    <2>3. z = AdaptMinMax(q, adapter.fn)
      BY <1>2, <2>1 DEF Adapt
    <2>4. CASE Has(q, "min") /\ Has(q, "max")
      <3>1. z = setValidationValues(q, "rangelength", p["min"] \o p["max"])
        <4>1. a = "length"
          BY <1>1, <1>4, <2>2, <2>4 DEF Written, Lengths
        <4> QED BY <1>4, <2>1, <2>2, <2>3, <2>4, <4>1 DEF AdaptMinMax
      <3>2. \A r, x : Becomes(a, r, x) <=> r = "rangelength" /\ x = p["min"] \o p["max"]
        BY <1>4, <2>2, <2>4 DEF Becomes, Lengths, Has
      <3> DEFINE x0 == p["min"] \o p["max"]
      <3> HIDE DEF x0, a
      <3>3. \A r, x : Becomes(a, r, x) <=> r = "rangelength" /\ x = x0
        BY <3>2 DEF x0
      <3>4. z = setValidationValues(q, "rangelength", x0)
        BY <3>1 DEF x0
      <3> QED BY <1>2, <3>3, <3>4, OneRule
    <2>5. CASE Has(q, "min") /\ ~ Has(q, "max")
      <3>1. z = setValidationValues(q, "minlength", p["min"])
        BY <2>1, <2>2, <2>3, <2>5 DEF AdaptMinMax
      <3>2. \A r, x : Becomes(a, r, x) <=> r = "minlength" /\ x = p["min"]
        BY <1>4, <2>2, <2>5 DEF Becomes, Lengths, Has
      <3> QED BY <1>2, <3>1, <3>2, OneRule
    <2>6. CASE ~ Has(q, "min") /\ Has(q, "max")
      <3>1. z = setValidationValues(q, "maxlength", p["max"])
        <4>1. a # "minlength"
          BY <1>1, <2>2, <2>6 DEF Written
        <4> QED BY <1>4, <2>1, <2>2, <2>3, <2>6, <4>1 DEF AdaptMinMax
      <3>2. \A r, x : Becomes(a, r, x) <=> r = "maxlength" /\ x = p["max"]
        BY <1>4, <2>2, <2>6 DEF Becomes, Lengths, Has
      <3> QED BY <1>2, <3>1, <3>2, OneRule
    <2>7. CASE ~ Has(q, "min") /\ ~ Has(q, "max")
      <3>1. z = q
        BY <2>3, <2>7 DEF AdaptMinMax
      <3>2. \A r, x : ~ Becomes(a, r, x)
        BY <1>4, <2>2, <2>7 DEF Becomes, Lengths, Has
      <3> QED BY <1>2, <3>1, <3>2, NoRule
    <2> QED BY <2>4, <2>5, <2>6, <2>7
  <1>5. CASE adapter = add("equalto", {"other"}, [kind |-> "equalto"])
    <2>1. /\ a = "equalto" /\ adapter.params = {"other"}
          /\ adapter.fn = [kind |-> "equalto"]
      BY <1>5 DEF add
    <2>2. /\ q.params["other"] = p["other"] /\ Head(p["other"]) = "*"
          /\ q.element = el /\ q.form = form
      BY <1>1, <1>2, <2>1 DEF Written, Has, Given
    <2>3. appendModelPrefix(q.params["other"], getModelPrefix(q.element.name)) = Sibling
      BY <2>1, <2>2 DEF appendModelPrefix, getModelPrefix, Sibling
    <2>4. z = IF Sibling \in form THEN setValidationValues(q, "equalTo", Sibling)
                                  ELSE setUndefined(q, "equalTo")
      BY <1>2, <2>1, <2>2, <2>3 DEF Adapt, AdaptEqualTo
    <2>5. CASE Sibling \in form
      <3>1. \A r, x : Becomes(a, r, x) <=> r = "equalTo" /\ x = Sibling
        BY <2>1, <2>5 DEF Becomes, Lengths
      <3> QED BY <1>2, <2>4, <2>5, <3>1, OneRule DEF z
    <2>6. CASE Sibling \notin form
      <3>1. \A r, x : ~ Becomes(a, r, x)
        BY <2>1, <2>6 DEF Becomes, Lengths
      <3>2. /\ Given(z)
            /\ \A r \in DOMAIN z.rules : Holds(q, r, z.rules[r])
            /\ \A r \in DOMAIN q.rules : r = "equalTo" \/ Holds(z, r, q.rules[r])
        BY <1>2, <2>4, <2>6, SetUndefined
      <3> QED BY <1>2, <2>1, <3>1, <3>2 DEF Adds, Holds, z
    <2> QED BY <2>5, <2>6
  <1>6. CASE adapter = add("required", {}, [kind |-> "required"])
    <2>1. a = "required" /\ adapter.fn = [kind |-> "required"]
      BY <1>6 DEF add
    <2>2. z = IF el.checkbox THEN q ELSE setValidationValues(q, "required", True)
      BY <1>2, <2>1 DEF Adapt, AdaptRequired, Given
    <2>3. CASE el.checkbox
      <3>1. \A r, x : ~ Becomes(a, r, x)
        BY <2>1, <2>3 DEF Becomes, Lengths
      <3> QED BY <1>2, <2>2, <2>3, <3>1, NoRule DEF z
    <2>4. CASE ~ el.checkbox
      <3>1. \A r, x : Becomes(a, r, x) <=> r = "required" /\ x = True
        BY <2>1, <2>4 DEF Becomes, Lengths
      <3> QED BY <1>2, <2>2, <2>4, <3>1, OneRule DEF z
    <2> QED BY <2>3, <2>4
  <1>7. CASE adapter = add("password", {"min", "nonalphamin", "regex"}, [kind |-> "password"])
    <2>1. /\ a = "password" /\ adapter.params = {"min", "nonalphamin", "regex"}
          /\ adapter.fn = [kind |-> "password"]
      BY <1>7 DEF add
    <2> DEFINE q1 == AdaptParam(q, "min", "minlength")
               q2 == AdaptParam(q1, "nonalphamin", "nonalphamin")
    <2>2. z = AdaptParam(q2, "regex", "regex")
      BY <1>2, <2>1 DEF Adapt, AdaptPassword
    <2>3. ASSUME NEW b, Given(b), b.params = q.params, NEW n \in adapter.params, NEW r
          PROVE  LET c == AdaptParam(b, n, r) IN
                 /\ Given(c) /\ c.params = q.params
                 /\ n \in DOMAIN p => Holds(c, r, p[n])
                 /\ \A s \in DOMAIN c.rules :
                      (n \in DOMAIN p /\ s = r) \/ Holds(b, s, c.rules[s])
                 /\ \A s \in DOMAIN b.rules :
                      (n \in DOMAIN p /\ s = r) \/ Holds(c, s, b.rules[s])
      <3>1. /\ Has(b, n) <=> n \in DOMAIN p
            /\ Has(b, n) => b.params[n] = p[n]
        BY <1>2, <2>3 DEF Has
      <3>2. CASE Has(b, n)
        <4>1. AdaptParam(b, n, r) = setValidationValues(b, r, p[n])
          BY <3>1, <3>2 DEF AdaptParam
        <4> QED BY <2>3, <3>1, <3>2, <4>1, SetValues
      <3>3. CASE ~ Has(b, n)
        <4>1. AdaptParam(b, n, r) = b
          BY <3>3 DEF AdaptParam
        <4> QED BY <2>3, <3>1, <3>3, <4>1 DEF Holds
      <3> QED BY <3>2, <3>3
    <2>4. /\ Given(q1) /\ q1.params = q.params
          /\ "min" \in DOMAIN p => Holds(q1, "minlength", p["min"])
          /\ \A s \in DOMAIN q1.rules :
               ("min" \in DOMAIN p /\ s = "minlength") \/ Holds(q, s, q1.rules[s])
          /\ \A s \in DOMAIN q.rules :
               ("min" \in DOMAIN p /\ s = "minlength") \/ Holds(q1, s, q.rules[s])
      BY <1>2, <2>1, <2>3
    <2> HIDE DEF q1
    <2>5. /\ Given(q2) /\ q2.params = q.params
          /\ "nonalphamin" \in DOMAIN p => Holds(q2, "nonalphamin", p["nonalphamin"])
          /\ \A s \in DOMAIN q2.rules :
               ("nonalphamin" \in DOMAIN p /\ s = "nonalphamin") \/ Holds(q1, s, q2.rules[s])
          /\ \A s \in DOMAIN q1.rules :
               ("nonalphamin" \in DOMAIN p /\ s = "nonalphamin") \/ Holds(q2, s, q1.rules[s])
      BY <2>1, <2>3, <2>4
    <2> HIDE DEF q2
    <2>6. /\ Given(z)
          /\ "regex" \in DOMAIN p => Holds(z, "regex", p["regex"])
          /\ \A s \in DOMAIN z.rules :
               ("regex" \in DOMAIN p /\ s = "regex") \/ Holds(q2, s, z.rules[s])
          /\ \A s \in DOMAIN q2.rules :
               ("regex" \in DOMAIN p /\ s = "regex") \/ Holds(z, s, q2.rules[s])
      BY <2>1, <2>2, <2>3, <2>5
    <2>7. \A r, x : Becomes(a, r, x) <=>
            \/ "min" \in DOMAIN p /\ r = "minlength" /\ x = p["min"]
            \/ "nonalphamin" \in DOMAIN p /\ r = "nonalphamin" /\ x = p["nonalphamin"]
            \/ "regex" \in DOMAIN p /\ r = "regex" /\ x = p["regex"]
      BY <2>1 DEF Becomes, Lengths, Has
    <2> HIDE DEF a, p
    <2>8. \A r, x : Becomes(a, r, x) => Holds(z, r, x)
      BY <2>4, <2>5, <2>6, <2>7 DEF Holds
    <2>9. \A r \in DOMAIN z.rules : Becomes(a, r, z.rules[r]) \/ Holds(o, r, z.rules[r])
      BY <1>2, <2>4, <2>5, <2>6, <2>7 DEF Holds
    <2>10. \A r \in DOMAIN o.rules : Holds(z, r, o.rules[r]) \/ \E x : Becomes(a, r, x)
      BY <1>2, <2>4, <2>5, <2>6, <2>7 DEF Holds
    <2> QED BY <2>6, <2>8, <2>9, <2>10 DEF Adds, a, z
  <1>8. /\ adapter = addMinMax("length", "minlength", "maxlength", "rangelength",
                               Undefined, Undefined) => Given(z) /\ Adds(a, o, z)
        /\ adapter = addMinMax("minlength", "minlength", Undefined, Undefined,
                               Undefined, Undefined) => Given(z) /\ Adds(a, o, z)
        /\ adapter = addMinMax("maxlength", "minlength", "maxlength", Undefined,
                               Undefined, Undefined) => Given(z) /\ Adds(a, o, z)
    <2>1. \A n, maxRule, minMaxRule :
            addMinMax(n, "minlength", maxRule, minMaxRule, Undefined, Undefined).name = n
      BY DEF addMinMax, add
    <2> QED BY <1>4, <2>1 DEF Lengths
  <1> QED BY <1>3, <1>5, <1>6, <1>7, <1>8 DEF AnnotationAdapters, z

----------------------------------------------------------------------------
(* Two annotations become the same rule only if they overlap.              *)
LEMMA Disjoint ==
    ASSUME el \in Elements, ~ Overlapping,
           NEW a \in DOMAIN el.attrs, NEW b \in DOMAIN el.attrs,
           NEW r, NEW x, NEW y, Becomes(a, r, x), Becomes(b, r, y)
    PROVE  a = b
  <1>1. \A c \in DOMAIN el.attrs : \A z : Becomes(c, r, z) =>
          \/ r = "required" /\ c = "required"
          \/ r = "rangelength" /\ c = "length"
          \/ r = "minlength" /\ c \in MinLengths
          \/ r = "maxlength" /\ c \in MaxLengths
          \/ r = "regex" /\ c \in Patterns
          \/ r = "equalTo" /\ c = "equalto"
          \/ r = "nonalphamin" /\ c = "password"
    <2> TAKE c \in DOMAIN el.attrs
    <2> TAKE z
    <2>1. Written(c, el.attrs[c].params)
      BY ElementsAssumption
    <2>2. /\ c = "minlength" => ~ Has(el.attrs[c], "max")
          /\ c = "maxlength" => ~ Has(el.attrs[c], "min")
      BY <2>1 DEF Written, Has
    <2> QED BY <2>2 DEF Becomes, Lengths, MinLengths, MaxLengths, Patterns
  <1>2. \A g \in {MinLengths, MaxLengths, Patterns} : a \in g /\ b \in g => a = b
    BY DEF Overlapping
  <1> QED BY <1>1, <1>2

(* The rules of an element come from its annotations, and are all of them  *)
(* if no two overlap.                                                      *)
LEMMA OfferedRules ==
    ASSUME el \in Elements
    PROVE  LET o == Offered(el, form) IN
           /\ \A r \in DOMAIN o.rules :
                \E a \in DOMAIN el.attrs : Becomes(a, r, o.rules[r])
           /\ ~ Overlapping =>
                \A a \in DOMAIN el.attrs : \A r, x : Becomes(a, r, x) => Holds(o, r, x)
  <1> DEFINE blank == [element |-> el, form |-> form, message |-> "", params |-> <<>>,
                       rules |-> <<>>, messages |-> <<>>]
             n == Len(adapters)
  <1>1. n \in Nat /\ DOMAIN adapters = 1 .. n
    BY Registered
  <1> HIDE DEF n
  <1>2. PICK f : Loop!Values(f, blank, adapters, n) /\ Offered(el, form) = f[n]
    BY <1>1, OfferedIsLoop, Loop!FoldValues
  <1> DEFINE Fine(k, o) ==
               /\ Given(o)
               /\ \A r \in DOMAIN o.rules :
                    \E a \in DOMAIN el.attrs : Becomes(a, r, o.rules[r])
               /\ ~ Overlapping =>
                    \A i \in 1 .. k : adapters[i].name \in DOMAIN el.attrs =>
                      \A r, x : Becomes(adapters[i].name, r, x) => Holds(o, r, x)
  <1>3. Fine(0, f[0])
    <2>1. f[0] = blank
      BY <1>2 DEF Loop!Values
    <2>2. Given(blank) /\ blank.rules = <<>>
      BY DEF Given
    <2> HIDE DEF blank
    <2>3. DOMAIN blank.rules = {}
      BY <2>2
    <2>4. 1 .. 0 = {}
      OBVIOUS
    <2> QED BY <2>1, <2>2, <2>3, <2>4
  <1>4. ASSUME NEW k \in Nat, k + 1 \in 1 .. n, Fine(k, f[k]) PROVE Fine(k + 1, f[k + 1])
    <2> DEFINE o == f[k]
               z == f[k + 1]
               adapter == adapters[k + 1]
               b == adapter.name
    <2>1. z = Offer(o, adapter)
      <3>1. (k + 1) - 1 = k
        OBVIOUS
      <3> QED BY <1>2, <1>4, <3>1 DEF Loop!Values
    <2>2. Fine(k, o)
      BY <1>4
    <2>3. CASE b \notin DOMAIN el.attrs
      <3>1. z = o
        BY <2>1, <2>2, <2>3 DEF Offer, Given
      <3>2. \A i \in 1 .. k + 1 : i \in 1 .. k \/ i = k + 1
        OBVIOUS
      <3> HIDE DEF o, z
      <3> QED BY <2>2, <2>3, <3>1, <3>2 DEF o, z
    <2>4. CASE b \in DOMAIN el.attrs
      <3>1. Given(z) /\ Adds(b, o, z)
        <4>1. adapter \in AnnotationAdapters
          BY <1>1, <1>4, <2>4, Registered, ElementsAssumption
        <4> QED BY <2>1, <2>2, <2>4, <4>1, AdapterStep
      <3> HIDE DEF o, z
      <3>2. \A r \in DOMAIN z.rules : \E a \in DOMAIN el.attrs : Becomes(a, r, z.rules[r])
        BY <2>2, <2>4, <3>1 DEF Adds, Holds
      <3>3. ASSUME ~ Overlapping, NEW i \in 1 .. k + 1, adapters[i].name \in DOMAIN el.attrs,
                   NEW r, NEW x, Becomes(adapters[i].name, r, x)
            PROVE  Holds(z, r, x)
        <4>1. CASE adapters[i].name = b
          BY <3>1, <3>3, <4>1 DEF Adds
        <4>2. CASE adapters[i].name # b
          <5>1. i \in 1 .. k
            BY <4>2
          <5>2. Holds(o, r, x)
            BY <2>2, <3>3, <5>1
          <5>3. ~ \E y : Becomes(b, r, y)
            BY <2>4, <3>3, <4>2, Disjoint
          <5>4. ~ (b = "equalto" /\ r = "equalTo")
            <6>1. r = "equalTo" => adapters[i].name = "equalto"
              BY <3>3 DEF Becomes
            <6> QED BY <4>2, <6>1
          <5> QED BY <3>1, <5>2, <5>3, <5>4 DEF Adds, Holds
        <4> QED BY <4>1, <4>2
      <3> QED BY <3>1, <3>2, <3>3 DEF z
    <2> QED BY <2>3, <2>4
  <1> HIDE DEF Fine
  <1>5. Fine(n, f[n])
    <2> DEFINE S == {k \in Nat : k <= n => Fine(k, f[k])}
    <2>1. 0 \in S
      BY <1>3
    <2>2. ASSUME NEW k \in Nat, k \in S PROVE k + 1 \in S
      <3>1. SUFFICES ASSUME k + 1 <= n PROVE Fine(k + 1, f[k + 1])
        OBVIOUS
      <3>2. k <= n /\ k + 1 \in 1 .. n
        BY <1>1, <3>1
      <3> QED BY <1>4, <2>2, <3>2
    <2> HIDE DEF S
    <2>3. n \in S
      BY <1>1, <2>1, <2>2, Loop!Induction
    <2> QED BY <1>1, <2>3 DEF S
  <1>6. \A a \in DOMAIN el.attrs : \E i \in 1 .. n : adapters[i].name = a
    BY <1>1, Registered, ElementsAssumption
  <1> QED BY <1>2, <1>5, <1>6 DEF Fine

----------------------------------------------------------------------------
(* What the methods of the validator say of a value.                       *)
LEMMA LimitIs == ASSUME NEW p, Limit(p) PROVE p \in Seq(Nat) /\ Len(p) = 1 /\ p[1] \in Nat
  <1>1. p \in Seq(Nat) /\ Len(p) = 1
    BY DEF Limit
  <1>2. 1 \in DOMAIN p
    BY <1>1
  <1> QED BY <1>1, <1>2

LEMMA OneLimit ==
    ASSUME value \in Seq(STRING), NEW p, Limit(p)
    PROVE  /\ Len(value) \in Nat /\ p[1] \in Nat
           /\ Passes("minlength", p, value, target) <=> value = <<>> \/ Len(value) >= p[1]
           /\ Passes("maxlength", p, value, target) <=> value = <<>> \/ Len(value) <= p[1]
  <1>1. Len(value) \in Nat /\ p[1] \in Nat
    BY LimitIs
  <1>2. Passes("minlength", p, value, target) <=> value = <<>> \/ Len(value) >= p[1]
    BY DEF Passes, Optional
  <1>3. Passes("maxlength", p, value, target) <=> value = <<>> \/ Len(value) <= p[1]
    BY DEF Passes, Optional
  <1> QED BY <1>1, <1>2, <1>3

LEMMA TwoLimits ==
    ASSUME value \in Seq(STRING), NEW p, Limit(p), NEW q, Limit(q)
    PROVE  Passes("rangelength", p \o q, value, target) <=>
             value = <<>> \/ (Len(value) >= p[1] /\ Len(value) <= q[1])
  <1>1. (p \o q)[1] = p[1] /\ (p \o q)[2] = q[1]
    <2>1. Loop!IsList(p, 1) /\ Loop!IsList(q, 1)
      BY LimitIs DEF Loop!IsList
    <2>2. Loop!IsJoined(p \o q, p, 1, q, 1)
      BY <2>1, Loop!Joined
    <2>3. 1 + 1 = 2 /\ 1 \in 1 .. 1
      OBVIOUS
    <2>4. (p \o q)[1] = p[1] /\ (p \o q)[1 + 1] = q[1]
      BY <2>2, <2>3, Zenon DEF Loop!IsJoined
    <2> QED BY <2>3, <2>4, Zenon
  <1>2. Len(value) \in Nat /\ p[1] \in Nat /\ q[1] \in Nat
    BY LimitIs
  <1>3. Passes("rangelength", p \o q, value, target) <=>
          value = <<>> \/ Len(value) \in p[1] .. q[1]
    BY <1>1 DEF Passes, Optional
  <1> QED BY <1>2, <1>3

LEMMA NonAlphas ==
    ASSUME NEW p, Limit(p), p[1] > 0
    PROVE  Passes("nonalphamin", p, value, target) <=>
             Cardinality({i \in DOMAIN value : value[i] = "#"}) >= p[1]
  <1>1. p[1] \in Nat /\ ~ (0 >= p[1])
    BY LimitIs
  <1>2. Passes("nonalphamin", p, value, target) <=> HasNonAlphas(value, p[1])
    BY DEF Passes
  <1> QED BY <1>1, <1>2, FS_EmptySet DEF HasNonAlphas

(* The least number of a nonempty set of them, as SelectInSeq finds it.    *)
LEMMA LeastIs ==
    ASSUME NEW I \in SUBSET Nat, NEW i \in I, \A j \in I : i <= j PROVE Min(I) = i
  <1>1. \A j \in I : (\A k \in I : j <= k) => j = i
    OBVIOUS
  <1> QED BY <1>1 DEF Min

LEMMA LeastThereIs == ASSUME NEW I \in SUBSET Nat, I # {} PROVE Min(I) \in I
  <1>1. PICK i \in I : \A j \in I : i <= j
    BY Loop!LeastNumber
  <1> QED BY <1>1, LeastIs

(* An expression none of whose alternatives begins another matches the     *)
(* whole of a value exactly if the value is one of them.                   *)
LEMMA WholeMatch ==
    ASSUME value \in Seq(STRING), value # <<>>, NEW x, Expression(x)
    PROVE  MatchesRegex(value, x) <=> value \in Range(x)
  <1> DEFINE Found(a, i) == /\ i + Len(a) - 1 <= Len(value)
                            /\ SubSeq(value, i, i + Len(a) - 1) = a
             positions == [i \in DOMAIN value |-> i]
             I == {i \in 1 .. Len(positions) :
                     \E k \in DOMAIN x : Found(x[k], positions[i])}
             index == IF I # {} THEN Min(I) ELSE 0
             M == {k \in 1 .. Len(x) : Found(x[k], index)}
             match == IF M # {} THEN Min(M) ELSE 0
  <1>1. MatchesRegex(value, x) <=> index = 1 /\ Len(x[match]) = Len(value)
    BY DEF MatchesRegex, SelectInSeq
  <1>2. /\ x \in Seq(Seq(STRING)) /\ \A a, b \in Range(x) : IsPrefix(a, b) => a = b
        /\ \A k \in DOMAIN x : x[k] \in Range(x) /\ x[k] \in Seq(STRING)
        /\ DOMAIN x = 1 .. Len(x) /\ Len(x) \in Nat
        /\ \A a \in Range(x) : \E k \in DOMAIN x : a = x[k]
    BY DEF Expression, Range
  <1>3. /\ Len(value) \in Nat /\ Len(value) >= 1 /\ DOMAIN value = 1 .. Len(value)
        /\ SubSeq(value, 1, Len(value)) = value
    OBVIOUS
  <1>4. \A i \in DOMAIN value : positions[i] = i
    OBVIOUS
  <1>5. Len(positions) = Len(value)
    <2>1. positions \in Seq(Nat) /\ DOMAIN positions = 1 .. Len(value)
      BY <1>3
    <2> HIDE DEF positions
    <2> QED BY <1>3, <2>1
  <1>6. \A a \in Seq(STRING) :
          Found(a, 1) <=> Len(a) <= Len(value) /\ SubSeq(value, 1, Len(a)) = a
    <2> TAKE a \in Seq(STRING)
    <2>1. Len(a) \in Nat /\ 1 + Len(a) - 1 = Len(a)
      OBVIOUS
    <2> QED BY <2>1
  <1> HIDE DEF Found, positions
  <1>7. I \in SUBSET Nat /\ M \in SUBSET Nat
    BY <1>2, <1>3, <1>5
  <1>8. I # {} => index \in I
    BY <1>7, LeastThereIs
  <1>9. M # {} => match \in M
    BY <1>7, LeastThereIs
  <1>10. 1 \in I <=> \E k \in DOMAIN x : Found(x[k], 1)
    BY <1>3, <1>4, <1>5
  <1>11. index = 1 <=> 1 \in I
    <2>1. \A i \in I : 1 <= i
      BY <1>3, <1>5
    <2>2. 1 \in I => Min(I) = 1
      BY <1>7, <2>1, LeastIs
    <2> QED BY <1>8, <2>2
  <1>12. index = 1 => M = {k \in DOMAIN x : Found(x[k], 1)}
    BY <1>2
  <1> HIDE DEF I, index, M, match
  <1>13. ASSUME MatchesRegex(value, x) PROVE value \in Range(x)
    <2>1. match \in M /\ index = 1
      BY <1>1, <1>9, <1>10, <1>11, <1>12, <1>13
    <2>2. match \in DOMAIN x /\ Found(x[match], 1)
      BY <1>12, <2>1
    <2>3. Len(x[match]) = Len(value) /\ SubSeq(value, 1, Len(x[match])) = x[match]
      BY <1>1, <1>2, <1>6, <1>13, <2>2
    <2> QED BY <1>2, <1>3, <2>2, <2>3
  <1>14. ASSUME value \in Range(x) PROVE MatchesRegex(value, x)
    <2>1. PICK k \in DOMAIN x : x[k] = value
      BY <1>2, <1>14
    <2>2. Found(x[k], 1)
      BY <1>2, <1>3, <1>6, <2>1
    <2>3. index = 1 /\ match \in M
      BY <1>9, <1>10, <1>11, <1>12, <2>2
    <2>4. match \in DOMAIN x /\ Found(x[match], 1)
      BY <1>12, <2>3
    <2> DEFINE a == x[match]
    <2>5. a \in Range(x) /\ a \in Seq(STRING)
      BY <1>2, <2>4
    <2> HIDE DEF a
    <2>6. Len(a) <= Len(value) /\ SubSeq(value, 1, Len(a)) = a
      BY <1>6, <2>4, <2>5 DEF a
    <2>7. SubSeq(a, 1, Len(a)) = a
      BY <2>5
    <2>8. a = value
      BY <1>2, <1>14, <2>5, <2>6, <2>7 DEF IsPrefix
    <2> QED BY <1>1, <2>3, <2>8 DEF a
  <1> QED BY <1>13, <1>14

----------------------------------------------------------------------------
(* What an annotation asks is what the rules it becomes ask.               *)
LEMMA Means ==
    ASSUME el \in Elements, value \in Values, NEW a \in DOMAIN el.attrs
    PROVE  /\ Asked(a, el.attrs[a].params) =>
                \A r, x : Becomes(a, r, x) => Passes(r, x, value, target)
           /\ /\ \A r, x : Becomes(a, r, x) => Passes(r, x, value, target)
              /\ a = "equalto" => Sibling \in form
              => Asked(a, el.attrs[a].params)
  <1> DEFINE p == el.attrs[a].params
             Passed == \A r, x : Becomes(a, r, x) => Passes(r, x, value, target)
             long(n) == value = <<>> \/ Len(value) >= n
             short(n) == value = <<>> \/ Len(value) <= n
             alphas == Cardinality({i \in DOMAIN value : value[i] = "#"})
  <1>1. /\ Written(a, p) /\ a \in Annotation /\ value \in Seq(STRING)
    BY ElementsAssumption, ValuesAssumption
  <1>2. \A n \in DOMAIN p \cap {"min", "max", "nonalphamin"} : Limit(p[n])
    BY <1>1 DEF Written
  <1>3. \A n \in DOMAIN p \cap {"min", "max"} :
          /\ Len(value) \in Nat /\ p[n][1] \in Nat
          /\ Passes("minlength", p[n], value, target) <=> long(p[n][1])
          /\ Passes("maxlength", p[n], value, target) <=> short(p[n][1])
    BY <1>1, <1>2, OneLimit
  <1>4. \A n \in DOMAIN p \cap {"pattern", "regex"} :
          Passes("regex", p[n], value, target) <=> value = <<>> \/ value \in Range(p[n])
    <2> TAKE n \in DOMAIN p \cap {"pattern", "regex"}
    <2>1. Expression(p[n])
      BY <1>1 DEF Written
    <2>2. Passes("regex", p[n], value, target) <=> value = <<>> \/ MatchesRegex(value, p[n])
      BY DEF Passes, Optional
    <2> QED BY <1>1, <2>1, <2>2, WholeMatch
  <1>5. CASE a = "required"
    <2>1. \A r, x : Becomes(a, r, x) <=> ~ el.checkbox /\ r = "required" /\ x = True
      BY <1>5 DEF Becomes, Lengths
    <2>2. Passes("required", True, value, target) <=> value # <<>>
      BY DEF Passes
    <2>3. Asked(a, p) <=> el.checkbox \/ value # <<>>
      BY <1>5 DEF Asked
    <2> QED BY <2>1, <2>2, <2>3
  <1>6. CASE a \in Lengths
    <2>1. Asked(a, p) <=> /\ "min" \in DOMAIN p => long(p["min"][1])
                          /\ "max" \in DOMAIN p => short(p["max"][1])
      BY <1>6 DEF Asked, Lengths
    <2>2. CASE "min" \in DOMAIN p /\ "max" \in DOMAIN p
      <3> DEFINE x0 == p["min"] \o p["max"]
      <3>1. \A r, x : Becomes(a, r, x) <=> r = "rangelength" /\ x = x0
        BY <1>6, <2>2 DEF Becomes, Lengths, Has
      <3>2. Passes("rangelength", x0, value, target) <=>
              value = <<>> \/ (Len(value) >= p["min"][1] /\ Len(value) <= p["max"][1])
        BY <1>1, <1>2, <2>2, TwoLimits
      <3> HIDE DEF x0
      <3>3. Passes("rangelength", x0, value, target) <=> Asked(a, p)
        BY <2>1, <2>2, <3>2
      <3> HIDE DEF p
      <3> QED BY <1>6, <3>1, <3>3 DEF p, Lengths
    <2>3. CASE "min" \in DOMAIN p /\ "max" \notin DOMAIN p
      <3>1. \A r, x : Becomes(a, r, x) <=> r = "minlength" /\ x = p["min"]
        BY <1>6, <2>3 DEF Becomes, Lengths, Has
      <3> QED BY <1>3, <2>1, <2>3, <3>1
    <2>4. CASE "min" \notin DOMAIN p /\ "max" \in DOMAIN p
      <3>1. \A r, x : Becomes(a, r, x) <=> r = "maxlength" /\ x = p["max"]
        BY <1>6, <2>4 DEF Becomes, Lengths, Has
      <3> QED BY <1>3, <2>1, <2>4, <3>1
    <2>5. CASE "min" \notin DOMAIN p /\ "max" \notin DOMAIN p
      <3>1. \A r, x : ~ Becomes(a, r, x)
        BY <1>6, <2>5 DEF Becomes, Lengths, Has
      <3> QED BY <2>1, <2>5, <3>1
    <2> QED BY <2>2, <2>3, <2>4, <2>5
  <1>7. CASE a = "regex"
    <2>1. \A r, x : Becomes(a, r, x) <=> r = "regex" /\ x = p["pattern"]
      BY <1>7 DEF Becomes, Lengths
    <2>2. Asked(a, p) <=> value = <<>> \/ value \in Range(p["pattern"])
      BY <1>7 DEF Asked
    <2>3. "pattern" \in DOMAIN p
      BY <1>1, <1>7 DEF Written
    <2> QED BY <1>4, <2>1, <2>2, <2>3
  <1>8. CASE a = "equalto"
    <2>1. \A r, x : Becomes(a, r, x) <=> Sibling \in form /\ r = "equalTo" /\ x = Sibling
      BY <1>8 DEF Becomes, Lengths
    <2>2. Passes("equalTo", Sibling, value, target) <=> value = target
      BY DEF Passes
    <2>3. Asked(a, p) <=> value = target
      BY <1>8 DEF Asked
    <2> QED BY <1>8, <2>1, <2>2, <2>3
  <1>9. CASE a = "password"
    <2>1. \A r, x : Becomes(a, r, x) <=>
            \/ "min" \in DOMAIN p /\ r = "minlength" /\ x = p["min"]
            \/ "nonalphamin" \in DOMAIN p /\ r = "nonalphamin" /\ x = p["nonalphamin"]
            \/ "regex" \in DOMAIN p /\ r = "regex" /\ x = p["regex"]
      BY <1>9 DEF Becomes, Lengths, Has
    <2>2. Asked(a, p) <=>
            /\ "min" \in DOMAIN p => long(p["min"][1])
            /\ "nonalphamin" \in DOMAIN p => alphas >= p["nonalphamin"][1]
            /\ "regex" \in DOMAIN p => value = <<>> \/ value \in Range(p["regex"])
      BY <1>9 DEF Asked
    <2>3. "nonalphamin" \in DOMAIN p =>
            (Passes("nonalphamin", p["nonalphamin"], value, target)
               <=> alphas >= p["nonalphamin"][1])
      BY <1>1, <1>2, NonAlphas DEF Written
    <2> HIDE DEF p, alphas, long
    <2>4. Passed <=>
            /\ "min" \in DOMAIN p => Passes("minlength", p["min"], value, target)
            /\ "nonalphamin" \in DOMAIN p =>
                 Passes("nonalphamin", p["nonalphamin"], value, target)
            /\ "regex" \in DOMAIN p => Passes("regex", p["regex"], value, target)
      BY <2>1
    <2>5. Passed <=> Asked(a, p)
      BY <1>3, <1>4, <2>2, <2>3, <2>4
    <2> QED BY <2>5 DEF p
  <1> QED BY <1>1, <1>5, <1>6, <1>7, <1>8, <1>9 DEF Annotation, Lengths

----------------------------------------------------------------------------
(* The rules are those of the element, and the verdict is theirs.          *)
IInv ==
    /\ TypeOK
    /\ rules = <<>> => verdict = "none"
    /\ rules # <<>> => rules = Adapted(el, form).rules
    /\ verdict = "error" => \E r \in DOMAIN rules : ~ Passes(r, rules[r], value, target)
    /\ verdict = "valid" => \A r \in DOMAIN rules : Passes(r, rules[r], value, target)

(* The rules of an element that has been parsed.                           *)
LEMMA ElementRules ==
    ASSUME rules = Adapted(el, form).rules
    PROVE  /\ "__dummy__" \in DOMAIN rules
           /\ \A r \in DOMAIN rules :
                r = "__dummy__" \/ Holds(Offered(el, form), r, rules[r])
           /\ \A r, x : r # "__dummy__" /\ Holds(Offered(el, form), r, x) =>
                r \in DOMAIN rules /\ rules[r] = x
  BY DEF Adapted, Put, Holds

LEMMA InitIInv == Init => IInv
  BY ValuesAssumption DEF Init, IInv, TypeOK

LEMMA StepIInv == IInv /\ [Next]_vars => IInv'
  <1> SUFFICES ASSUME IInv, [Next]_vars PROVE IInv'
    OBVIOUS
  <1>1. CASE Parse
    <2>1. /\ rules' = Adapted(el, form).rules /\ el' = el /\ form' = form
          /\ value' = value /\ target' = target /\ verdict' = verdict
          /\ verdict = "none"
      BY <1>1 DEF Parse, IInv
    <2>2. TypeOK'
      BY <2>1 DEF IInv, TypeOK
    <2> QED BY <2>1, <2>2 DEF IInv
  <1>2. CASE Check
    <2>1. /\ rules' = rules /\ rules # <<>> /\ el' = el /\ form' = form
          /\ value' \in Values /\ target' \in Values
          /\ verdict' = IF \A r \in DOMAIN rules : Passes(r, rules[r], value', target')
                          THEN "valid" ELSE "error"
      BY <1>2 DEF Check
    <2>2. rules = Adapted(el, form).rules
      BY <2>1 DEF IInv
    <2>3. "__dummy__" \in DOMAIN rules
      BY <2>2, ElementRules
    <2>4. TypeOK'
      BY <2>1, <2>3 DEF IInv, TypeOK
    <2> QED BY <2>1, <2>2, <2>4 DEF IInv
  <1>3. CASE UNCHANGED vars
    BY <1>3 DEF vars, IInv, TypeOK
  <1> QED BY <1>1, <1>2, <1>3 DEF Next

THEOREM Invariance == Spec => []IInv
  BY InitIInv, StepIInv, PTL DEF Spec

(* A verdict is given only once an element has the rule that never fails:  *)
(* the validator has something to check (jquery.validate.unobtrusive.js:   *)
(* 218).                                                                   *)
THEOREM TypeCorrect == Spec => []TypeOK
  <1>1. IInv => TypeOK
    BY DEF IInv
  <1> QED BY <1>1, Invariance, PTL

(* Whatever annotations are combined, whatever their parameters and        *)
(* whatever is typed: a rule that fails is one an annotation asks for.     *)
THEOREM NeverStricterHolds == Spec => []NeverStricter
  <1>1. ASSUME IInv, verdict = "error" PROVE Unmet # {}
    <2>1. PICK r \in DOMAIN rules : ~ Passes(r, rules[r], value, target)
      BY <1>1 DEF IInv
    <2>2. rules = Adapted(el, form).rules /\ el \in Elements /\ value \in Values
      BY <1>1 DEF IInv, TypeOK
    <2>3. r # "__dummy__"
      BY <2>1 DEF Passes
    <2>4. Holds(Offered(el, form), r, rules[r])
      BY <2>2, <2>3, ElementRules
    <2>5. PICK a \in DOMAIN el.attrs : Becomes(a, r, rules[r])
      BY <2>2, <2>4, OfferedRules DEF Holds
    <2>6. ~ Asked(a, el.attrs[a].params)
      BY <2>1, <2>2, <2>5, Means
    <2> QED BY <2>6 DEF Unmet
  <1>2. IInv => NeverStricter
    BY <1>1 DEF NeverStricter
  <1> QED BY <1>2, Invariance, PTL

(* If no two annotations become the same rule, and the field to compare    *)
(* with is there in time, what every rule accepts meets every annotation.  *)
THEOREM ExactUnlessOverlappingHolds == Spec => []ExactUnlessOverlapping
  <1>1. ASSUME IInv, verdict = "valid", ~ Overlapping,
               "equalto" \in DOMAIN el.attrs => Sibling \in form
        PROVE  Unmet = {}
    <2>1. rules = Adapted(el, form).rules /\ el \in Elements /\ value \in Values
      BY <1>1 DEF IInv, TypeOK
    <2>2. ASSUME NEW a \in DOMAIN el.attrs, NEW r, NEW x, Becomes(a, r, x)
          PROVE  Passes(r, x, value, target)
      <3>1. r # "__dummy__"
        BY <2>2 DEF Becomes
      <3>2. Holds(Offered(el, form), r, x)
        BY <1>1, <2>1, <2>2, OfferedRules
      <3>3. r \in DOMAIN rules /\ rules[r] = x
        BY <2>1, <3>1, <3>2, ElementRules
      <3> QED BY <1>1, <3>3 DEF IInv
    <2>3. \A a \in DOMAIN el.attrs : Asked(a, el.attrs[a].params)
      BY <1>1, <2>1, <2>2, Means
    <2> QED BY <2>3 DEF Unmet
  <1>2. IInv => ExactUnlessOverlapping
    BY <1>1 DEF ExactUnlessOverlapping
  <1> QED BY <1>2, Invariance, PTL
=============================================================================
