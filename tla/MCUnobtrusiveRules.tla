------------------------- MODULE MCUnobtrusiveRules -------------------------
(* Fields with every combination of these annotations.                     *)
EXTENDS UnobtrusiveRules

(* No field has a rule of the methods this stands for.                     *)
MCAccepts(rule, param, x) == FALSE

(* The annotations a field may have; <<>> stands for none.                 *)
Annotations ==
  [required  : {<<>>, <<[x \in {} |-> <<>>]>>},
   length    : {<<>>, <<[max |-> <<2>>]>>, <<[min |-> <<2>>, max |-> <<2>>]>>},
   minlength : {<<>>, <<[min |-> <<2>>]>>},
   maxlength : {<<>>, <<[max |-> <<1>>]>>},
   regex     : {<<>>, <<[pattern |-> <<<<"a">>, <<"#", "a">>>>]>>},
   equalto   : {<<>>, <<[other |-> <<"*", "Password">>]>>},
   password  : {<<>>, <<[min |-> <<2>>]>>,
                <<[min |-> <<3>>, nonalphamin |-> <<1>>,
                   regex |-> <<<<"#", "#", "a">>>>]>>}]

Attributes(choice) ==
  [a \in {a \in DOMAIN choice : choice[a] # <<>>} |->
     [message |-> a, params |-> choice[a][1]]]

MCElements ==
  {[name |-> <<"Input", "Confirm">>, checkbox |-> box,
    attrs |-> Attributes(choice)] : box \in BOOLEAN, choice \in Annotations}

MCForms == {{<<"Input", "Confirm">>},
            {<<"Input", "Confirm">>, <<"Input", "Password">>}}
MCValues == {<<>>, <<"a">>, <<"#", "a">>, <<"#", "#">>, <<"#", "#", "a">>}
=============================================================================
