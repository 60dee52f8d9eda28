---------------------- MODULE MCUnobtrusiveValidation ----------------------
(* A form with an address the server is asked about, to which a second     *)
(* such field or a file is added: the one is part of the question about    *)
(* the address, the other has a rule without a method.                     *)
EXTENDS UnobtrusiveValidation

CONSTANTS Email, Tenant, File

MCName == Email :> <<"Input", "Email">> @@ Tenant :> <<"Input", "Tenant">>
            @@ File :> <<"Input", "File">>

MCValue == Email :> {<<>>, <<"a">>, <<"a", "@">>} @@ Tenant :> {<<>>, <<"a">>}
             @@ File :> {<<>>, <<"x">>}

Required == [message |-> "required", params |-> <<>>]
Remote(fields) ==
  [message |-> "remote", params |-> [url |-> "u", additionalfields |-> fields]]

MCAttributes ==
  Email :> [email |-> [message |-> "email", params |-> <<>>],
            remote |-> Remote(<<<<"*", "Email">>, <<"*", "Tenant">>>>)] @@
  Tenant :> [required |-> Required,
             remote |-> Remote(<<<<"*", "Tenant">>>>)] @@
  File :> [required |-> Required,
           extension |-> [message |-> "extension",
                          params |-> [extension |-> <<"p">>]]]

(* An address has an "@".                                                  *)
MCAccepts(rule, param, value) == rule = "email" /\ "@" \in Range(value)
=============================================================================
