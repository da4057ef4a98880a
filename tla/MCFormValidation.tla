--------------------------- MODULE MCFormValidation ---------------------------
(* An instance of FormValidation for TLC: a code that the server checks and    *)
(* that the user repeats in a field a script may add.                         *)
EXTENDS FormValidation, TLC

CONSTANTS code, again, empty, long, fitting, pattern

MCFields == {code, again}
MCValues == code :> {long, fitting} @@ again :> {empty, fitting}
MCDefault == code :> fitting @@ again :> empty

\* The texts are "", "30" and "2": the longer one comes after both bounds of the
\* range below.
MCShape ==
    empty   :> [len |-> 0, nums |-> {}, nonalpha |-> 0, fits |-> {}, before |-> {1, 2}, after |-> {}] @@
    long    :> [len |-> 2, nums |-> {30}, nonalpha |-> 0, fits |-> {"number", "digits"},
                before |-> {}, after |-> {1, 2}] @@
    fitting :> [len |-> 1, nums |-> {2}, nonalpha |-> 0, fits |-> {"number", "digits", pattern},
                before |-> {}, after |-> {1}]

\* A number from 1 to 2, which the HTML attributes keep to one character, and its
\* repetition, of which they only say that it is a number.
MCMarkup ==
    code :> [name |-> <<"Account", "Code">>, checkbox |-> FALSE,
             html  |-> ("maxlength" :> 1),
             attrs |-> (<<"digits">> :> "m") @@ (<<"required">> :> "m")
                    @@ (<<"range">> :> "m") @@ (<<"range", "min">> :> 1) @@ (<<"range", "max">> :> 2)
                    @@ (<<"remote">> :> "m")
                    @@ (<<"remote", "additionalfields">> :> {<<"*", "Code">>, <<"*", "Again">>})] @@
    again :> [name |-> <<"Account", "Again">>, checkbox |-> FALSE,
              html  |-> ("type" :> "number"),
              attrs |-> (<<"required">> :> "m") @@ (<<"equalto">> :> "m") @@ (<<"equalto", "other">> :> <<"*", "Code">>)
                     @@ (<<"password">> :> "m") @@ (<<"password", "min">> :> 1) @@ (<<"password", "regex">> :> pattern)]
MCReplace == code :> "true" @@ again :> "false"

\* The server wants the code repeated.
MCRefuses(f, data) == again \in DOMAIN data.fields /\ data.fields[again] = empty
=============================================================================
