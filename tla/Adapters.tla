------------------------------- MODULE Adapters -------------------------------
(***************************************************************************)
(* What jquery.validate.unobtrusive.js makes of the data-val attributes of *)
(* a form field: parseElement runs the registered adapters over the field, *)
(* each of which turns its attributes into rules of jQuery Validate; how   *)
(* these are merged with the rules that the field's HTML attributes give;  *)
(* and what the rules say of a value.                                      *)
(*                                                                         *)
(* A name is a sequence of segments: Address.City is <<"Address", "City">>. *)
(* The attributes of a field are a function: <<"length">> stands for       *)
(* data-val-length and <<"length", "min">> for data-val-length-min; an     *)
(* absent or empty attribute is not in its domain.                         *)
(* The rules of a field are a sequence, in the order in which they were    *)
(* set: an object of JavaScript keeps that order.  The text of a message   *)
(* is abstracted to the rule it belongs to.                                *)
(***************************************************************************)
EXTENDS Naturals, SequencesExt

CONSTANTS
    Fields,     \* the fields of the form, each with a name of its own
    Markup,     \* each field's name, data-val attributes (attrs) and other HTML
                \* attributes (html), and whether it is a checkbox
    Shape       \* what the rules see of a value: its length (len), the number it
                \* reads as, if any (nums), how many characters are not alphanumeric
                \* (nonalpha), its formats (fits), and the bounds that its text
                \* comes before and after (before, after)

\* The attributes of field f; a parameter that is not there is not in the domain.
Attributes(f) == DOMAIN Markup[f].attrs
Has(f, a, param) == <<a, param>> \in Attributes(f)
Param(f, a, param) == Markup[f].attrs[<<a, param>>]

\* setValidationValues: the rule gets its arguments, and its place when it is new.
\* A parameter that is undefined is an empty sequence of arguments.
SetRule(rs, name, args) ==
    IF \E i \in DOMAIN rs : rs[i].rule = name
    THEN [i \in DOMAIN rs |->
            IF rs[i].rule = name THEN [rule |-> name, args |-> args] ELSE rs[i]]
    ELSE Append(rs, [rule |-> name, args |-> args])

-----------------------------------------------------------------------------

\* The part of a name before the last dot, and a name relative to it: "*.Other"
\* is looked for beside the field, any other name as it is.
ModelPrefix(name) == SubSeq(name, 1, Len(name) - 1)
AppendModelPrefix(name, prefix) ==
    IF name[1] = "*" THEN prefix \o Tail(name) ELSE name

\* The name a parameter of field f refers to, and the fields that have such a
\* name: the selector is escaped so that it matches just this name.
FullName(f, name) == AppendModelPrefix(name, ModelPrefix(Markup[f].name))
Named(names) == {g \in Fields : Markup[g].name \in names}

-----------------------------------------------------------------------------

\* The adapters with one rule (addBool), with one value (addSingleVal), and with
\* a lower and an upper bound (addMinMax).  The bounds are always read from -min
\* and -max; a rule name that was not given is "undefined".
Bool(name) == [kind |-> "bool", name |-> name]
SingleVal(name, attribute, rule) ==
    [kind |-> "single", name |-> name, attribute |-> attribute, rule |-> rule]
MinMax(name, minRule, maxRule, minMaxRule) ==
    [kind |-> "minmax", name |-> name, min |-> minRule, max |-> maxRule, both |-> minMaxRule]
Special(name) == [kind |-> name, name |-> name]

\* The adapters in the order of their registration.  jquery.validate.js, without
\* its additional methods, has no method "extension", so the extension adapter
\* falls back to the rule "accept".
Registered == <<
    SingleVal("extension", "extension", "accept"),
    SingleVal("regex", "pattern", "regex"),
    Bool("creditcard"), Bool("date"), Bool("digits"), Bool("email"), Bool("number"), Bool("url"),
    MinMax("length", "minlength", "maxlength", "rangelength"),
    MinMax("range", "min", "max", "range"),
    MinMax("minlength", "minlength", "undefined", "undefined"),
    MinMax("maxlength", "minlength", "maxlength", "undefined"),
    Special("equalto"), Special("required"), Special("remote"), Special("password"),
    SingleVal("fileextensions", "extensions", "extension") >>

AdaptBool(rs, a) == SetRule(rs, a.name, <<TRUE>>)

AdaptSingleVal(rs, a, f) ==
    SetRule(rs, a.rule,
            IF Has(f, a.name, a.attribute) THEN <<Param(f, a.name, a.attribute)>> ELSE <<>>)

AdaptMinMax(rs, a, f) ==
    LET min == Has(f, a.name, "min")
        max == Has(f, a.name, "max")
    IN  IF min /\ max
        THEN SetRule(rs, a.both, <<Param(f, a.name, "min"), Param(f, a.name, "max")>>)
        ELSE IF min THEN SetRule(rs, a.min, <<Param(f, a.name, "min")>>)
        ELSE IF max THEN SetRule(rs, a.max, <<Param(f, a.name, "max")>>)
        ELSE rs

\* Variant of AdaptEqualTo with a bug: the name is taken as it stands.
AdaptEqualToPlain(rs, f, there) ==
    LET other == Named({Param(f, "equalto", "other")}) \cap there
    IN  SetRule(rs, "equalTo", SetToSeq(other))

\* The other field is looked for when the attributes are parsed; when it is not
\* in the form by then, the parameter is undefined.
AdaptEqualTo(rs, f, there) ==
    LET other == Named({FullName(f, Param(f, "equalto", "other"))}) \cap there
    IN  SetRule(rs, "equalTo", SetToSeq(other))

\* A checkbox is never mandatory.
AdaptRequired(rs, f) ==
    IF Markup[f].checkbox THEN rs ELSE SetRule(rs, "required", <<TRUE>>)

\* The fields that are sent with a remote check: those listed, or else the field
\* itself.
AdaptRemote(rs, f) ==
    SetRule(rs, "remote",
        <<IF Has(f, "remote", "additionalfields")
          THEN Named({FullName(f, name) : name \in Param(f, "remote", "additionalfields")})
          ELSE {f}>>)

\* The bounds of a password, each of them optional.
AdaptPassword(rs, f) ==
    LET set(acc, rule, param) ==
            IF Has(f, "password", param) THEN SetRule(acc, rule, <<Param(f, "password", param)>>)
            ELSE acc
    IN  set(set(set(rs, "minlength", "min"), "nonalphamin", "nonalphamin"), "regex", "regex")

\* The adapter's function.
Adapt(rs, a, f, there) ==
    CASE a.kind = "bool"     -> AdaptBool(rs, a)
      [] a.kind = "single"   -> AdaptSingleVal(rs, a, f)
      [] a.kind = "minmax"   -> AdaptMinMax(rs, a, f)
      [] a.kind = "equalto"  -> AdaptEqualTo(rs, f, there)
      [] a.kind = "required" -> AdaptRequired(rs, f)
      [] a.kind = "remote"   -> AdaptRemote(rs, f)
      [] a.kind = "password" -> AdaptPassword(rs, f)

\* The rules parseElement makes for a field, while the fields there are in
\* the form: the adapters whose attribute is there run one after the other.  A
\* rule whose parameter is undefined gets lost when the validator copies its
\* options.
ParsedRules(f, there) ==
    LET applies(a) == <<a.name>> \in Attributes(f)
        defined(r) == r.args # <<>>
        made == FoldLeft(LAMBDA rs, a : Adapt(rs, a, f, there), <<>>,
                         SelectSeq(Registered, applies))
    IN  SelectSeq(SetRule(made, "__dummy__", <<TRUE>>), defined)

\* The rules of every field, by the fields present when it is parsed.
RulesTable ==
    [p \in {<<f, there>> : f \in Fields, there \in SUBSET Fields} |-> ParsedRules(p[1], p[2])]

\* attributeRules: what an input asks for by its HTML attributes alone.  Its type
\* is a rule when a method has that name, only "date" means the ISO format.
\* Left out: min, max and step, and the classes and data-rule-* attributes that
\* work alike; no form with these scripts has them.
HtmlRules(f) ==
    LET html == Markup[f].html
        stated(m) == m \in DOMAIN html
        typed(m) == "type" \in DOMAIN html /\ html["type"] = m
        made == SelectSeq(<<"required", "email", "url", "date", "number", "minlength", "maxlength">>,
                          LAMBDA m : stated(m) \/ typed(m))
    IN  [i \in DOMAIN made |->
            IF stated(made[i]) THEN [rule |-> made[i], args |-> <<html[made[i]]>>]
            ELSE [rule |-> IF made[i] = "date" THEN "dateISO" ELSE made[i], args |-> <<TRUE>>]]

\* rules(): the rules of the HTML attributes, extended by those parsed; of two
\* rules with one name the parsed one counts.
Merged(f, static) ==
    FoldLeft(LAMBDA rs, r : SetRule(rs, r.rule, r.args), HtmlRules(f), static)

-----------------------------------------------------------------------------

\* The rules that jquery.validate.js and this script have a method for.  A rule
\* without a method, such as "creditcard", makes every check throw.
Methods == {"required", "email", "url", "date", "dateISO", "number", "digits", "minlength",
            "maxlength", "rangelength", "min", "max", "range", "step", "equalTo", "remote",
            "__dummy__", "regex", "nonalphamin"}

\* Whether value v of a field breaks a rule, with these values in the form.  A
\* pattern is a format too: the regex method asks for a match of the whole
\* value.  Formats and bounds let an empty value pass, the others do not.  The
\* arguments of the lengths and of range have been made numbers (normalizeRules);
\* those of min and max are text, and are compared with the value as text.  A
\* value without such characters has no match for nonalphamin, whatever it asks.
Breaks(r, v, values) ==
    LET s == Shape[v] IN
    \/ r.rule = "required" /\ s.len = 0
    \/ r.rule = "equalTo" /\ v # values[r.args[1]]
    \/ r.rule = "nonalphamin" /\ (s.nonalpha = 0 \/ s.nonalpha < r.args[1])
    \/ /\ s.len > 0
       /\ \/ r.rule \in {"email", "url", "date", "dateISO", "number", "digits"} /\ r.rule \notin s.fits
          \/ r.rule = "regex" /\ r.args[1] \notin s.fits
          \/ r.rule = "minlength" /\ s.len < r.args[1]
          \/ r.rule = "maxlength" /\ s.len > r.args[1]
          \/ r.rule = "rangelength" /\ (s.len < r.args[1] \/ s.len > r.args[2])
          \/ r.rule = "min" /\ r.args[1] \in s.before
          \/ r.rule = "max" /\ r.args[1] \in s.after
          \/ r.rule = "range" /\ s.nums \cap (r.args[1]..r.args[2]) = {}

\* The local rules (all but "remote") that value v breaks, and the one of them that
\* is reported: "required" is checked first, the others in their order.
Broken(rs, v, values) == {i \in DOMAIN rs : Breaks(rs[i], v, values)}
FirstBroken(rs, broken) ==
    IF \E i \in broken : rs[i].rule = "required" THEN "required"
    ELSE rs[CHOOSE i \in broken : \A j \in broken : i <= j].rule

=============================================================================
