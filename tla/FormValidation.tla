---------------------------- MODULE FormValidation ----------------------------
(***************************************************************************)
(* A form in the browser under jquery.validate.unobtrusive.js, the script  *)
(* that the sign-in and registration pages include, and the parts of       *)
(* jquery.validate.js it drives: parsing the fields, checking them while   *)
(* the user types and when he submits, showing what is wrong next to the   *)
(* fields and in the summary, the remote check of a field, resetting.      *)
(*                                                                         *)
(* JavaScript runs one event handler at a time, so a handler is one action *)
(* and what it does to the validator and the page, kept together in form,  *)
(* is a function of the state before.  What overlaps is the user's events, *)
(* the scripts that add fields, and the answers to remote checks.          *)
(*                                                                         *)
(* Left out: the classes of the inputs themselves, hidden fields, buttons  *)
(* that cancel validation, and the text of messages (see Adapters).        *)
(***************************************************************************)
EXTENDS Adapters, FiniteSets

CONSTANTS
    Values,         \* what can be in each field
    Default,        \* what is in it when the page is loaded
    Empty,          \* the value of a field that is left empty
    Late,           \* fields that are not in the page as it is loaded
    Replace,        \* data-valmsg-replace of the element that shows a field's message;
                    \* "absent" when there is no such element
    HasSummary,     \* whether the form has a validation summary with a list
    Refuses(_, _),  \* whether the server refuses a field, given the data sent
    NoData          \* nothing sent, nothing remembered

\* What a remote check can send: the field's own value and those of others.
AllValues == UNION {Values[f] : f \in Fields}
Sent == [own : AllValues, fields : UNION {[D -> AllValues \cup {Empty}] : D \in SUBSET Fields}]

\* There are finitely many fields; they have names, values and attributes of
\* their kinds, and some are there from the start.  Whatever fields are there
\* when one is parsed, if it is, its rules are numbered, and each has a method: a
\* check that met another would throw, and the browser would send the form
\* unchecked.
ASSUME MarkupAssumption ==
    /\ IsFiniteSet(Fields)
    /\ Late \subseteq Fields /\ Late # Fields
    /\ Default \in [Fields -> AllValues] /\ \A f \in Fields : Default[f] \in Values[f]
    /\ Shape[Empty].len = 0 /\ \A f \in Fields : \A v \in Values[f] \ {Empty} : Shape[v].len > 0
    /\ \A f, g \in Fields : Markup[f].name = Markup[g].name => f = g
    /\ Replace \in [Fields -> {"true", "false", "absent"}]
    /\ HasSummary \in BOOLEAN
    /\ NoData \notin Sent
    /\ \A f \in Fields :
          \A rs \in {HtmlRules(f)} \cup {Merged(f, RulesTable[<<f, there>>]) : there \in SUBSET Fields} :
             DOMAIN rs \subseteq Nat /\ \A i \in DOMAIN rs : rs[i].rule \in Methods

VARIABLES
    page,           \* "loading" until the document is ready, "open", "sent"
    present,        \* the fields that are in the form
    value,          \* the value of each field
    parsed,         \* options.rules of the form's validationInfo
    attached,       \* whether the form has a validator and a handler for its reset
    ruled,          \* the fields in settings.rules of the validator, its copy of the options
    rules,          \* the rules each field is checked by: those in settings.rules merged
                    \* with those of its HTML attributes, or the latter alone
    form            \* what the validator knows and the page shows

vars == <<page, present, value, parsed, attached, ruled, rules, form>>

NoErrors == [f \in {} |-> ""]
NoAnswer == [old |-> NoData, valid |-> TRUE]

\* The page as the server renders it: a message stands in the span of each
\* field that the server has found wrong, and in the summary.
Rendered(wrong) ==
    [errorMap       |-> NoErrors,   \* the fields the last check found wrong, and why
     submitted      |-> {},         \* fields found wrong at some time since the last reset
     invalid        |-> {},         \* fields the validator keeps an eye on
     previous       |-> [f \in Fields |-> NoAnswer],    \* the last remote check
     requests       |-> [f \in Fields |-> NoData],      \* remote checks in flight
     orphaned       |-> {},         \* fields whose request in flight precedes a reset
     pending        |-> {},         \* fields that wait for a remote check
     pendingRequest |-> 0,
     formSubmitted  |-> FALSE,      \* submit as soon as the answers are there
     span           |-> [f \in Fields |->
                           IF f \in wrong /\ Replace[f] # "absent"
                           THEN [class |-> "error", text |-> "server"]
                           ELSE [class |-> "valid", text |-> "none"]],
     summary        |-> IF HasSummary /\ wrong # {}
                        THEN [class |-> "errors", items |-> [f \in wrong |-> "server"]]
                        ELSE [class |-> "valid", items |-> NoErrors]]

Init ==
    /\ page = "loading"
    /\ present = Fields \ Late
    /\ value = Default
    /\ parsed = NoErrors
    /\ attached = FALSE
    /\ ruled = {} /\ rules = [f \in Fields |-> HtmlRules(f)]
    /\ \E wrong \in SUBSET (Fields \ Late) : form = Rendered(wrong)

-----------------------------------------------------------------------------
(* Showing messages.                                                       *)

\* Variant of OnError with a bug: the text is not replaced.
OnErrorKeepsText(f, span, rule) ==
    IF Replace[f] = "absent" THEN span ELSE [class |-> "error", text |-> span.text]

\* The message of field f is placed; without data-valmsg-replace it is hidden
\* and the text of the span stays.
OnError(f, span, rule) ==
    IF Replace[f] = "absent" THEN span
    ELSE [class |-> "error", text |-> IF Replace[f] = "true" THEN rule ELSE span.text]

\* It is taken away again.
OnSuccess(f, span) ==
    IF Replace[f] = "absent" THEN span
    ELSE [class |-> "valid", text |-> IF Replace[f] = "true" THEN "none" ELSE span.text]

\* Variant of OnErrors with a bug: the list is not emptied first.
OnErrorsAppends(summary, errors) ==
    IF HasSummary /\ errors # NoErrors
    THEN [class |-> "errors",
          items |-> [f \in DOMAIN errors \cup DOMAIN summary.items |->
                        IF f \in DOMAIN errors THEN errors[f] ELSE summary.items[f]]]
    ELSE summary

\* The summary lists the errors of the last check, if there are any.
OnErrors(summary, errors) ==
    IF HasSummary /\ errors # NoErrors THEN [class |-> "errors", items |-> errors]
    ELSE summary

-----------------------------------------------------------------------------
(* Checking fields.                                                        *)

\* What the remote check of field f sends: its own value and those of the
\* fields named in its rule; one that is not in the form is sent as if it were
\* empty.  When the same was sent before, the answer is the remembered one, which
\* is the one before until it arrives.
Remote(f) == {i \in DOMAIN rules[f] : rules[f][i].rule = "remote"}
Data(f) == LET named == {g \in Fields : \E i \in Remote(f) : g \in rules[f][i].args[1]}
           IN  [own    |-> value[f],
                fields |-> [g \in named |-> IF g \in present THEN value[g] ELSE Empty]]

\* Variant of Verdict with a bug: an answer about other data will do.
VerdictAnyAnswer(s, f) ==
    LET broken == Broken(rules[f], value[f], value) IN
    IF broken # {} THEN FirstBroken(rules[f], broken)
    ELSE IF Remote(f) = {} \/ value[f] = Empty THEN "pass"
    ELSE IF s.previous[f].old = NoData THEN "pending"
    ELSE IF s.previous[f].valid THEN "pass" ELSE "remote"

\* The outcome of the check of field f: the rule it breaks, "pass" or "pending".
Verdict(s, f) ==
    LET broken == Broken(rules[f], value[f], value) IN
    IF broken # {} THEN FirstBroken(rules[f], broken)
    ELSE IF Remote(f) = {} \/ value[f] = Empty THEN "pass"
    ELSE IF s.previous[f].old # Data(f) THEN "pending"
    ELSE IF s.previous[f].valid THEN "pass" ELSE "remote"

\* Variant of Ask with a bug: a request in flight is not aborted.
AskAlso(s, asking) ==
    [s EXCEPT
      !.previous  = [f \in Fields |-> IF f \in asking THEN [@[f] EXCEPT !.old = Data(f)] ELSE @[f]],
      !.requests  = [f \in Fields |-> IF f \in asking /\ @[f] = NoData THEN Data(f) ELSE @[f]],
      !.pendingRequest = @ + Cardinality(asking \ s.pending),
      !.pending   = @ \cup asking]

\* The server is asked about some fields: a new request for a field aborts the one
\* in flight, and the field counts once.
Ask(s, asking) ==
    [s EXCEPT
      !.previous  = [f \in Fields |-> IF f \in asking THEN [@[f] EXCEPT !.old = Data(f)] ELSE @[f]],
      !.requests  = [f \in Fields |-> IF f \in asking THEN Data(f) ELSE @[f]],
      !.orphaned  = @ \ asking,
      !.pendingRequest = @ + Cardinality(asking \ s.pending),
      !.pending   = @ \cup asking]

\* The fields fs are checked and the result is shown.  A field that asks the
\* server shows what it showed before.
Check(s, fs) ==
    LET verdict == [f \in fs |-> Verdict(s, f)]
        asking  == {f \in fs : verdict[f] = "pending"}
        passing == {f \in fs : verdict[f] = "pass"}
        errors  == [f \in fs \ (asking \cup passing) |-> verdict[f]]
    IN  [Ask(s, asking) EXCEPT
          !.errorMap  = errors,
          !.submitted = @ \cup DOMAIN errors,
          !.span      = [f \in Fields |->
                            IF f \in DOMAIN errors THEN OnError(f, @[f], errors[f])
                            ELSE IF f \in passing THEN OnSuccess(f, @[f])
                            ELSE @[f]]]

\* The fields a validation of the whole form looks at: those that have rules, by
\* their HTML attributes or because they were parsed in time.
Elements == {f \in present : rules[f] # <<>>}

\* Validator.form: all fields are checked; what is wrong goes to the summary too.
Form(s) ==
    LET c == Check(s, Elements)
    IN  [c EXCEPT !.invalid = DOMAIN c.errorMap, !.summary = OnErrors(@, c.errorMap)]

\* Validator.element: one field is checked.
Element(s, f) == [Check(s, {f} \cap Elements) EXCEPT !.invalid = @ \cup {f}]

Valid(s) == s.errorMap = NoErrors

-----------------------------------------------------------------------------
(* Parsing.                                                                *)

\* attachValidation: the form gets a validator with a copy of the options, unless
\* it has one already, and one handler of its reset event.  The rules of the HTML
\* attributes, which stay as they are, are merged into the copy here.
AttachValidation(options) ==
    /\ attached' = TRUE
    /\ ruled' = IF attached THEN ruled ELSE DOMAIN options
    /\ rules' = IF attached THEN rules
                ELSE [f \in Fields |-> IF f \in DOMAIN options THEN Merged(f, options[f]) ELSE rules[f]]

\* The options after the fields fs were parsed.
Parsed(fs) == [f \in DOMAIN parsed \cup fs |->
                  IF f \in fs THEN RulesTable[<<f, present>>] ELSE parsed[f]]

\* All fields of the form are parsed, and then the form is attached.
ParseAll ==
    /\ parsed' = Parsed(present)
    /\ AttachValidation(Parsed(present))
    /\ UNCHANGED <<present, value, form>>

\* The document is ready: it is parsed.  The user's work with a form that a
\* script has attached before is taken to start here.
Ready ==
    /\ page = "loading"
    /\ page' = "open"
    /\ ParseAll

\* parse, called again by a script.
Parse ==
    /\ page = "open"
    /\ ParseAll
    /\ UNCHANGED page

\* Variant of ParseElement with a bug: a field that is in no form is parsed too.
ParseElementAnywhere(f) ==
    /\ page # "sent"
    /\ parsed' = Parsed({f})
    /\ AttachValidation(Parsed({f}))
    /\ UNCHANGED <<page, present, value, form>>

\* parseElement, called by a script for one field.
ParseElement(f) ==
    /\ page # "sent"
    /\ f \in present
    /\ parsed' = Parsed({f})
    /\ \/ AttachValidation(Parsed({f}))
       \/ UNCHANGED <<attached, ruled, rules>>    \* skipAttach
    /\ UNCHANGED <<page, present, value, form>>

\* A script adds a field to the form, before or after the document is ready.
Insert(f) ==
    /\ page # "sent"
    /\ f \in Late \ present
    /\ present' = present \cup {f}
    /\ UNCHANGED <<page, value, parsed, attached, ruled, rules, form>>

-----------------------------------------------------------------------------
(* The user.                                                               *)

\* The value of a field changes; a key that is released, or the loss of focus,
\* is an event of its own.
Edit(f) ==
    /\ page # "sent"
    /\ f \in present
    /\ \E v \in Values[f] \ {value[f]} : value' = [value EXCEPT ![f] = v]
    /\ UNCHANGED <<page, present, parsed, attached, ruled, rules, form>>

\* A key or a click checks a field that was wrong before, the loss of focus also
\* one that has a value, unless it is a checkbox; a field that must equal another
\* one is checked when the other loses the focus.
Revalidate(f) ==
    /\ page = "open"
    /\ attached
    /\ f \in present
    /\ \/ f \in form.submitted \cup form.invalid
       \/ value[f] # Empty /\ ~Markup[f].checkbox
       \/ \E i \in DOMAIN rules[f] : rules[f][i].rule = "equalTo"
    /\ form' = Element(form, f)
    /\ UNCHANGED <<page, present, value, parsed, attached, ruled, rules>>

\* The form is submitted before it has a validator.
SubmitUnattended ==
    /\ page # "sent"
    /\ ~attached
    /\ page' = "sent"
    /\ UNCHANGED <<present, value, parsed, attached, ruled, rules, form>>

\* The form is submitted: refused when a field is wrong, kept back while the
\* server is asked, and sent otherwise.
Submit ==
    /\ page = "open"
    /\ attached
    /\ \E c \in {Form(form)} :
          \/ ~Valid(c) /\ form' = c /\ UNCHANGED page
          \/ /\ Valid(c) /\ c.pendingRequest > 0
             /\ form' = [c EXCEPT !.formSubmitted = TRUE]
             /\ UNCHANGED page
          \/ /\ Valid(c) /\ c.pendingRequest = 0
             /\ form' = c
             /\ page' = "sent"
    /\ UNCHANGED <<present, value, parsed, attached, ruled, rules>>

\* validate, which a script calls: the form is checked but not sent.
Validate ==
    /\ page = "open"
    /\ attached
    /\ form' = Form(form)
    /\ UNCHANGED <<page, present, value, parsed, attached, ruled, rules>>

\* Variant of OnReset with a bug: the fields keep the class of an error.
OnResetKeepsClass(s) ==
    [s EXCEPT
      !.errorMap = NoErrors, !.submitted = {}, !.invalid = {},
      !.previous = [f \in Fields |-> IF f \in Elements THEN NoAnswer ELSE @[f]],
      !.orphaned = @ \cup {f \in Elements : s.requests[f] # NoData},
      !.summary  = [@ EXCEPT !.class = "valid"]]

\* What onReset does to the validator and the page: the validator forgets its
\* errors, the classes are taken back, the texts and the list stay.  Requests
\* in flight, and the wish to submit when they are answered, stay too.
OnReset(s) ==
    [s EXCEPT
      !.errorMap = NoErrors, !.submitted = {}, !.invalid = {},
      !.previous = [f \in Fields |-> IF f \in Elements THEN NoAnswer ELSE @[f]],
      !.orphaned = @ \cup {f \in Elements : s.requests[f] # NoData},
      !.span     = [f \in Fields |-> [@[f] EXCEPT !.class = "valid"]],
      !.summary  = [@ EXCEPT !.class = "valid"]]

\* The form is reset: the handler, if it is attached, and then the values.
Reset ==
    /\ page # "sent"
    /\ form' = IF attached THEN OnReset(form) ELSE form
    /\ value' = Default
    /\ UNCHANGED <<page, present, parsed, attached, ruled, rules>>

-----------------------------------------------------------------------------
(* Remote checks.                                                          *)

\* Variant of StopRequest with a bug: the field waits on.
StopRequestWaiting(s, f, valid) ==
    [s EXCEPT
      !.requests[f] = NoData,
      !.orphaned = @ \ {f},
      !.previous[f].valid = IF f \in s.orphaned THEN @ ELSE valid,
      !.pendingRequest = IF @ = 0 THEN 0 ELSE @ - 1]

\* The request of field f is over; an answer to a request from before a reset
\* is not remembered.
StopRequest(s, f, valid) ==
    [s EXCEPT
      !.requests[f] = NoData,
      !.orphaned = @ \ {f},
      !.previous[f].valid = IF f \in s.orphaned THEN @ ELSE valid,
      !.pendingRequest = IF @ = 0 THEN 0 ELSE @ - 1,
      !.pending = @ \ {f}]

\* The server refuses: the field is wrong, and a submission that waited is off.
AnswerRefused(f) ==
    LET errors == [g \in DOMAIN form.errorMap \cup {f} |->
                      IF g = f THEN "remote" ELSE form.errorMap[g]]
        s == [StopRequest(form, f, FALSE) EXCEPT
                !.errorMap = errors,
                !.invalid = @ \cup {f},
                !.span[f] = OnError(f, @, "remote")]
        off == s.pendingRequest = 0 /\ s.formSubmitted
    IN
    /\ page = "open"
    /\ form.requests[f] # NoData /\ Refuses(f, form.requests[f])
    /\ form' = IF off THEN [s EXCEPT !.summary = OnErrors(@, errors), !.formSubmitted = FALSE]
               ELSE s
    /\ UNCHANGED <<page, present, value, parsed, attached, ruled, rules>>

\* The validator once the server has accepted field f: its list of errors is
\* empty, whatever else was wrong.
Accepted(f) ==
    [StopRequest(form, f, TRUE) EXCEPT
      !.errorMap = NoErrors,
      !.invalid = @ \cup {f},
      !.span[f] = OnSuccess(f, @)]

\* The answer is awaited by a submission, and it is the last one.
Resumes(s) == s.pendingRequest = 0 /\ s.formSubmitted

\* The server accepts.
AnswerAccepted(f) ==
    /\ page = "open"
    /\ form.requests[f] # NoData /\ ~Refuses(f, form.requests[f])
    /\ ~Resumes(Accepted(f))
    /\ form' = Accepted(f)
    /\ UNCHANGED <<page, present, value, parsed, attached, ruled, rules>>

\* The server accepts, and the submission that waited is taken up: the form is
\* checked again, and sent if nothing is wrong and no new request was needed.
\* Otherwise the wish to submit stays.
AnswerResumes(f) ==
    /\ page = "open"
    /\ form.requests[f] # NoData /\ ~Refuses(f, form.requests[f])
    /\ Resumes(Accepted(f))
    /\ \E c \in {Form(Accepted(f))} :
          IF Valid(c) /\ c.pendingRequest = 0
          THEN form' = [c EXCEPT !.formSubmitted = FALSE] /\ page' = "sent"
          ELSE form' = c /\ UNCHANGED page
    /\ UNCHANGED <<present, value, parsed, attached, ruled, rules>>

\* The request fails; nobody handles that, so the field waits on.
RequestFails(f) ==
    /\ page = "open"
    /\ form.requests[f] # NoData
    /\ form' = [form EXCEPT !.requests[f] = NoData, !.orphaned = @ \ {f}]
    /\ UNCHANGED <<page, present, value, parsed, attached, ruled, rules>>

\* The server answers the form with the page again.
Load ==
    /\ page = "sent"
    /\ page' = "loading"
    /\ present' = Fields \ Late
    /\ value' = Default
    /\ parsed' = NoErrors
    /\ attached' = FALSE
    /\ ruled' = {} /\ rules' = [f \in Fields |-> HtmlRules(f)]
    /\ \E wrong \in SUBSET (Fields \ Late) : form' = Rendered(wrong)

Next ==
    \/ Ready \/ Parse \/ Validate \/ Reset \/ Load
    \/ SubmitUnattended \/ Submit
    \/ \E f \in Fields :
          \/ ParseElement(f) \/ Insert(f) \/ Edit(f) \/ Revalidate(f)
          \/ AnswerRefused(f) \/ AnswerAccepted(f) \/ AnswerResumes(f) \/ RequestFails(f)

Spec == Init /\ [][Next]_vars

-----------------------------------------------------------------------------

Texts == Methods \cup {"none", "server"}

\* Every variable holds a value of its kind; the validator has rules of the adapters
\* only for fields that were parsed, and those are in the form.
TypeOK ==
    /\ page \in {"loading", "open", "sent"}
    /\ present \subseteq Fields
    /\ \A f \in Fields : value[f] \in Values[f]
    /\ ruled \subseteq DOMAIN parsed /\ DOMAIN parsed \subseteq present
    /\ attached \in BOOLEAN
    /\ DOMAIN form.errorMap \subseteq Fields
    /\ form.submitted \subseteq Fields /\ form.invalid \subseteq Fields
    /\ form.pending \subseteq Fields /\ form.orphaned \subseteq Fields
    /\ form.pendingRequest \in Nat
    /\ form.formSubmitted \in BOOLEAN
    /\ form.span \in [Fields -> [class : {"valid", "error"}, text : Texts]]
    /\ form.summary.class \in {"valid", "errors"}

\* What the HTML attributes of field f ask of a value.
HtmlFits(f, v) ==
    LET html == Markup[f].html
        s == Shape[v]
    IN
    /\ "required" \in DOMAIN html => v # Empty
    /\ v # Empty =>
          /\ "type" \in DOMAIN html =>
                /\ html["type"] \in {"email", "url", "number"} => html["type"] \in s.fits
                /\ html["type"] = "date" => "dateISO" \in s.fits
          /\ "minlength" \in DOMAIN html => s.len >= html["minlength"]
          /\ "maxlength" \in DOMAIN html => s.len <= html["maxlength"]

\* What the attributes of field f ask of its value, the server's word aside,
\* with these values in the form, when no two attributes set the same bound.  The
\* bounds of a range are numbers, also when there is only one of them.
Fits(f, values) ==
    LET v == values[f]
        s == Shape[v]
    IN
    /\ HtmlFits(f, v)
    /\ <<"required">> \in Attributes(f) /\ ~Markup[f].checkbox => v # Empty
    /\ <<"equalto">> \in Attributes(f) =>
          \A g \in Named({FullName(f, Param(f, "equalto", "other"))}) : v = values[g]
    /\ Has(f, "password", "nonalphamin") => s.nonalpha >= Param(f, "password", "nonalphamin")
    /\ v # Empty =>
          /\ \A format \in {"date", "digits", "email", "number", "url"} :
                <<format>> \in Attributes(f) => format \in s.fits
          /\ <<"regex">> \in Attributes(f) => Param(f, "regex", "pattern") \in s.fits
          /\ Has(f, "password", "regex") => Param(f, "password", "regex") \in s.fits
          /\ \A a \in {"length", "minlength", "maxlength", "password"} :
                /\ Has(f, a, "min") => s.len >= Param(f, a, "min")
                /\ Has(f, a, "max") /\ a # "password" => s.len <= Param(f, a, "max")
          /\ Has(f, "range", "min") => \E n \in s.nums : n >= Param(f, "range", "min")
          /\ Has(f, "range", "max") => \E n \in s.nums : n <= Param(f, "range", "max")

\* What the values in the form may be.
Entries == {values \in [Fields -> AllValues] : \A f \in Fields : values[f] \in Values[f]}

\* The rules rs are an exact translation of the attributes of field f: they are
\* kept by the values that fit, and by no others, and one of them asks the server
\* when the attributes say so.
Exact(f, rs) ==
    /\ \A values \in Entries : Broken(rs, values[f], values) = {} <=> Fits(f, values)
    /\ (\E i \in DOMAIN rs : rs[i].rule = "remote") <=> <<"remote">> \in Attributes(f)

\* The same of a field that was not parsed in time and its HTML attributes.
HtmlExact(f, rs) ==
    /\ \A values \in Entries : Broken(rs, values[f], values) = {} <=> HtmlFits(f, values[f])
    /\ \A i \in DOMAIN rs : rs[i].rule # "remote"

\* Every field is translated exactly, whichever of the fields added later are
\* there when it is parsed.  This is not so of every markup: a range with one
\* bound is compared as text (jquery.validate.js 1347-1357, 1496-1503), and a
\* nonalphamin of 0 asks for one such character all the same
\* (jquery.validate.unobtrusive.js 353-360).
AdaptersExact ==
    \A f \in Fields :
        /\ HtmlExact(f, HtmlRules(f))
        /\ \A there \in SUBSET Fields :
              {f} \cup (Fields \ Late) \subseteq there => Exact(f, Merged(f, RulesTable[<<f, there>>]))

\* When two-sided ranges are all the ranges there are: the rules the validator works
\* with, which it copied from the options once, which were made when some fields
\* were not there yet, and which override those of the HTML attributes, ask of
\* every field what its attributes ask, and of a field that was not parsed in time
\* what its HTML attributes ask (jquery.validate.unobtrusive.js 362-428,
\* jquery.validate.js 192-218).
RulesExact ==
    \A f \in Fields : IF f \in ruled THEN Exact(f, rules[f]) ELSE HtmlExact(f, rules[f])

\* The value of a field is what the attributes that the validator knows ask for:
\* those of HTML always, the others if the field was parsed before the validator
\* took its rules.  The server's word is included.
Right(f) ==
    /\ HtmlFits(f, value[f])
    /\ f \in ruled =>
          /\ Fits(f, value)
          /\ <<"remote">> \in Attributes(f) /\ value[f] # Empty => ~Refuses(f, Data(f))

\* The form leaves the page through its validator only when every field it
\* checks is what its attributes ask for, as it is now: no answer about an older
\* value, of the field or of those sent with it, lets a wrong one through
\* (jquery.validate.js 106-114, 1124-1149, 1580-1582).
SentIsRight ==
    [][page = "open" /\ attached /\ page' = "sent" => \A f \in Elements : Right(f)]_vars

\* The validator counts the fields that wait for the server exactly, however
\* requests overlap, are aborted, fail or outlive a reset; the guard "make sure
\* pendingRequest is never < 0" (jquery.validate.js 1127) is never needed.
PendingCounted ==
    /\ form.pendingRequest = Cardinality(form.pending)
    /\ {f \in Fields : form.requests[f] # NoData} \subseteq form.pending

\* What the validator holds for wrong is what the page shows: the span of each
\* such field has the class of an error and, unless it keeps its own text, that
\* message (onError, onSuccess, onReset).
ErrorsShown ==
    \A f \in DOMAIN form.errorMap :
        Replace[f] # "absent" =>
            /\ form.span[f].class = "error"
            /\ Replace[f] = "true" => form.span[f].text = form.errorMap[f]

\* The states in which a step may check the whole form: a submission or a script
\* checks it as it is, the last answer to a submission that waits after that.
Checked == {form} \cup {Accepted(f) : f \in {g \in Fields : /\ form.requests[g] # NoData
                                                          /\ ~Refuses(g, form.requests[g])
                                                          /\ Resumes(Accepted(g))}}

\* A form that is refused says why.  When all of it was checked, be it by a
\* submission or by the answer that a submission has waited for: of the fields that
\* do not wait for the server exactly the wrong ones show an error, and the summary
\* lists what is wrong now, not what the server or an earlier attempt found
\* (onErrors, onError).  When the server's answer calls a submission off, the fields
\* are not looked at again: then the summary lists that answer and what the last
\* checks found, each with its message at its field, but a field may have been put
\* right since (jquery.validate.js 1133-1148).
RefusalExplained ==
    [][page = "open" /\ attached /\ ~Valid(form') =>
        /\ (\E s \in Checked : form' = Form(s)) =>
              /\ \A f \in Elements \ form'.pending :
                    Replace[f] # "absent" => (form'.span[f].class = "error" <=> ~Right(f))
              /\ HasSummary => /\ form'.summary.class = "errors"
                               /\ form'.summary.items = form'.errorMap
                               /\ \A f \in DOMAIN form'.errorMap \ form'.pending : ~Right(f)
        /\ form.formSubmitted /\ ~form'.formSubmitted =>
              \E f \in Fields :
                 /\ form.requests[f] # NoData /\ Refuses(f, form.requests[f])
                 /\ form'.errorMap[f] = "remote"
                 /\ HasSummary => /\ form'.summary.class = "errors"
                                  /\ form'.summary.items = form'.errorMap
                 /\ \A g \in DOMAIN form'.errorMap : Replace[g] # "absent" =>
                       /\ form'.span[g].class = "error"
                       /\ Replace[g] = "true" => form'.span[g].text = form'.errorMap[g]]_vars

\* A field whose span shows an error of the validator is one the validator
\* will look at again with the next key, or waits for the server: no error
\* sticks to a field that the user has put right (onkeyup, onfocusout).
ErrorsRechecked ==
    \A f \in Fields :
        form.span[f].class = "error" /\ form.span[f].text \in Methods =>
            f \in form.submitted \cup form.invalid \cup form.pending

\* The answer that is remembered for a field is the server's word on the very
\* data it is remembered with, whatever overtook what: a check of the same data
\* may rely on it (jquery.validate.js 1580-1618).
AnswersFit ==
    \A f \in Fields :
        f \notin form.pending /\ form.previous[f].old # NoData =>
            form.previous[f].valid = ~Refuses(f, form.previous[f].old)

=============================================================================
