------------------------- MODULE FormValidationProofs -------------------------
(***************************************************************************)
(* Theorems about FormValidation, for every form: any fields, values and   *)
(* attributes whose rules have methods, and any server.  What the adapters *)
(* make of the attributes is a fold over the list of adapters, so that it  *)
(* is exact (AdaptersExact) is a hypothesis where it is needed.  It leaves *)
(* out the forms for which the scripts are wrong: a range with one bound,  *)
(* which they compare as text, and a nonalphamin of 0.                     *)
(***************************************************************************)
EXTENDS FormValidation, FiniteSetTheorems, WellFoundedInduction, TLAPS

-----------------------------------------------------------------------------
(* The inductive invariant.                                                 *)

ErrorMaps == UNION {[D -> Texts] : D \in SUBSET Fields}
Answers   == [old : Sent \cup {NoData}, valid : BOOLEAN]
Spans     == [class : {"valid", "error"}, text : Texts]
Summaries == [class : {"valid", "errors"}, items : ErrorMaps]

\* What form can be.
Forms ==
    [errorMap       : ErrorMaps,
     submitted      : SUBSET Fields,
     invalid        : SUBSET Fields,
     previous       : [Fields -> Answers],
     requests       : [Fields -> Sent \cup {NoData}],
     orphaned       : SUBSET Fields,
     pending        : SUBSET Fields,
     pendingRequest : Nat,
     formSubmitted  : BOOLEAN,
     span           : [Fields -> Spans],
     summary        : Summaries]

\* The rules were made by the adapters, with at least the fields there that the
\* page was loaded with.
FromTable(options) ==
    \A f \in DOMAIN options : \E there \in SUBSET Fields :
        {f} \cup (Fields \ Late) \subseteq there /\ options[f] = RulesTable[<<f, there>>]

\* The rules in force were made from HTML attributes, merged for the fields copied
\* with what the adapters had made.
Translated(copied, made) ==
    /\ DOMAIN made = Fields
    /\ \A f \in copied : \E there \in SUBSET Fields :
          /\ {f} \cup (Fields \ Late) \subseteq there
          /\ made[f] = Merged(f, RulesTable[<<f, there>>])
    /\ \A f \in Fields \ copied : made[f] = HtmlRules(f)

\* The page around the form; an unattached form has no rules of the adapters.
PageInv ==
    /\ page \in {"loading", "open", "sent"}
    /\ present \subseteq Fields /\ Fields \ Late \subseteq present
    /\ value \in [Fields -> AllValues] /\ \A f \in Fields : value[f] \in Values[f]
    /\ ruled \subseteq DOMAIN parsed /\ DOMAIN parsed \subseteq present
    /\ attached \in BOOLEAN
    /\ ~attached => ruled = {}
    /\ FromTable(parsed) /\ Translated(ruled, rules)

\* The fields a validator has looked at, if there is one.
Watched == IF attached THEN Elements ELSE {}

\* PendingCounted, of form s; only fields with rules, which are in E, are asked about.
Counted(s, E) ==
    /\ s.pendingRequest = Cardinality(s.pending)
    /\ \A f \in Fields : s.requests[f] # NoData => f \in s.pending /\ f \in E

\* AnswersFit, of form s.  While a request is in flight, what it sends is what is
\* remembered, unless a reset has come in between, which forgets all.
AnswersKept(s) ==
    \A f \in Fields :
        /\ f \in s.orphaned => s.previous[f].old = NoData
        /\ s.requests[f] # NoData /\ f \notin s.orphaned => s.requests[f] = s.previous[f].old
        /\ f \notin s.pending /\ s.previous[f].old # NoData =>
              s.previous[f].valid = ~Refuses(f, s.previous[f].old)

\* ErrorsShown, of form s; a message that is not in the page is not an error.
Shown(s) ==
    /\ \A f \in DOMAIN s.errorMap :
          Replace[f] # "absent" =>
              /\ s.span[f].class = "error"
              /\ Replace[f] = "true" => s.span[f].text = s.errorMap[f]
    /\ \A f \in Fields : Replace[f] = "absent" => s.span[f].class = "valid"

\* ErrorsRechecked, of form s; only fields with rules get an error of the validator.
Rechecked(s, E) ==
    \A f \in Fields :
        s.span[f].class = "error" /\ s.span[f].text \in Methods =>
            f \in E /\ f \in s.submitted \cup s.invalid \cup s.pending

FormInv(s, E) ==
    s \in Forms /\ Counted(s, E) /\ AnswersKept(s) /\ Shown(s) /\ Rechecked(s, E)

IInv == PageInv /\ FormInv(form, Watched)

-----------------------------------------------------------------------------
(* Rules, verdicts and what is sent.                                        *)

\* A set of numbers that is not empty has a least element.
LEMMA LeastExists ==
    ASSUME NEW S \in SUBSET Nat, S # {}
    PROVE  \E i \in S : \A j \in S : i <= j
<1>1. IsWellFoundedOn({ss \in Nat \X Nat : ss[1] < ss[2]}, Nat)
  BY NatLessThanWellFounded DEF OpToRel
<1>2. PICK R : R = {ss \in Nat \X Nat : ss[1] < ss[2]}
  OBVIOUS
<1>3. IsWellFoundedOn(R, Nat) /\ S \subseteq Nat
  BY <1>1, <1>2
<1>4. \E i \in S : \A j \in S : ~ (<<j, i>> \in R)
  BY <1>3, WFMin, Zenon
<1>5. PICK i \in S : \A j \in S : ~ (<<j, i>> \in R)
  BY <1>4
<1>6. \A j \in S : ~(j < i)
  BY <1>2, <1>5
<1> QED  BY <1>5, <1>6

\* The rules in force for a field are numbered and have methods.
LEMMA RulesMade ==
    ASSUME PageInv, NEW f \in Fields
    PROVE  /\ DOMAIN rules[f] \subseteq Nat
           /\ \A i \in DOMAIN rules[f] : rules[f][i].rule \in Methods
<1>1. rules[f] \in {HtmlRules(f)} \cup {Merged(f, RulesTable[<<f, there>>]) : there \in SUBSET Fields}
  BY DEF PageInv, Translated
<1> QED  BY <1>1, MarkupAssumption

\* A rule that is reported as broken has a method.
LEMMA FirstBrokenIsMethod ==
    ASSUME PageInv, NEW f \in Fields, NEW broken \in SUBSET (DOMAIN rules[f]),
           broken # {}
    PROVE  FirstBroken(rules[f], broken) \in Methods
<1>1. CASE \E i \in broken : rules[f][i].rule = "required"
  BY <1>1 DEF FirstBroken, Methods
<1>2. CASE ~\E i \in broken : rules[f][i].rule = "required"
  <2>1. \E i \in broken : \A j \in broken : i <= j
    BY RulesMade, LeastExists
  <2>2. (CHOOSE i \in broken : \A j \in broken : i <= j) \in broken
    BY <2>1
  <2> QED  BY <1>2, <2>2, RulesMade DEF FirstBroken
<1> QED  BY <1>1, <1>2

\* The outcome of a check is an error, a pass or a question to the server.
LEMMA VerdictType ==
    ASSUME PageInv, NEW s, NEW f \in Fields
    PROVE  Verdict(s, f) \in Methods \cup {"pass", "pending"}
<1> DEFINE broken == Broken(rules[f], value[f], value)
<1>1. broken \subseteq DOMAIN rules[f]
  BY DEF Broken
<1>2. CASE broken # {}
  <2>1. Verdict(s, f) = FirstBroken(rules[f], broken)
    BY <1>2 DEF Verdict
  <2> HIDE DEF broken
  <2> QED  BY <1>1, <1>2, <2>1, FirstBrokenIsMethod
<1>3. CASE broken = {}
  <2>1. Verdict(s, f) \in {"pass", "pending", "remote"}
    BY <1>3 DEF Verdict
  <2> QED  BY <2>1 DEF Methods
<1> QED  BY <1>2, <1>3

\* A pass and a question are not errors.
LEMMA Outcomes == "pass" \notin Methods /\ "pending" \notin Methods
BY DEF Methods

\* What is sent about a field.
LEMMA DataType ==
    ASSUME PageInv, NEW f \in Fields
    PROVE  Data(f) \in Sent /\ Data(f) # NoData
<1> DEFINE D == {g \in Fields : \E i \in Remote(f) : g \in rules[f][i].args[1]}
<1>1. D \in SUBSET Fields /\ value \in [Fields -> AllValues]
  BY DEF PageInv
<1>2. Data(f) = [own    |-> value[f],
                 fields |-> [g \in D |-> IF g \in present THEN value[g] ELSE Empty]]
  BY DEF Data
<1> HIDE DEF D
<1>3. [g \in D |-> IF g \in present THEN value[g] ELSE Empty] \in [D -> AllValues \cup {Empty}]
  BY <1>1
<1>4. Data(f) \in Sent
  BY <1>1, <1>2, <1>3 DEF Sent
<1> QED  BY <1>4, MarkupAssumption

-----------------------------------------------------------------------------
(* A check of some fields.                                                  *)

\* The fields of fs by the outcome of their check, as Check has them.
Asking(s, fs)  == {f \in fs : Verdict(s, f) = "pending"}
Passing(s, fs) == {f \in fs : Verdict(s, f) = "pass"}
Wrong(s, fs)   == fs \ (Asking(s, fs) \cup Passing(s, fs))
Errors(s, fs)  == [f \in Wrong(s, fs) |-> Verdict(s, f)]

\* What form c has from form s by a check of fs; invalid, summary and the wish
\* to submit are left open.
CheckedTo(s, fs, c) ==
    /\ c \in Forms
    /\ c.errorMap = Errors(s, fs)
    /\ c.submitted = s.submitted \cup Wrong(s, fs)
    /\ c.previous = [f \in Fields |-> IF f \in Asking(s, fs)
                                      THEN [s.previous[f] EXCEPT !.old = Data(f)]
                                      ELSE s.previous[f]]
    /\ c.requests = [f \in Fields |-> IF f \in Asking(s, fs) THEN Data(f) ELSE s.requests[f]]
    /\ c.orphaned = s.orphaned \ Asking(s, fs)
    /\ c.pendingRequest = s.pendingRequest + Cardinality(Asking(s, fs) \ s.pending)
    /\ c.pending = s.pending \cup Asking(s, fs)
    /\ c.span = [f \in Fields |->
                    IF f \in Wrong(s, fs) THEN OnError(f, s.span[f], Verdict(s, f))
                    ELSE IF f \in Passing(s, fs) THEN OnSuccess(f, s.span[f])
                    ELSE s.span[f]]

\* A verdict that makes a field wrong is the name of a rule's method.
LEMMA WrongType ==
    ASSUME PageInv, NEW s, NEW fs \in SUBSET Elements, NEW f \in Wrong(s, fs)
    PROVE  f \in Fields /\ Verdict(s, f) \in Methods
<1>1. f \in Fields
  BY DEF Wrong, Elements, PageInv
<1> QED  BY <1>1, VerdictType DEF Wrong, Asking, Passing

\* The errors of a check, and the spans after it, are of their kinds.
LEMMA ErrorsType ==
    ASSUME PageInv, NEW s, NEW fs \in SUBSET Elements
    PROVE  Errors(s, fs) \in ErrorMaps
<1>1. Wrong(s, fs) \in SUBSET Fields /\ \A f \in Wrong(s, fs) : Verdict(s, f) \in Texts
  BY WrongType DEF Texts
<1>2. Errors(s, fs) \in [Wrong(s, fs) -> Texts]
  BY <1>1 DEF Errors
<1> QED  BY <1>1, <1>2 DEF ErrorMaps

\* A message that is placed or taken away leaves a span.
LEMMA MessageType ==
    ASSUME NEW f \in Fields, NEW span \in Spans, NEW rule \in Texts
    PROVE  OnError(f, span, rule) \in Spans /\ OnSuccess(f, span) \in Spans
BY MarkupAssumption DEF OnError, OnSuccess, Spans, Texts

\* The components of form after Check.
LEMMA CheckResult ==
    ASSUME PageInv, NEW s \in Forms, NEW fs \in SUBSET Elements, NEW c, c = Check(s, fs)
    PROVE  /\ CheckedTo(s, fs, c)
           /\ c.invalid = s.invalid
           /\ c.summary = s.summary
           /\ c.formSubmitted = s.formSubmitted
<1> DEFINE verdict == [f \in fs |-> Verdict(s, f)]
           asking  == {f \in fs : verdict[f] = "pending"}
           passing == {f \in fs : verdict[f] = "pass"}
           errors  == [f \in fs \ (asking \cup passing) |-> verdict[f]]
<1>1. asking = Asking(s, fs) /\ passing = Passing(s, fs)
  BY DEF Asking, Passing
<1>2. errors = Errors(s, fs) /\ DOMAIN errors = Wrong(s, fs)
  BY <1>1 DEF Errors, Wrong
<1>3. c = [Ask(s, asking) EXCEPT
             !.errorMap  = errors,
             !.submitted = @ \cup DOMAIN errors,
             !.span      = [f \in Fields |->
                               IF f \in DOMAIN errors THEN OnError(f, @[f], errors[f])
                               ELSE IF f \in passing THEN OnSuccess(f, @[f])
                               ELSE @[f]]]
  BY Zenon DEF Check
<1> HIDE DEF asking, passing, errors, verdict
<1>4. PICK a : a = Asking(s, fs)
  OBVIOUS
<1>5. a \in SUBSET Fields /\ IsFiniteSet(a \ s.pending)
  <2>1. a \in SUBSET Fields
    BY <1>4 DEF Asking, Elements, PageInv
  <2> QED  BY <2>1, MarkupAssumption, FS_Subset
<1>6. PICK w : w = Wrong(s, fs)
  OBVIOUS
<1>7. w \in SUBSET Fields
  BY <1>6, WrongType
<1>8. Cardinality(a \ s.pending) \in Nat
  BY <1>5, FS_CardinalityType
<1> DEFINE previous == [f \in Fields |-> IF f \in a THEN [s.previous[f] EXCEPT !.old = Data(f)]
                                         ELSE s.previous[f]]
           requests == [f \in Fields |-> IF f \in a THEN Data(f) ELSE s.requests[f]]
           span == [f \in Fields |->
                       IF f \in w THEN OnError(f, s.span[f], Verdict(s, f))
                       ELSE IF f \in Passing(s, fs) THEN OnSuccess(f, s.span[f])
                       ELSE s.span[f]]
<1>9. previous \in [Fields -> Answers]
  BY <1>5, DataType DEF Forms, Answers
<1>10. requests \in [Fields -> Sent \cup {NoData}]
  BY <1>5, DataType DEF Forms
<1>11. span \in [Fields -> Spans]
  <2>1. s.span \in [Fields -> Spans]
    BY DEF Forms
  <2>2. \A f \in Fields : f \in w => Verdict(s, f) \in Texts
    BY <1>6, WrongType DEF Texts
  <2>3. "none" \in Texts
    BY DEF Texts
  <2>4. ASSUME NEW f \in Fields
        PROVE  span[f] \in Spans
    BY <2>1, <2>2, <2>3, MessageType
  <2> QED  BY <2>4
<1>12. \A f \in w : errors[f] = Verdict(s, f)
  BY <1>2, <1>6 DEF Errors
<1>13. PICK ask : ask = Ask(s, a)
  OBVIOUS
<1>14. ask = [s EXCEPT !.previous = previous, !.requests = requests, !.orphaned = @ \ a,
                      !.pendingRequest = @ + Cardinality(a \ s.pending),
                      !.pending = @ \cup a]
  BY <1>13 DEF Ask
<1>15. c = [ask EXCEPT !.errorMap = errors, !.submitted = @ \cup w, !.span = span]
  <2>1. ask.span = s.span
    BY <1>14 DEF Forms
  <2>2. span = [f \in Fields |->
                  IF f \in w THEN OnError(f, ask.span[f], errors[f])
                  ELSE IF f \in Passing(s, fs) THEN OnSuccess(f, ask.span[f])
                  ELSE ask.span[f]]
    BY <1>12, <2>1
  <2>3. ask = Ask(s, asking) /\ DOMAIN errors = w
    BY <1>1, <1>2, <1>4, <1>6, <1>13
  <2> QED  BY <1>1, <1>3, <2>2, <2>3
<1> HIDE DEF previous, requests, span
<1>16. errors \in ErrorMaps
  BY <1>2, ErrorsType
<1>17. ask \in Forms
  <2>1. /\ s.orphaned \ a \in SUBSET Fields /\ s.pending \cup a \in SUBSET Fields
        /\ s.pendingRequest + Cardinality(a \ s.pending) \in Nat
    BY <1>5, <1>8 DEF Forms
  <2>2. PICK o, n, q : /\ o = s.orphaned \ a /\ q = s.pending \cup a
                       /\ n = s.pendingRequest + Cardinality(a \ s.pending)
    OBVIOUS
  <2>3. ask = [s EXCEPT !.previous = previous, !.requests = requests, !.orphaned = o,
                        !.pendingRequest = n, !.pending = q]
    BY <1>14, <2>2
  <2> QED  BY <1>9, <1>10, <2>1, <2>2, <2>3 DEF Forms
<1>18. c \in Forms
  BY ZenonT(40), <1>7, <1>11, <1>15, <1>16, <1>17 DEF Forms
<1>19. /\ c.errorMap = errors /\ c.submitted = s.submitted \cup w
       /\ c.previous = previous /\ c.requests = requests /\ c.orphaned = s.orphaned \ a
       /\ c.pendingRequest = s.pendingRequest + Cardinality(a \ s.pending)
       /\ c.pending = s.pending \cup a
       /\ c.span = span
       /\ c.invalid = s.invalid /\ c.summary = s.summary /\ c.formSubmitted = s.formSubmitted
  BY <1>14, <1>15, <1>17 DEF Forms
<1> QED  BY <1>2, <1>4, <1>6, <1>18, <1>19 DEF CheckedTo, previous, requests, span

\* What OnError and OnSuccess make of the class and the text of a span.
LEMMA MessageShown ==
    ASSUME NEW f \in Fields, NEW span \in Spans, NEW rule \in Texts
    PROVE  /\ Replace[f] = "absent" => OnError(f, span, rule) = span /\ OnSuccess(f, span) = span
           /\ Replace[f] # "absent" => /\ OnError(f, span, rule).class = "error"
                                       /\ OnSuccess(f, span).class = "valid"
           /\ Replace[f] = "true" => OnError(f, span, rule).text = rule
BY MarkupAssumption DEF OnError, OnSuccess, Spans

\* A field that is asked about is counted once.
LEMMA CheckKeepsCounted ==
    ASSUME PageInv, NEW s, FormInv(s, Elements), NEW fs \in SUBSET Elements, NEW c,
           CheckedTo(s, fs, c)
    PROVE  Counted(c, Elements)
<1> DEFINE a == Asking(s, fs)
<1>1. a \subseteq Elements /\ a \subseteq Fields
  BY DEF Asking, Elements, PageInv
<1>2. s.pending \subseteq Fields /\ s.pendingRequest = Cardinality(s.pending)
  BY DEF FormInv, Forms, Counted
<1>3. IsFiniteSet(s.pending) /\ IsFiniteSet(a \ s.pending)
  BY <1>1, <1>2, MarkupAssumption, FS_Subset
<1> HIDE DEF a
<1>4. Cardinality(s.pending \cup a) = Cardinality(s.pending) + Cardinality(a \ s.pending)
  <2>1. s.pending \cup a = s.pending \cup (a \ s.pending) /\ s.pending \cap (a \ s.pending) = {}
    OBVIOUS
  <2>2. Cardinality(s.pending \cup (a \ s.pending))
           = Cardinality(s.pending) + Cardinality(a \ s.pending) - Cardinality({})
    BY <1>3, <2>1, FS_Union
  <2>3. Cardinality({}) = 0 /\ Cardinality(s.pending) \in Nat /\ Cardinality(a \ s.pending) \in Nat
    BY <1>3, FS_EmptySet, FS_CardinalityType
  <2>4. Cardinality(s.pending \cup a) = Cardinality(s.pending \cup (a \ s.pending))
    BY <2>1
  <2>5. PICK m, n : m = Cardinality(s.pending) /\ n = Cardinality(a \ s.pending)
    OBVIOUS
  <2>6. m + n - 0 = m + n
    BY <2>3, <2>5
  <2> QED  BY <2>2, <2>3, <2>4, <2>5, <2>6, Zenon
<1>5. c.pendingRequest = Cardinality(c.pending)
  BY <1>2, <1>4 DEF CheckedTo, a
<1>6. ASSUME NEW f \in Fields, c.requests[f] # NoData
      PROVE  f \in c.pending /\ f \in Elements
  <2>1. CASE f \in a
    BY <1>1, <2>1 DEF CheckedTo, a
  <2>2. CASE f \notin a
    BY <1>6, <2>2 DEF CheckedTo, a, FormInv, Counted
  <2> QED  BY <2>1, <2>2
<1> QED  BY <1>5, <1>6 DEF Counted

\* What is remembered about a field is replaced together with its request.
LEMMA CheckKeepsAnswers ==
    ASSUME PageInv, NEW s, FormInv(s, Elements), NEW fs \in SUBSET Elements, NEW c,
           CheckedTo(s, fs, c)
    PROVE  AnswersKept(c)
<1> SUFFICES ASSUME NEW f \in Fields
             PROVE  /\ f \in c.orphaned => c.previous[f].old = NoData
                    /\ c.requests[f] # NoData /\ f \notin c.orphaned =>
                          c.requests[f] = c.previous[f].old
                    /\ f \notin c.pending /\ c.previous[f].old # NoData =>
                          c.previous[f].valid = ~Refuses(f, c.previous[f].old)
  BY DEF AnswersKept
<1>1. CASE f \in Asking(s, fs)
  <2>1. s.previous[f] \in Answers
    BY DEF FormInv, Forms
  <2>2. c.requests[f] = Data(f) /\ c.previous[f].old = Data(f)
    BY <1>1, <2>1 DEF CheckedTo, Answers
  <2> QED  BY <1>1, <2>2 DEF CheckedTo
<1>2. CASE f \notin Asking(s, fs)
  <2>1. c.requests[f] = s.requests[f] /\ c.previous[f] = s.previous[f]
    BY <1>2 DEF CheckedTo
  <2>2. /\ f \in c.orphaned <=> f \in s.orphaned
        /\ f \in c.pending <=> f \in s.pending
    BY <1>2 DEF CheckedTo
  <2> QED  BY <2>1, <2>2 DEF FormInv, AnswersKept
<1> QED  BY <1>1, <1>2

\* The span of each field after a check.
LEMMA CheckSpan ==
    ASSUME PageInv, NEW s, FormInv(s, Elements), NEW fs \in SUBSET Elements, NEW c,
           CheckedTo(s, fs, c), NEW f \in Fields
    PROVE  /\ Replace[f] = "absent" => c.span[f] = s.span[f]
           /\ f \in Wrong(s, fs) /\ Replace[f] # "absent" => c.span[f].class = "error"
           /\ f \in Wrong(s, fs) /\ Replace[f] = "true" => c.span[f].text = Verdict(s, f)
           /\ f \in Passing(s, fs) /\ Replace[f] # "absent" => c.span[f].class = "valid"
           /\ f \notin Wrong(s, fs) \cup Passing(s, fs) => c.span[f] = s.span[f]
<1>1. s.span[f] \in Spans
  BY DEF FormInv, Forms
<1>2. CASE f \in Wrong(s, fs)
  <2>1. Verdict(s, f) \in Texts /\ f \notin Passing(s, fs)
    BY <1>2, WrongType DEF Wrong, Texts
  <2>2. c.span[f] = OnError(f, s.span[f], Verdict(s, f))
    BY <1>2 DEF CheckedTo
  <2> QED  BY <1>1, <1>2, <2>1, <2>2, MessageShown
<1>3. CASE f \notin Wrong(s, fs) /\ f \in Passing(s, fs)
  <2>1. c.span[f] = OnSuccess(f, s.span[f])
    BY <1>3 DEF CheckedTo
  <2>2. "none" \in Texts
    BY DEF Texts
  <2> QED  BY <1>1, <1>3, <2>1, <2>2, MessageShown
<1>4. CASE f \notin Wrong(s, fs) /\ f \notin Passing(s, fs)
  BY <1>4 DEF CheckedTo
<1> QED  BY <1>2, <1>3, <1>4

\* The spans show the errors of this check, and no others are held for wrong.
LEMMA CheckKeepsShown ==
    ASSUME PageInv, NEW s, FormInv(s, Elements), NEW fs \in SUBSET Elements, NEW c,
           CheckedTo(s, fs, c)
    PROVE  Shown(c)
<1>1. ASSUME NEW f \in DOMAIN c.errorMap, Replace[f] # "absent"
      PROVE  /\ c.span[f].class = "error"
             /\ Replace[f] = "true" => c.span[f].text = c.errorMap[f]
  <2>1. f \in Wrong(s, fs) /\ c.errorMap[f] = Verdict(s, f)
    BY DEF CheckedTo, Errors
  <2>2. f \in Fields
    BY <2>1, WrongType
  <2> QED  BY <1>1, <2>1, <2>2, CheckSpan
<1>2. ASSUME NEW f \in Fields, Replace[f] = "absent"
      PROVE  c.span[f].class = "valid"
  <2>1. c.span[f] = s.span[f]
    BY <1>2, CheckSpan
  <2> QED  BY <1>2, <2>1 DEF FormInv, Shown
<1> QED  BY <1>1, <1>2 DEF Shown

\* The validator keeps an eye on the fields it does not check now.
LEMMA CheckKeepsRechecked ==
    ASSUME PageInv, NEW s, FormInv(s, Elements), NEW fs \in SUBSET Elements, NEW c,
           CheckedTo(s, fs, c), (s.invalid \cap Elements) \ fs \subseteq c.invalid
    PROVE  Rechecked(c, Elements)
<1> SUFFICES ASSUME NEW f \in Fields, c.span[f].class = "error", c.span[f].text \in Methods
             PROVE  f \in Elements /\ f \in c.submitted \cup c.invalid \cup c.pending
  BY DEF Rechecked
<1>1. CASE f \in Wrong(s, fs)
  BY <1>1 DEF CheckedTo, Wrong
<1>2. CASE f \in Passing(s, fs)
  <2>1. Replace[f] = "absent"
    BY <1>2, CheckSpan
  <2>2. c.span[f] = s.span[f]
    BY <2>1, CheckSpan
  <2> QED  BY <2>1, <2>2 DEF FormInv, Shown
<1>3. CASE f \notin Wrong(s, fs) \cup Passing(s, fs)
  <2>1. c.span[f] = s.span[f]
    BY <1>3, CheckSpan
  <2>2. f \in Elements /\ f \in s.submitted \cup s.invalid \cup s.pending
    BY <2>1 DEF FormInv, Rechecked
  <2>3. f \in fs => f \in Asking(s, fs)
    BY <1>3 DEF Wrong
  <2> QED  BY <2>2, <2>3 DEF CheckedTo
<1> QED  BY <1>1, <1>2, <1>3

\* Together.
LEMMA CheckKeeps ==
    ASSUME PageInv, NEW s, FormInv(s, Elements), NEW fs \in SUBSET Elements, NEW c,
           CheckedTo(s, fs, c), (s.invalid \cap Elements) \ fs \subseteq c.invalid
    PROVE  FormInv(c, Elements)
BY CheckKeepsCounted, CheckKeepsAnswers, CheckKeepsShown, CheckKeepsRechecked DEF FormInv, CheckedTo

-----------------------------------------------------------------------------
(* Validator.form and Validator.element.                                    *)

\* The summary after a check.
LEMMA SummaryType ==
    ASSUME NEW summary \in Summaries, NEW errors \in ErrorMaps
    PROVE  OnErrors(summary, errors) \in Summaries
BY DEF OnErrors, Summaries

\* The forms c and d differ only in what a check leaves open.
SameCheck(c, d) ==
    /\ d \in Forms
    /\ d.errorMap = c.errorMap /\ d.submitted = c.submitted
    /\ d.previous = c.previous /\ d.requests = c.requests /\ d.orphaned = c.orphaned
    /\ d.pendingRequest = c.pendingRequest /\ d.pending = c.pending /\ d.span = c.span

\* It may be anything.
LEMMA CheckedExcept ==
    ASSUME NEW s, NEW fs, NEW c, NEW d, CheckedTo(s, fs, c), SameCheck(c, d)
    PROVE  CheckedTo(s, fs, d)
BY DEF CheckedTo, SameCheck

\* The components of form after Form.
LEMMA FormResult ==
    ASSUME PageInv, NEW s \in Forms, NEW c, c = Form(s)
    PROVE  /\ CheckedTo(s, Elements, c)
           /\ c.invalid = Wrong(s, Elements)
           /\ c.summary = OnErrors(s.summary, c.errorMap)
           /\ c.formSubmitted = s.formSubmitted
<1>1. PICK d : d = Check(s, Elements)
  OBVIOUS
<1>2. CheckedTo(s, Elements, d) /\ d.summary = s.summary /\ d.formSubmitted = s.formSubmitted
  BY <1>1, CheckResult
<1>3. DOMAIN d.errorMap = Wrong(s, Elements) /\ d.errorMap \in ErrorMaps
  BY <1>2, ErrorsType DEF CheckedTo, Errors
<1>4. Wrong(s, Elements) \in SUBSET Fields
  BY WrongType
<1>5. PICK i, m, w : /\ i = Wrong(s, Elements) /\ m = OnErrors(s.summary, d.errorMap)
                     /\ w = s.formSubmitted
  OBVIOUS
<1>6. m \in Summaries /\ w \in BOOLEAN
  BY <1>3, <1>5, SummaryType DEF Forms
<1>7. c = [d EXCEPT !.invalid = i, !.summary = m, !.formSubmitted = w]
  <2>1. c = [d EXCEPT !.invalid = i, !.summary = m]
    BY <1>1, <1>2, <1>3, <1>5 DEF Form
  <2>2. d \in Forms /\ d.formSubmitted = w
    BY <1>2, <1>5 DEF CheckedTo
  <2> QED  BY <2>1, <2>2 DEF Forms
<1>8. SameCheck(d, c) /\ c.invalid = i /\ c.summary = m /\ c.formSubmitted = w
  <2>1. d \in Forms /\ i \in SUBSET Fields
    BY <1>2, <1>4, <1>5 DEF CheckedTo
  <2> QED  BY <1>6, <1>7, <2>1 DEF Forms, SameCheck
<1>9. CheckedTo(s, Elements, c)
  BY <1>2, <1>8, CheckedExcept
<1>10. c.errorMap = d.errorMap
  BY <1>8 DEF SameCheck
<1> QED  BY <1>5, <1>8, <1>9, <1>10

\* A check of the whole form keeps the invariant, whether it is submitted or not.
LEMMA FormKeeps ==
    ASSUME PageInv, NEW s, FormInv(s, Elements), NEW w \in BOOLEAN,
           NEW c, c = [Form(s) EXCEPT !.formSubmitted = w]
    PROVE  FormInv(c, Elements) /\ FormInv(Form(s), Elements)
<1>1. PICK d : d = Form(s)
  OBVIOUS
<1>2. s \in Forms
  BY DEF FormInv
<1>3. CheckedTo(s, Elements, d)
  BY <1>1, <1>2, FormResult
<1>4. d \in Forms
  BY <1>3 DEF CheckedTo
<1>5. c = [d EXCEPT !.invalid = d.invalid, !.summary = d.summary, !.formSubmitted = w]
  BY <1>1, <1>4 DEF Forms
<1>6. d.invalid \in SUBSET Fields /\ d.summary \in Summaries
  BY <1>4 DEF Forms
<1>7. CheckedTo(s, Elements, c)
  <2>1. SameCheck(d, c)
    BY <1>4, <1>5, <1>6 DEF Forms, SameCheck
  <2> QED  BY <1>3, <2>1, CheckedExcept
<1>8. \A x : (s.invalid \cap Elements) \ Elements \subseteq x
  OBVIOUS
<1> QED  BY <1>1, <1>3, <1>7, <1>8, CheckKeeps

\* So does a check of one field.
LEMMA ElementKeeps ==
    ASSUME PageInv, NEW s, FormInv(s, Elements), NEW f \in present
    PROVE  FormInv(Element(s, f), Elements)
<1>1. PICK fs : fs = {f} \cap Elements
  OBVIOUS
<1>2. PICK d : d = Check(s, fs)
  OBVIOUS
<1>3. fs \in SUBSET Elements /\ s \in Forms
  BY <1>1 DEF Elements, FormInv
<1>4. CheckedTo(s, fs, d) /\ d.invalid = s.invalid
  BY <1>2, <1>3, CheckResult
<1>5. d \in Forms
  BY <1>4 DEF CheckedTo
<1>6. PICK c : c = Element(s, f)
  OBVIOUS
<1>7. PICK i : i = s.invalid \cup {f}
  OBVIOUS
<1>8. c = [d EXCEPT !.invalid = i, !.summary = d.summary, !.formSubmitted = d.formSubmitted]
  <2>1. c = [d EXCEPT !.invalid = @ \cup {f}]
    BY <1>1, <1>2, <1>6 DEF Element
  <2> QED  BY <1>4, <1>5, <1>7, <2>1 DEF Forms
<1>9. i \in SUBSET Fields /\ d.summary \in Summaries /\ d.formSubmitted \in BOOLEAN
  BY <1>3, <1>5, <1>7 DEF Forms, PageInv
<1>10. CheckedTo(s, fs, c) /\ c.invalid = i
  <2>1. SameCheck(d, c) /\ c.invalid = i
    BY <1>5, <1>8, <1>9 DEF Forms, SameCheck
  <2> QED  BY <1>4, <2>1, CheckedExcept
<1> QED  BY <1>3, <1>6, <1>7, <1>10, CheckKeeps

-----------------------------------------------------------------------------
(* The form is rendered and reset.                                          *)

\* What the server renders: nothing is asked, and its errors are not the validator's.
LEMMA RenderedInv ==
    ASSUME NEW wrong \in SUBSET Fields, NEW E
    PROVE  FormInv(Rendered(wrong), E)
<1>1. PICK s : s = Rendered(wrong)
  OBVIOUS
<1> DEFINE span == [f \in Fields |->
                       IF f \in wrong /\ Replace[f] # "absent"
                       THEN [class |-> "error", text |-> "server"]
                       ELSE [class |-> "valid", text |-> "none"]]
           summary == IF HasSummary /\ wrong # {}
                      THEN [class |-> "errors", items |-> [f \in wrong |-> "server"]]
                      ELSE [class |-> "valid", items |-> NoErrors]
           previous == [f \in Fields |-> NoAnswer]
           requests == [f \in Fields |-> NoData]
<1>2. s = [errorMap |-> NoErrors, submitted |-> {}, invalid |-> {}, previous |-> previous,
           requests |-> requests, orphaned |-> {}, pending |-> {}, pendingRequest |-> 0,
           formSubmitted |-> FALSE, span |-> span, summary |-> summary]
  BY <1>1 DEF Rendered
<1>3. "server" \in Texts /\ "none" \in Texts
  BY DEF Texts
<1>4. NoErrors \in ErrorMaps /\ DOMAIN NoErrors = {}
  <2>1. NoErrors \in [{} -> Texts] /\ {} \in SUBSET Fields
    BY DEF NoErrors
  <2> QED  BY <2>1 DEF ErrorMaps
<1>5. [f \in wrong |-> "server"] \in ErrorMaps
  <2>1. [f \in wrong |-> "server"] \in [wrong -> Texts]
    BY <1>3
  <2> QED  BY <2>1 DEF ErrorMaps
<1>6. summary \in Summaries
  BY <1>4, <1>5 DEF Summaries
<1>7. span \in [Fields -> Spans]
  BY <1>3 DEF Spans
<1>8. previous \in [Fields -> Answers] /\ requests \in [Fields -> Sent \cup {NoData}]
  BY DEF NoAnswer, Answers
<1>9. \A f \in Fields : previous[f].old = NoData /\ requests[f] = NoData
  BY DEF NoAnswer
<1>10. \A f \in Fields : /\ Replace[f] = "absent" => span[f].class = "valid"
                         /\ span[f].text \notin Methods
  BY DEF Methods
<1> HIDE DEF span, summary, previous, requests
<1>11. s \in Forms
  BY <1>2, <1>4, <1>6, <1>7, <1>8 DEF Forms
<1>12. Counted(s, E) /\ AnswersKept(s)
  BY <1>2, <1>9, FS_EmptySet DEF Counted, AnswersKept
<1>13. Shown(s) /\ Rechecked(s, E)
  BY <1>2, <1>4, <1>10 DEF Shown, Rechecked
<1> QED  BY <1>1, <1>11, <1>12, <1>13 DEF FormInv

\* A reset takes all errors back, and forgets the answers it does not wait for.
LEMMA ResetKeeps ==
    ASSUME PageInv, NEW s, FormInv(s, Elements)
    PROVE  FormInv(OnReset(s), Elements)
<1>1. PICK c : c = OnReset(s)
  OBVIOUS
<1> DEFINE previous == [f \in Fields |-> IF f \in Elements THEN NoAnswer ELSE s.previous[f]]
           orphaned == s.orphaned \cup {f \in Elements : s.requests[f] # NoData}
           span     == [f \in Fields |-> [s.span[f] EXCEPT !.class = "valid"]]
           summary  == [s.summary EXCEPT !.class = "valid"]
<1>2. s \in Forms
  BY DEF FormInv
<1>3. c = [s EXCEPT !.errorMap = NoErrors, !.submitted = {}, !.invalid = {},
                    !.previous = previous, !.orphaned = orphaned, !.span = span,
                    !.summary = summary]
  BY <1>1, <1>2 DEF OnReset, Forms
<1>4. NoErrors \in ErrorMaps /\ DOMAIN NoErrors = {}
  <2>1. NoErrors \in [{} -> Texts] /\ {} \in SUBSET Fields
    BY DEF NoErrors
  <2> QED  BY <2>1 DEF ErrorMaps
<1>5. previous \in [Fields -> Answers]
  BY <1>2 DEF Forms, NoAnswer, Answers
<1>6. orphaned \in SUBSET Fields
  BY <1>2 DEF Forms, Elements, PageInv
<1>7. span \in [Fields -> Spans] /\ \A f \in Fields : span[f].class = "valid"
  BY <1>2 DEF Forms, Spans
<1>8. summary \in Summaries
  BY <1>2 DEF Forms, Summaries
<1>9. /\ \A f \in Fields : f \in Elements => previous[f].old = NoData
      /\ \A f \in Fields : f \notin Elements => previous[f] = s.previous[f]
  BY DEF NoAnswer
<1>10. \A f \in Fields : f \in orphaned <=>
                            \/ f \in s.orphaned
                            \/ f \in Elements /\ s.requests[f] # NoData
  OBVIOUS
<1> HIDE DEF previous, orphaned, span, summary
<1>11. c \in Forms
  BY <1>2, <1>3, <1>4, <1>5, <1>6, <1>7, <1>8 DEF Forms
<1>12. /\ c.errorMap = NoErrors /\ c.previous = previous /\ c.orphaned = orphaned /\ c.span = span
       /\ c.requests = s.requests /\ c.pending = s.pending
       /\ c.pendingRequest = s.pendingRequest
  BY <1>2, <1>3 DEF Forms
<1>13. Counted(c, Elements)
  BY <1>12 DEF Counted, FormInv
<1>14. AnswersKept(c)
  BY <1>9, <1>10, <1>12 DEF AnswersKept, FormInv
<1>15. Shown(c) /\ Rechecked(c, Elements)
  BY <1>4, <1>7, <1>12 DEF Shown, Rechecked
<1> QED  BY <1>1, <1>11, <1>13, <1>14, <1>15 DEF FormInv

-----------------------------------------------------------------------------
(* Answers.                                                                 *)

\* What form c has from form s by the end of the request of field f.
Stopped(s, f, valid, c) ==
    /\ c.requests = [s.requests EXCEPT ![f] = NoData]
    /\ c.orphaned = s.orphaned \ {f}
    /\ c.previous = [s.previous EXCEPT ![f].valid = IF f \in s.orphaned THEN @ ELSE valid]
    /\ c.pendingRequest = IF s.pendingRequest = 0 THEN 0 ELSE s.pendingRequest - 1
    /\ c.pending = s.pending \ {f}
    /\ c.submitted = s.submitted

\* What it has from the answer; errors, spans, summary and the wish to submit
\* are left open.
SettledTo(s, f, valid, c) ==
    /\ c \in Forms
    /\ Stopped(s, f, valid, c)
    /\ c.invalid = s.invalid \cup {f}

\* The errors after a refusal.
Refusing(s, f) ==
    [g \in DOMAIN s.errorMap \cup {f} |-> IF g = f THEN "remote" ELSE s.errorMap[g]]

\* The end of a request keeps the count and what is remembered, if the answer is
\* the server's.
LEMMA SettledKeeps ==
    ASSUME PageInv, NEW s, FormInv(s, Elements), NEW f \in Fields, s.requests[f] # NoData,
           NEW c, SettledTo(s, f, ~Refuses(f, s.requests[f]), c)
    PROVE  Counted(c, Elements) /\ AnswersKept(c)
<1>1. s \in Forms /\ c \in Forms
  BY DEF FormInv, SettledTo, Stopped
<1>2. f \in s.pending /\ s.pending \in SUBSET Fields /\ s.pendingRequest = Cardinality(s.pending)
  BY <1>1 DEF FormInv, Counted, Forms
<1>3. IsFiniteSet(s.pending)
  BY <1>2, MarkupAssumption, FS_Subset
<1>4. Cardinality(s.pending \ {f}) = Cardinality(s.pending) - 1
  BY <1>2, <1>3, FS_RemoveElement
<1>5. s.pendingRequest # 0
  BY <1>2, <1>3, FS_EmptySet
<1>6. c.pendingRequest = Cardinality(c.pending)
  BY <1>2, <1>4, <1>5 DEF SettledTo, Stopped
<1>7. c.requests[f] = NoData /\ \A g \in Fields : g # f => c.requests[g] = s.requests[g]
  BY <1>1 DEF SettledTo, Stopped, Forms
<1>8. Counted(c, Elements)
  BY <1>6, <1>7 DEF Counted, FormInv, SettledTo, Stopped
<1>9. ASSUME NEW g \in Fields, g # f
      PROVE  /\ g \in c.orphaned <=> g \in s.orphaned
             /\ g \in c.pending <=> g \in s.pending
             /\ c.requests[g] = s.requests[g] /\ c.previous[g] = s.previous[g]
  BY <1>1, <1>9 DEF SettledTo, Stopped, Forms
<1>10. /\ f \notin c.orphaned /\ c.requests[f] = NoData
       /\ c.previous[f].old # NoData =>
             c.previous[f].valid = ~Refuses(f, c.previous[f].old)
  <2>1. s.previous[f] \in Answers
    BY <1>1 DEF Forms
  <2>2. /\ c.previous[f].old = s.previous[f].old
        /\ f \notin s.orphaned => c.previous[f].valid = ~Refuses(f, s.requests[f])
    BY <1>1, <2>1 DEF SettledTo, Stopped, Forms, Answers
  <2>3. /\ f \in s.orphaned => s.previous[f].old = NoData
        /\ f \notin s.orphaned => s.requests[f] = s.previous[f].old
    BY DEF FormInv, AnswersKept
  <2>4. f \notin c.orphaned /\ c.requests[f] = NoData
    BY <1>7 DEF SettledTo, Stopped
  <2>5. CASE f \in s.orphaned
    BY <2>2, <2>3, <2>4, <2>5
  <2>6. CASE f \notin s.orphaned
    BY <2>2, <2>3, <2>4, <2>6
  <2> QED  BY <2>5, <2>6
<1>11. AnswersKept(c)
  <2> SUFFICES ASSUME NEW g \in Fields
               PROVE  /\ g \in c.orphaned => c.previous[g].old = NoData
                      /\ c.requests[g] # NoData /\ g \notin c.orphaned =>
                            c.requests[g] = c.previous[g].old
                      /\ g \notin c.pending /\ c.previous[g].old # NoData =>
                            c.previous[g].valid = ~Refuses(g, c.previous[g].old)
    BY DEF AnswersKept
  <2>1. CASE g = f
    BY <1>10, <2>1
  <2>2. CASE g # f
    BY <1>9, <2>2 DEF FormInv, AnswersKept
  <2> QED  BY <2>1, <2>2
<1> QED  BY <1>8, <1>11

\* It keeps the errors in sight when it shows one for f or none at all.
LEMMA SettledShows ==
    ASSUME PageInv, NEW s, FormInv(s, Elements), NEW f \in Fields, s.requests[f] # NoData,
           NEW valid, NEW c, SettledTo(s, f, valid, c),
           NEW mark \in Spans, c.span = [s.span EXCEPT ![f] = mark],
           Replace[f] = "absent" => mark = s.span[f],
           \/ c.errorMap = NoErrors
           \/ /\ c.errorMap = Refusing(s, f)
              /\ Replace[f] # "absent" => mark.class = "error"
              /\ Replace[f] = "true" => mark.text = "remote"
    PROVE  Shown(c) /\ Rechecked(c, Elements)
<1>1. s \in Forms /\ c \in Forms /\ f \in Elements
  BY DEF FormInv, SettledTo, Stopped, Counted
<1>2. c.span[f] = mark /\ \A g \in Fields : g # f => c.span[g] = s.span[g]
  BY <1>1 DEF Forms
<1>3. \A g \in DOMAIN s.errorMap : g \in Fields
  BY <1>1 DEF Forms, ErrorMaps
<1>4. ASSUME NEW g \in DOMAIN c.errorMap, Replace[g] # "absent"
      PROVE  /\ c.span[g].class = "error"
             /\ Replace[g] = "true" => c.span[g].text = c.errorMap[g]
  <2>1. c.errorMap # NoErrors
    BY DEF NoErrors
  <2>2. CASE g = f
    BY <1>2, <1>4, <2>1, <2>2 DEF Refusing
  <2>3. CASE g # f
    <3>1. g \in DOMAIN s.errorMap /\ g \in Fields /\ c.errorMap[g] = s.errorMap[g]
      BY <1>3, <2>1, <2>3 DEF Refusing
    <3> QED  BY <1>2, <1>4, <2>3, <3>1 DEF FormInv, Shown
  <2> QED  BY <2>2, <2>3
<1>5. ASSUME NEW g \in Fields, Replace[g] = "absent"
      PROVE  c.span[g].class = "valid"
  BY <1>2, <1>5 DEF FormInv, Shown
<1>6. Rechecked(c, Elements)
  BY <1>1, <1>2 DEF FormInv, Rechecked, SettledTo, Stopped
<1> QED  BY <1>4, <1>5, <1>6 DEF Shown

\* The components of form after StopRequest.
LEMMA StopResult ==
    ASSUME NEW s \in Forms, NEW f \in Fields, NEW valid \in BOOLEAN,
           NEW d, d = StopRequest(s, f, valid)
    PROVE  /\ d \in Forms
           /\ Stopped(s, f, valid, d)
           /\ d.invalid = s.invalid /\ d.span = s.span
           /\ d.errorMap = s.errorMap /\ d.summary = s.summary
           /\ d.formSubmitted = s.formSubmitted
<1> DEFINE requests == [s.requests EXCEPT ![f] = NoData]
           previous == [s.previous EXCEPT ![f].valid = IF f \in s.orphaned THEN @ ELSE valid]
           left == IF s.pendingRequest = 0 THEN 0 ELSE s.pendingRequest - 1
<1>1. requests \in [Fields -> Sent \cup {NoData}]
  BY DEF Forms
<1>2. previous \in [Fields -> Answers]
  <2>1. s.previous \in [Fields -> Answers]
    BY DEF Forms
  <2> QED  BY <2>1 DEF Answers
<1>3. left \in Nat
  <2>1. s.pendingRequest \in Nat
    BY DEF Forms
  <2> QED  BY <2>1
<1>4. PICK o, q : o = s.orphaned \ {f} /\ q = s.pending \ {f}
  OBVIOUS
<1>5. o \in SUBSET Fields /\ q \in SUBSET Fields
  BY <1>4 DEF Forms
<1>6. d = [s EXCEPT !.requests = requests, !.orphaned = o, !.previous = previous,
                    !.pendingRequest = left, !.pending = q]
  BY <1>4 DEF StopRequest, Forms
<1> HIDE DEF requests, previous, left
<1>7. d \in Forms
  BY <1>1, <1>2, <1>3, <1>5, <1>6 DEF Forms
<1>8. /\ d.requests = requests /\ d.orphaned = o /\ d.previous = previous
      /\ d.pendingRequest = left /\ d.pending = q
      /\ d.submitted = s.submitted /\ d.invalid = s.invalid /\ d.span = s.span
      /\ d.errorMap = s.errorMap /\ d.summary = s.summary
      /\ d.formSubmitted = s.formSubmitted
  BY <1>6 DEF Forms
<1> QED  BY <1>4, <1>7, <1>8 DEF Stopped, requests, previous, left

\* The server accepts field f.
LEMMA AcceptedKeeps ==
    ASSUME PageInv, FormInv(form, Elements), NEW f \in Fields, form.requests[f] # NoData,
           ~Refuses(f, form.requests[f])
    PROVE  FormInv(Accepted(f), Elements)
<1>1. PICK d : d = StopRequest(form, f, TRUE)
  OBVIOUS
<1>2. PICK mark : mark = OnSuccess(f, form.span[f])
  OBVIOUS
<1>3. PICK c : c = Accepted(f)
  OBVIOUS
<1>4. form \in Forms /\ form.span[f] \in Spans /\ "none" \in Texts
  BY DEF FormInv, Forms, Texts
<1>5. mark \in Spans /\ (Replace[f] = "absent" => mark = form.span[f])
  BY <1>2, <1>4, MessageType, MessageShown
<1>6. d \in Forms /\ d.span = form.span /\ d.invalid = form.invalid
  BY <1>1, <1>4, StopResult
<1>7. NoErrors \in ErrorMaps
  <2>1. NoErrors \in [{} -> Texts] /\ {} \in SUBSET Fields
    BY DEF NoErrors
  <2> QED  BY <2>1 DEF ErrorMaps
<1>8. c = [d EXCEPT !.errorMap = NoErrors, !.invalid = @ \cup {f}, !.span[f] = mark]
  BY <1>1, <1>2, <1>3, <1>6 DEF Accepted, Forms
<1>9. c \in Forms
  <2>1. PICK i, sp : i = d.invalid \cup {f} /\ sp = [d.span EXCEPT ![f] = mark]
    OBVIOUS
  <2>2. i \in SUBSET Fields /\ sp \in [Fields -> Spans]
    BY <1>5, <1>6, <2>1 DEF Forms
  <2>3. c = [d EXCEPT !.errorMap = NoErrors, !.invalid = i, !.span = sp]
    BY <1>6, <1>8, <2>1 DEF Forms
  <2> QED  BY <1>6, <1>7, <2>2, <2>3 DEF Forms
<1>10. /\ c.errorMap = NoErrors /\ c.invalid = form.invalid \cup {f}
       /\ c.span = [form.span EXCEPT ![f] = mark]
       /\ c.requests = d.requests /\ c.orphaned = d.orphaned /\ c.previous = d.previous
       /\ c.pendingRequest = d.pendingRequest /\ c.pending = d.pending
       /\ c.submitted = d.submitted
  BY <1>6, <1>8 DEF Forms
<1>11. SettledTo(form, f, TRUE, c)
  <2>1. Stopped(form, f, TRUE, d)
    BY <1>1, <1>4, StopResult
  <2> QED  BY <1>9, <1>10, <2>1 DEF SettledTo, Stopped
<1>12. Counted(c, Elements) /\ AnswersKept(c)
  BY <1>11, SettledKeeps
<1>13. Shown(c) /\ Rechecked(c, Elements)
  BY <1>5, <1>10, <1>11, SettledShows
<1> QED  BY <1>3, <1>9, <1>12, <1>13 DEF FormInv

\* The server refuses field f.
LEMMA RefusedKeeps ==
    ASSUME PageInv, FormInv(form, Elements), NEW f \in Fields, AnswerRefused(f)
    PROVE  FormInv(form', Elements)
<1> DEFINE errors == Refusing(form, f)
<1>1. PICK d : d = StopRequest(form, f, FALSE)
  OBVIOUS
<1>2. PICK mark : mark = OnError(f, form.span[f], "remote")
  OBVIOUS
<1>3. PICK e : e = [d EXCEPT !.errorMap = errors, !.invalid = @ \cup {f}, !.span[f] = mark]
  OBVIOUS
<1>4. form \in Forms /\ form.span[f] \in Spans /\ "remote" \in Texts
  BY DEF FormInv, Forms, Texts, Methods
<1>5. /\ mark \in Spans /\ (Replace[f] = "absent" => mark = form.span[f])
      /\ Replace[f] # "absent" => mark.class = "error"
      /\ Replace[f] = "true" => mark.text = "remote"
  BY <1>2, <1>4, MessageType, MessageShown
<1>6. d \in Forms /\ d.span = form.span /\ d.invalid = form.invalid
  BY <1>1, <1>4, StopResult
<1>7. errors \in ErrorMaps
  <2>1. PICK D \in SUBSET Fields : form.errorMap \in [D -> Texts]
    BY <1>4 DEF Forms, ErrorMaps
  <2>2. errors \in [D \cup {f} -> Texts] /\ D \cup {f} \in SUBSET Fields
    BY <1>4, <2>1 DEF Refusing
  <2> QED  BY <2>2 DEF ErrorMaps
<1>8. PICK c : c = form'
  OBVIOUS
<1>9. \/ c = e
      \/ c = [e EXCEPT !.summary = OnErrors(@, errors), !.formSubmitted = FALSE]
  BY <1>1, <1>2, <1>3, <1>6, <1>8 DEF AnswerRefused, Refusing, Forms
<1>10. e \in Forms
  <2>1. PICK i, sp : i = d.invalid \cup {f} /\ sp = [d.span EXCEPT ![f] = mark]
    OBVIOUS
  <2>2. i \in SUBSET Fields /\ sp \in [Fields -> Spans]
    BY <1>5, <1>6, <2>1 DEF Forms
  <2>3. e = [d EXCEPT !.errorMap = errors, !.invalid = i, !.span = sp]
    BY <1>3, <1>6, <2>1 DEF Forms
  <2> QED  BY <1>6, <1>7, <2>2, <2>3 DEF Forms
<1>11. /\ e.errorMap = errors /\ e.invalid = form.invalid \cup {f}
       /\ e.span = [form.span EXCEPT ![f] = mark]
       /\ e.requests = d.requests /\ e.orphaned = d.orphaned /\ e.previous = d.previous
       /\ e.pendingRequest = d.pendingRequest /\ e.pending = d.pending
       /\ e.submitted = d.submitted
  BY <1>3, <1>6 DEF Forms
<1>12. SameCheck(e, c) /\ c.invalid = e.invalid
  <2>1. OnErrors(e.summary, errors) \in Summaries
    BY <1>7, <1>10, SummaryType DEF Forms
  <2>2. CASE c = e
    BY <1>10, <2>2 DEF SameCheck
  <2>3. CASE c = [e EXCEPT !.summary = OnErrors(@, errors), !.formSubmitted = FALSE]
    BY <1>10, <2>1, <2>3 DEF SameCheck, Forms
  <2> QED  BY <1>9, <2>2, <2>3
<1>13. SettledTo(form, f, FALSE, c)
  <2>1. Stopped(form, f, FALSE, d)
    BY <1>1, <1>4, StopResult
  <2> QED  BY <1>11, <1>12, <2>1 DEF SettledTo, Stopped, SameCheck
<1>14. form.requests[f] # NoData /\ Refuses(f, form.requests[f])
  BY DEF AnswerRefused
<1>15. Counted(c, Elements) /\ AnswersKept(c)
  BY <1>13, <1>14, SettledKeeps
<1>16. Shown(c) /\ Rechecked(c, Elements)
  <2>1. c.errorMap = errors /\ c.span = [form.span EXCEPT ![f] = mark]
    BY <1>11, <1>12 DEF SameCheck
  <2> QED  BY <1>5, <1>13, <1>14, <2>1, SettledShows
<1>17. c \in Forms
  BY <1>12 DEF SameCheck
<1> QED  BY <1>8, <1>15, <1>16, <1>17 DEF FormInv

\* A request that fails is forgotten, but its field waits on.
LEMMA FailureKeeps ==
    ASSUME PageInv, FormInv(form, Elements), NEW f \in Fields, RequestFails(f)
    PROVE  FormInv(form', Elements)
<1>1. PICK c : c = form'
  OBVIOUS
<1>2. form \in Forms /\ f \in form.pending
  BY DEF FormInv, Counted, RequestFails
<1>3. PICK r, o : r = [form.requests EXCEPT ![f] = NoData] /\ o = form.orphaned \ {f}
  OBVIOUS
<1>4. c = [form EXCEPT !.requests = r, !.orphaned = o]
  BY <1>1, <1>2, <1>3 DEF RequestFails, Forms
<1>5. r \in [Fields -> Sent \cup {NoData}] /\ o \in SUBSET Fields
  BY <1>2, <1>3 DEF Forms
<1>6. c \in Forms
  BY <1>2, <1>4, <1>5 DEF Forms
<1>7. /\ c.requests = r /\ c.orphaned = o /\ c.errorMap = form.errorMap
      /\ c.submitted = form.submitted /\ c.invalid = form.invalid
      /\ c.previous = form.previous /\ c.pending = form.pending
      /\ c.pendingRequest = form.pendingRequest /\ c.span = form.span
  BY <1>2, <1>4 DEF Forms
<1>8. r[f] = NoData /\ \A g \in Fields : g # f => r[g] = form.requests[g]
  BY <1>2, <1>3 DEF Forms
<1>9. Counted(c, Elements) /\ AnswersKept(c)
  BY <1>2, <1>3, <1>7, <1>8 DEF FormInv, Counted, AnswersKept
<1>10. Shown(c) /\ Rechecked(c, Elements)
  BY <1>7 DEF FormInv, Shown, Rechecked
<1> QED  BY <1>1, <1>6, <1>9, <1>10 DEF FormInv

-----------------------------------------------------------------------------
(* The invariant is inductive.                                              *)

\* Parsing some of the fields that are there.
LEMMA ParsedFromTable ==
    ASSUME PageInv, NEW fs \in SUBSET present
    PROVE  /\ FromTable(Parsed(fs))
           /\ DOMAIN Parsed(fs) = DOMAIN parsed \cup fs
<1>1. DOMAIN Parsed(fs) = DOMAIN parsed \cup fs
  BY DEF Parsed
<1>2. ASSUME NEW f \in DOMAIN Parsed(fs)
      PROVE  \E there \in SUBSET Fields :
                /\ {f} \cup (Fields \ Late) \subseteq there
                /\ Parsed(fs)[f] = RulesTable[<<f, there>>]
  <2>1. CASE f \in fs
    <3>1. Parsed(fs)[f] = RulesTable[<<f, present>>]
      BY <2>1 DEF Parsed
    <3>2. present \in SUBSET Fields /\ {f} \cup (Fields \ Late) \subseteq present
      BY <2>1 DEF PageInv
    <3> QED  BY <3>1, <3>2
  <2>2. CASE f \notin fs
    <3>1. f \in DOMAIN parsed /\ Parsed(fs)[f] = parsed[f]
      BY <1>1, <2>2 DEF Parsed
    <3> QED  BY <3>1 DEF PageInv, FromTable
  <2> QED  BY <2>1, <2>2
<1> QED  BY <1>1, <1>2 DEF FromTable

\* A field that is looked at stays so as long as the validator keeps its rules.
LEMMA WatchedStep ==
    ASSUME UNCHANGED <<rules, attached>>, present \subseteq present'
    PROVE  Watched \subseteq Watched'
BY DEF Watched, Elements

\* The page after parsing, with or without an attachment.
LEMMA ParseStep ==
    ASSUME PageInv, NEW fs \in SUBSET present, parsed' = Parsed(fs),
           AttachValidation(Parsed(fs)) \/ UNCHANGED <<attached, ruled, rules>>,
           page' \in {"loading", "open", "sent"}, UNCHANGED <<present, value>>
    PROVE  PageInv' /\ Watched \subseteq Watched'
<1>1. FromTable(Parsed(fs)) /\ DOMAIN Parsed(fs) = DOMAIN parsed \cup fs
  BY ParsedFromTable
<1>2. FromTable(parsed') /\ DOMAIN parsed' = DOMAIN parsed \cup fs
  BY <1>1
<1>3. \/ ruled' = ruled /\ rules' = rules
      \/ /\ ~attached /\ ruled' = DOMAIN Parsed(fs)
         /\ rules' = [f \in Fields |-> IF f \in DOMAIN Parsed(fs) THEN Merged(f, Parsed(fs)[f])
                                       ELSE rules[f]]
  BY DEF AttachValidation, PageInv
<1>4. attached' \in BOOLEAN /\ (~attached' => ruled' = ruled /\ ~attached)
  BY DEF AttachValidation, PageInv
<1>5. Translated(ruled', rules') /\ ruled' \subseteq DOMAIN parsed'
  <2>1. CASE ruled' = ruled /\ rules' = rules
    BY <1>2, <2>1 DEF PageInv
  <2>2. CASE ~attached /\ ruled' = DOMAIN Parsed(fs)
             /\ rules' = [f \in Fields |-> IF f \in DOMAIN Parsed(fs) THEN Merged(f, Parsed(fs)[f])
                                           ELSE rules[f]]
    <3>1. ruled' \subseteq Fields
      BY <1>1, <2>2 DEF PageInv
    <3>2. ASSUME NEW f \in ruled'
          PROVE  \E there \in SUBSET Fields :
                    /\ {f} \cup (Fields \ Late) \subseteq there
                    /\ rules'[f] = Merged(f, RulesTable[<<f, there>>])
      BY <1>1, <2>2, <3>1 DEF FromTable
    <3>3. ASSUME NEW f \in Fields \ ruled'
          PROVE  rules'[f] = HtmlRules(f)
      BY <2>2, <3>3 DEF PageInv, Translated
    <3>4. DOMAIN rules' = Fields
      BY <2>2
    <3> QED  BY <1>1, <1>2, <2>2, <3>2, <3>3, <3>4 DEF Translated
  <2> QED  BY <1>3, <2>1, <2>2
<1>6. ~attached' => ruled' = {}
  BY <1>4 DEF PageInv
<1>7. PageInv'
  BY <1>2, <1>4, <1>5, <1>6 DEF PageInv
<1>8. CASE attached
  <2>1. attached' = attached /\ rules' = rules
    BY <1>8 DEF AttachValidation
  <2> QED  BY <1>7, <2>1, WatchedStep
<1>9. CASE ~attached
  BY <1>7, <1>9 DEF Watched
<1> QED  BY <1>7, <1>8, <1>9

\* The page keeps its part of the invariant, and but for a new one, the fields
\* that are looked at stay.
LEMMA PageStep ==
    ASSUME PageInv, [Next]_vars
    PROVE  PageInv' /\ (Load \/ Watched \subseteq Watched')
<1>1. CASE UNCHANGED vars
  <2>1. PageInv' /\ UNCHANGED <<rules, attached>> /\ present \subseteq present'
    BY <1>1 DEF vars, PageInv
  <2> QED  BY <2>1, WatchedStep
<1>2. CASE Ready \/ Parse
  <2>1. ParseAll /\ page' \in {"loading", "open", "sent"}
    BY <1>2 DEF Ready, Parse, PageInv
  <2> QED  BY <2>1, ParseStep DEF ParseAll
<1>3. CASE Load
  <2>1. /\ DOMAIN NoErrors = {} /\ FromTable(NoErrors)
        /\ Translated({}, [f \in Fields |-> HtmlRules(f)])
    BY DEF NoErrors, FromTable, Translated
  <2> QED  BY <1>3, <2>1, MarkupAssumption DEF Load, PageInv
<1>4. ASSUME NEW f \in Fields, ParseElement(f)
      PROVE  PageInv' /\ Watched \subseteq Watched'
  <2>1. /\ {f} \in SUBSET present /\ parsed' = Parsed({f})
        /\ AttachValidation(Parsed({f})) \/ UNCHANGED <<attached, ruled, rules>>
        /\ page' \in {"loading", "open", "sent"} /\ UNCHANGED <<present, value>>
    BY <1>4 DEF ParseElement, PageInv
  <2> QED  BY <2>1, ParseStep
<1>5. ASSUME NEW f \in Fields, Insert(f)
      PROVE  PageInv' /\ Watched \subseteq Watched'
  <2>1. PageInv' /\ UNCHANGED <<rules, attached>> /\ present \subseteq present'
    BY <1>5 DEF Insert, PageInv
  <2> QED  BY <2>1, WatchedStep
<1>6. CASE \/ Validate \/ Reset \/ SubmitUnattended \/ Submit
           \/ \E f \in Fields : \/ Edit(f) \/ Revalidate(f) \/ RequestFails(f)
                              \/ AnswerRefused(f) \/ AnswerAccepted(f) \/ AnswerResumes(f)
  <2>1. page' \in {"loading", "open", "sent"} /\ UNCHANGED <<present, parsed, attached, ruled, rules>>
    BY <1>6 DEF PageInv, Validate, Reset, SubmitUnattended, Submit, Edit, Revalidate,
                RequestFails, AnswerRefused, AnswerAccepted, AnswerResumes
  <2>2. value' \in [Fields -> AllValues] /\ \A g \in Fields : value'[g] \in Values[g]
    <3>1. CASE UNCHANGED value
      BY <3>1 DEF PageInv
    <3>2. CASE Reset
      BY <3>2, MarkupAssumption DEF Reset
    <3>3. ASSUME NEW f \in Fields, Edit(f)
          PROVE  value' \in [Fields -> AllValues] /\ \A g \in Fields : value'[g] \in Values[g]
      <4>1. PICK v \in Values[f] : value' = [value EXCEPT ![f] = v]
        BY <3>3 DEF Edit
      <4>2. v \in AllValues
        BY DEF AllValues
      <4> QED  BY <4>1, <4>2 DEF PageInv
    <3> QED
      BY <1>6, <3>1, <3>2, <3>3
      DEF Validate, SubmitUnattended, Submit, Revalidate, RequestFails, AnswerRefused,
          AnswerAccepted, AnswerResumes
  <2>3. PageInv'
    BY <2>1, <2>2 DEF PageInv
  <2> QED  BY <2>1, <2>3, WatchedStep
<1> QED  BY <1>1, <1>2, <1>3, <1>4, <1>5, <1>6 DEF Next

\* The invariant of the form outlives the parsing of more fields.
LEMMA FormMono ==
    ASSUME NEW s, NEW D, NEW E, FormInv(s, D), D \subseteq E
    PROVE  FormInv(s, E)
BY DEF FormInv, Counted, Rechecked

\* What a handler does to form keeps its part of the invariant.
LEMMA FormStep ==
    ASSUME PageInv, FormInv(form, Elements), [Next]_vars, ~Load
    PROVE  FormInv(form', Elements)
<1>1. CASE UNCHANGED form
  BY <1>1
<1>2. form \in Forms /\ form.formSubmitted \in BOOLEAN
  BY DEF FormInv, Forms
<1>3. CASE Validate
  BY <1>3, FormKeeps DEF Validate
<1>4. CASE Reset
  BY <1>4, ResetKeeps DEF Reset
<1>5. CASE Submit
  BY <1>5, FormKeeps DEF Submit
<1>6. ASSUME NEW f \in Fields, Revalidate(f)
      PROVE  FormInv(form', Elements)
  BY <1>6, ElementKeeps DEF Revalidate
<1>7. ASSUME NEW f \in Fields, AnswerRefused(f)
      PROVE  FormInv(form', Elements)
  BY <1>7, RefusedKeeps
<1>8. ASSUME NEW f \in Fields, AnswerAccepted(f)
      PROVE  FormInv(form', Elements)
  BY <1>8, AcceptedKeeps DEF AnswerAccepted
<1>9. ASSUME NEW f \in Fields, AnswerResumes(f)
      PROVE  FormInv(form', Elements)
  <2>1. FormInv(Accepted(f), Elements)
    BY <1>9, AcceptedKeeps DEF AnswerResumes
  <2>2. FormInv(Form(Accepted(f)), Elements)
    BY <2>1, FormKeeps
  <2>3. FormInv([Form(Accepted(f)) EXCEPT !.formSubmitted = FALSE], Elements)
    BY <2>1, FormKeeps
  <2> QED  BY <1>9, <2>2, <2>3 DEF AnswerResumes
<1>10. ASSUME NEW f \in Fields, RequestFails(f)
       PROVE  FormInv(form', Elements)
  BY <1>10, FailureKeeps
<1> QED
  BY <1>1, <1>3, <1>4, <1>5, <1>6, <1>7, <1>8, <1>9, <1>10
  DEF Next, vars, Ready, Parse, ParseAll, SubmitUnattended, ParseElement, Insert, Edit

\* Without a validator nothing happens to form before the page is loaded again.
LEMMA UnattendedStep ==
    ASSUME PageInv, FormInv(form, {}), ~attached, [Next]_vars, ~Load
    PROVE  UNCHANGED form
<1>1. \A f \in Fields : form.requests[f] = NoData
  BY DEF FormInv, Counted
<1>2. ASSUME NEW f \in Fields
      PROVE  ~(AnswerRefused(f) \/ AnswerAccepted(f) \/ AnswerResumes(f) \/ RequestFails(f))
  BY <1>1 DEF AnswerRefused, AnswerAccepted, AnswerResumes, RequestFails
<1> QED
  BY <1>2 DEF Next, vars, Ready, Parse, ParseAll, Validate, Reset, SubmitUnattended, Submit,
              ParseElement, Insert, Edit, Revalidate

\* The invariant is kept by every step.
LEMMA Step ==
    ASSUME IInv, [Next]_vars
    PROVE  IInv'
<1>1. PageInv'
  BY PageStep DEF IInv
<1>2. CASE Load
  <2>1. PICK wrong \in SUBSET (Fields \ Late) : form' = Rendered(wrong)
    BY <1>2 DEF Load
  <2>2. FormInv(form', Watched')
    BY <2>1, RenderedInv
  <2> QED  BY <1>1, <2>2 DEF IInv
<1>3. CASE ~Load
  <2>1. FormInv(form', Watched)
    <3>1. CASE attached
      <4>1. Watched = Elements
        BY <3>1 DEF Watched
      <4>2. FormInv(form, Elements)
        BY <4>1 DEF IInv
      <4>3. FormInv(form', Elements)
        BY <1>3, <4>2, FormStep DEF IInv
      <4> QED  BY <4>1, <4>3
    <3>2. CASE ~attached
      <4>1. Watched = {}
        BY <3>2 DEF Watched
      <4>2. FormInv(form, {})
        BY <4>1 DEF IInv
      <4> QED  BY <1>3, <3>2, <4>1, <4>2, UnattendedStep DEF IInv
    <3> QED  BY <3>1, <3>2
  <2>2. FormInv(form', Watched')
    BY <1>3, <2>1, PageStep, FormMono DEF IInv
  <2> QED  BY <1>1, <2>2 DEF IInv
<1> QED  BY <1>2, <1>3

\* It holds at the start.
LEMMA Start ==
    ASSUME Init
    PROVE  IInv
<1>1. /\ DOMAIN NoErrors = {} /\ FromTable(NoErrors)
      /\ Translated({}, [f \in Fields |-> HtmlRules(f)])
  BY DEF NoErrors, FromTable, Translated
<1>2. PageInv
  BY <1>1, MarkupAssumption DEF Init, PageInv
<1>3. PICK wrong \in SUBSET (Fields \ Late) : form = Rendered(wrong)
  BY DEF Init
<1>4. FormInv(form, Watched)
  BY <1>3, RenderedInv
<1> QED  BY <1>2, <1>4 DEF IInv

-----------------------------------------------------------------------------
(* Theorems.                                                                *)

\* The invariant, in every reachable state.
LEMMA Invariant == Spec => []IInv
<1>1. Init => IInv
  BY Start
<1>2. IInv /\ [Next]_vars => IInv'
  BY Step
<1> QED  BY <1>1, <1>2, PTL DEF Spec

\* Every variable holds a value of its kind, and the validator has rules of the
\* adapters only for fields that are in the form and were parsed, whatever scripts
\* and users do, and in whatever order (jquery.validate.unobtrusive.js 157-255).
THEOREM TypeCorrect == Spec => []TypeOK
<1>1. IInv => TypeOK
  <2> SUFFICES ASSUME IInv PROVE TypeOK
    OBVIOUS
  <2>1. form \in Forms /\ DOMAIN form.errorMap \subseteq Fields
    BY DEF IInv, FormInv, Forms, ErrorMaps
  <2>2. /\ form.submitted \subseteq Fields /\ form.invalid \subseteq Fields
        /\ form.pending \subseteq Fields /\ form.orphaned \subseteq Fields
        /\ form.pendingRequest \in Nat /\ form.formSubmitted \in BOOLEAN
        /\ form.span \in [Fields -> Spans] /\ form.summary \in Summaries
    BY <2>1 DEF Forms
  <2>3. form.summary.class \in {"valid", "errors"}
    BY <2>2 DEF Summaries
  <2> QED  BY <2>1, <2>2, <2>3 DEF IInv, PageInv, TypeOK, Spans
<1> QED  BY <1>1, Invariant, PTL

\* The validator counts the fields that wait for the server exactly, so that the
\* guard "make sure pendingRequest is never < 0" (jquery.validate.js 1127) is
\* never needed: however requests overlap, are aborted, fail or outlive a reset.
THEOREM PendingIsCounted == Spec => []PendingCounted
<1>1. IInv => PendingCounted
  BY DEF IInv, FormInv, Counted, PendingCounted
<1> QED  BY <1>1, Invariant, PTL

\* The answer remembered for a field is the server's word on the very data it is
\* remembered with, for any server (jquery.validate.js 1580-1618).
THEOREM AnswersAlwaysFit == Spec => []AnswersFit
<1>1. IInv => AnswersFit
  BY DEF IInv, FormInv, AnswersKept, AnswersFit
<1> QED  BY <1>1, Invariant, PTL

\* What the validator holds for wrong is what the page shows
\* (jquery.validate.unobtrusive.js 55-125).
THEOREM ErrorsAlwaysShown == Spec => []ErrorsShown
<1>1. IInv => ErrorsShown
  BY DEF IInv, FormInv, Shown, ErrorsShown
<1> QED  BY <1>1, Invariant, PTL

\* No error sticks to a field that the user has put right: the validator looks at
\* it again with the next key, or waits for the server (jquery.validate.js 307-352).
THEOREM ErrorsAlwaysRechecked == Spec => []ErrorsRechecked
<1>1. IInv => ErrorsRechecked
  BY DEF IInv, FormInv, Rechecked, ErrorsRechecked
<1> QED  BY <1>1, Invariant, PTL

\* The adapters' rules, once copied into the validator, stay exact.
LEMMA ExactInPage ==
    ASSUME AdaptersExact, PageInv, NEW f \in ruled
    PROVE  f \in Fields /\ Exact(f, rules[f])
<1>1. PICK there \in SUBSET Fields :
         /\ {f} \cup (Fields \ Late) \subseteq there
         /\ rules[f] = Merged(f, RulesTable[<<f, there>>])
  BY DEF PageInv, Translated
<1>2. f \in Fields
  BY DEF PageInv
<1>3. Exact(f, Merged(f, RulesTable[<<f, there>>]))
  BY <1>1, <1>2 DEF AdaptersExact
<1> QED  BY <1>1, <1>2, <1>3

\* So do those of a field the validator has no other rules for than its HTML
\* attributes give.
LEMMA HtmlExactInPage ==
    ASSUME AdaptersExact, PageInv, NEW f \in Fields \ ruled
    PROVE  HtmlExact(f, rules[f])
BY DEF AdaptersExact, PageInv, Translated

\* When the adapters are exact on the fields' attributes, so are the rules the
\* validator works with, though it copied them once and some were made before
\* other fields were added (jquery.validate.unobtrusive.js 157-172, 194-221).
THEOREM RulesStayExact ==
    ASSUME AdaptersExact
    PROVE  Spec => []RulesExact
<1>1. IInv => RulesExact
  BY ExactInPage, HtmlExactInPage DEF IInv, RulesExact
<1> QED  BY <1>1, Invariant, PTL

\* The verdict on a field that does not wait for the server is a pass when no local
\* rule is broken and the server accepts what it would be asked.
LEMMA VerdictMeans ==
    ASSUME PageInv, NEW s, FormInv(s, Elements), NEW f \in Fields,
           f \notin s.pending, Verdict(s, f) # "pending"
    PROVE  Verdict(s, f) = "pass" <=>
              /\ Broken(rules[f], value[f], value) = {}
              /\ Remote(f) # {} /\ value[f] # Empty => ~Refuses(f, Data(f))
<1> DEFINE broken == Broken(rules[f], value[f], value)
<1>1. CASE broken # {}
  <2>1. Verdict(s, f) = FirstBroken(rules[f], broken)
    BY <1>1 DEF Verdict
  <2>2. broken \subseteq DOMAIN rules[f]
    BY DEF Broken
  <2>3. Verdict(s, f) \in Methods
    <3> HIDE DEF broken
    <3> QED  BY <1>1, <2>1, <2>2, FirstBrokenIsMethod
  <2> QED  BY <1>1, <2>3, Outcomes
<1>2. CASE broken = {} /\ (Remote(f) = {} \/ value[f] = Empty)
  BY <1>2 DEF Verdict
<1>3. CASE broken = {} /\ ~(Remote(f) = {} \/ value[f] = Empty)
  <2>1. /\ s.previous[f].old = Data(f)
        /\ Verdict(s, f) = IF s.previous[f].valid THEN "pass" ELSE "remote"
    BY <1>3 DEF Verdict
  <2>2. s.previous[f].valid = ~Refuses(f, Data(f))
    BY <2>1, DataType DEF FormInv, AnswersKept
  <2> QED  BY <1>3, <2>1, <2>2
<1> QED  BY <1>1, <1>2, <1>3

\* The verdict on a field that does not wait for the server is right: a pass for
\* a field that is what its attributes ask for, an error for one that is not.
LEMMA VerdictRight ==
    ASSUME AdaptersExact, PageInv, NEW s, FormInv(s, Elements), NEW f \in Elements,
           f \notin s.pending, Verdict(s, f) # "pending"
    PROVE  Verdict(s, f) = "pass" <=> Right(f)
<1> DEFINE broken == Broken(rules[f], value[f], value)
<1>1. f \in Fields /\ value \in Entries
  BY DEF Elements, PageInv, Entries
<1>2. CASE f \in ruled
  <2>1. Exact(f, rules[f])
    BY <1>2, ExactInPage
  <2>2. broken = {} <=> Fits(f, value)
    BY <1>1, <2>1 DEF Exact
  <2>3. Remote(f) # {} <=> <<"remote">> \in Attributes(f)
    BY <2>1 DEF Exact, Remote
  <2>4. Fits(f, value) => HtmlFits(f, value[f])
    BY DEF Fits
  <2>5. Right(f) <=> /\ broken = {}
                     /\ Remote(f) # {} /\ value[f] # Empty => ~Refuses(f, Data(f))
    BY <1>2, <2>2, <2>3, <2>4 DEF Right
  <2> QED  BY <1>1, <2>5, VerdictMeans
<1>3. CASE f \notin ruled
  <2>1. HtmlExact(f, rules[f])
    BY <1>1, <1>3, HtmlExactInPage
  <2>2. (broken = {} <=> HtmlFits(f, value[f])) /\ Remote(f) = {}
    BY <1>1, <2>1 DEF HtmlExact, Remote
  <2>3. Right(f) <=> broken = {}
    BY <1>3, <2>2 DEF Right
  <2> QED  BY <1>1, <2>2, <2>3, VerdictMeans
<1> QED  BY <1>2, <1>3

\* A form without errors that waits for nothing has only right fields.
LEMMA NothingWrong ==
    ASSUME AdaptersExact, PageInv, NEW s, FormInv(s, Elements),
           Valid(Form(s)), Form(s).pendingRequest = 0
    PROVE  \A f \in Elements : Right(f)
<1>1. PICK c : c = Form(s)
  OBVIOUS
<1>2. CheckedTo(s, Elements, c)
  BY <1>1, FormResult DEF FormInv
<1>3. FormInv(c, Elements)
  BY <1>1, FormKeeps
<1>4. Wrong(s, Elements) = {}
  <2>1. Errors(s, Elements) = NoErrors
    BY <1>1, <1>2 DEF CheckedTo, Valid
  <2> QED  BY <2>1 DEF Errors, NoErrors
<1>5. c.pending = {}
  <2>1. c.pending \in SUBSET Fields /\ Cardinality(c.pending) = 0
    BY <1>1, <1>3 DEF FormInv, Forms, Counted
  <2>2. IsFiniteSet(c.pending)
    BY <2>1, MarkupAssumption, FS_Subset
  <2> QED  BY <2>1, <2>2, FS_EmptySet
<1>6. s.pending = {} /\ Asking(s, Elements) = {}
  BY <1>2, <1>5 DEF CheckedTo
<1>7. ASSUME NEW f \in Elements
      PROVE  Right(f)
  <2>1. Verdict(s, f) = "pass"
    BY <1>4, <1>6 DEF Wrong, Passing
  <2> QED  BY <1>6, <2>1, VerdictRight
<1> QED  BY <1>7

\* When the adapters are exact, the form leaves the page through its validator
\* only when every field it checks is what its attributes ask for as it is now,
\* the server's word included (jquery.validate.js 106-114, 1124-1149, 1580-1582).
THEOREM SentRight ==
    ASSUME AdaptersExact
    PROVE  Spec => SentIsRight
<1>1. IInv /\ [Next]_vars =>
         [page = "open" /\ attached /\ page' = "sent" => \A f \in Elements : Right(f)]_vars
  <2> SUFFICES ASSUME IInv, Next, page = "open", attached, page' = "sent"
               PROVE  \A f \in Elements : Right(f)
    BY DEF vars
  <2>1. PageInv /\ FormInv(form, Elements)
    BY DEF IInv, Watched
  <2>2. CASE Submit
    <3>1. Valid(Form(form)) /\ Form(form).pendingRequest = 0
      BY <2>2 DEF Submit
    <3> QED  BY <2>1, <3>1, NothingWrong
  <2>3. ASSUME NEW f \in Fields, AnswerResumes(f)
        PROVE  \A g \in Elements : Right(g)
    <3>1. Valid(Form(Accepted(f))) /\ Form(Accepted(f)).pendingRequest = 0
      BY <2>3 DEF AnswerResumes
    <3>2. FormInv(Accepted(f), Elements)
      BY <2>1, <2>3, AcceptedKeeps DEF AnswerResumes
    <3> QED  BY <2>1, <3>1, <3>2, NothingWrong
  <2> QED
    BY <2>2, <2>3 DEF Next, Ready, Parse, Validate, Reset, Load, SubmitUnattended, ParseElement,
                      Insert, Edit, Revalidate, AnswerRefused, AnswerAccepted, RequestFails
<1> QED  BY <1>1, Invariant, PTL DEF Spec, SentIsRight

\* What a check of the whole form says when it finds errors.
Explains(c) ==
    /\ \A f \in Elements \ c.pending :
          Replace[f] # "absent" => (c.span[f].class = "error" <=> ~Right(f))
    /\ HasSummary => /\ c.summary.class = "errors"
                     /\ c.summary.items = c.errorMap
                     /\ \A f \in DOMAIN c.errorMap \ c.pending : ~Right(f)

\* It names exactly the fields that are wrong, but for those that wait.
LEMMA FormExplains ==
    ASSUME AdaptersExact, PageInv, NEW s, FormInv(s, Elements), NEW c, c = Form(s), ~Valid(c)
    PROVE  Explains(c)
<1>1. s \in Forms
  BY DEF FormInv
<1>2. CheckedTo(s, Elements, c) /\ c.summary = OnErrors(s.summary, c.errorMap)
  BY <1>1, FormResult
<1>3. ASSUME NEW f \in Elements, f \notin c.pending
      PROVE  /\ f \in Wrong(s, Elements) => ~Right(f)
             /\ f \notin Wrong(s, Elements) => Right(f) /\ f \in Passing(s, Elements)
  <2>1. f \notin s.pending /\ Verdict(s, f) # "pending"
    BY <1>2, <1>3 DEF CheckedTo, Asking
  <2>2. Verdict(s, f) = "pass" <=> Right(f)
    BY <2>1, VerdictRight
  <2> QED  BY <2>1, <2>2 DEF Wrong, Asking, Passing
<1>4. ASSUME NEW f \in Elements \ c.pending, Replace[f] # "absent"
      PROVE  c.span[f].class = "error" <=> ~Right(f)
  <2>1. f \in Fields
    BY DEF Elements, PageInv
  <2>2. /\ f \in Wrong(s, Elements) => c.span[f].class = "error"
        /\ f \in Passing(s, Elements) => c.span[f].class = "valid"
    BY <1>2, <1>4, <2>1, CheckSpan
  <2> QED  BY <1>3, <2>2
<1>5. ASSUME HasSummary
      PROVE  c.summary.class = "errors" /\ c.summary.items = c.errorMap
  BY <1>2, <1>5 DEF OnErrors, Valid
<1>6. ASSUME NEW f \in DOMAIN c.errorMap \ c.pending
      PROVE  ~Right(f)
  <2>1. f \in Wrong(s, Elements) /\ f \in Elements
    BY <1>2 DEF CheckedTo, Errors, Wrong
  <2> QED  BY <1>3, <2>1
<1> QED  BY <1>4, <1>5, <1>6 DEF Explains

\* What the page says when the server's answer about f has called a submission off.
CalledOff(f) ==
    /\ form.requests[f] # NoData /\ Refuses(f, form.requests[f])
    /\ form'.errorMap[f] = "remote"
    /\ HasSummary => /\ form'.summary.class = "errors"
                     /\ form'.summary.items = form'.errorMap
    /\ \A g \in DOMAIN form'.errorMap : Replace[g] # "absent" =>
          /\ form'.span[g].class = "error"
          /\ Replace[g] = "true" => form'.span[g].text = form'.errorMap[g]

\* The summary lists that answer and what else the validator holds for wrong.
LEMMA RefusedCallsOff ==
    ASSUME PageInv, FormInv(form, Elements), NEW f \in Fields, AnswerRefused(f)
    PROVE  form.formSubmitted /\ ~form'.formSubmitted => CalledOff(f)
<1> DEFINE errors == Refusing(form, f)
<1>1. PICK d : d = StopRequest(form, f, FALSE)
  OBVIOUS
<1>2. PICK mark : mark = OnError(f, form.span[f], "remote")
  OBVIOUS
<1>3. PICK e : e = [d EXCEPT !.errorMap = errors, !.invalid = @ \cup {f}, !.span[f] = mark]
  OBVIOUS
<1>4. form \in Forms
  BY DEF FormInv
<1>5. d \in Forms /\ d.span = form.span /\ d.formSubmitted = form.formSubmitted
  BY <1>1, <1>4, StopResult
<1>6. PICK c : c = form'
  OBVIOUS
<1>7. \/ c = e
      \/ c = [e EXCEPT !.summary = OnErrors(@, errors), !.formSubmitted = FALSE]
  BY <1>1, <1>2, <1>3, <1>5, <1>6 DEF AnswerRefused, Refusing, Forms
<1>8. e.formSubmitted = form.formSubmitted /\ e.errorMap = errors
  BY <1>3, <1>5 DEF Forms
<1>9. ASSUME form.formSubmitted, ~form'.formSubmitted
      PROVE  c.errorMap = errors /\ c.summary = OnErrors(e.summary, errors)
  <2>1. c = [e EXCEPT !.summary = OnErrors(@, errors), !.formSubmitted = FALSE]
    BY <1>6, <1>7, <1>8, <1>9
  <2> QED  BY <1>3, <1>5, <1>8, <2>1 DEF Forms
<1>10. f \in DOMAIN errors /\ errors[f] = "remote"
  BY DEF Refusing
<1>11. errors # NoErrors
  BY <1>10 DEF NoErrors
<1>12. Shown(c)
  BY <1>6, RefusedKeeps DEF FormInv
<1>13. form.requests[f] # NoData /\ Refuses(f, form.requests[f])
  BY DEF AnswerRefused
<1>14. ASSUME form.formSubmitted, ~form'.formSubmitted
       PROVE  CalledOff(f)
  <2>1. c.errorMap = errors /\ c.summary = OnErrors(e.summary, errors)
    BY <1>9, <1>14
  <2>2. HasSummary => c.summary.class = "errors" /\ c.summary.items = errors
    BY <1>11, <2>1 DEF OnErrors
  <2> QED  BY <1>6, <1>10, <1>12, <1>13, <2>1, <2>2 DEF CalledOff, Shown
<1> QED  BY <1>14

\* Nothing but a refusing answer takes the wish to submit back while there are errors.
LEMMA OnlyRefusalsCallOff ==
    ASSUME IInv, Next, page = "open", attached, ~Valid(form'),
           form.formSubmitted, ~form'.formSubmitted
    PROVE  \E f \in Fields : CalledOff(f)
<1>1. PageInv /\ FormInv(form, Elements) /\ form \in Forms
  BY DEF IInv, Watched, FormInv
<1>2. ASSUME NEW f \in Fields, AnswerRefused(f)
      PROVE  \E g \in Fields : CalledOff(g)
  BY <1>1, <1>2, RefusedCallsOff
<1>3. Form(form).formSubmitted = form.formSubmitted /\ Form(form) \in Forms
  BY <1>1, FormResult DEF CheckedTo
<1>4. ~(Submit \/ Validate)
  BY <1>3 DEF Submit, Validate, Forms
<1>5. ~Reset
  BY <1>1 DEF Reset, OnReset, Forms
<1>6. ASSUME NEW f \in Fields, Revalidate(f)
      PROVE  FALSE
  <2>1. PICK fs : fs = {f} \cap Elements
    OBVIOUS
  <2>2. PICK d : d = Check(form, fs)
    OBVIOUS
  <2>3. d \in Forms /\ d.formSubmitted = form.formSubmitted
    BY <1>1, <2>1, <2>2, CheckResult DEF CheckedTo
  <2>4. form' = [d EXCEPT !.invalid = @ \cup {f}]
    BY <1>6, <2>1, <2>2 DEF Revalidate, Element
  <2> QED  BY <2>3, <2>4 DEF Forms
<1>7. ASSUME NEW f \in Fields, AnswerAccepted(f) \/ AnswerResumes(f)
      PROVE  FALSE
  <2>1. PICK a : a = Accepted(f)
    OBVIOUS
  <2>2. a \in Forms
    BY <1>1, <1>7, <2>1, AcceptedKeeps DEF FormInv, AnswerAccepted, AnswerResumes
  <2>3. a.formSubmitted = form.formSubmitted
    <3>1. PICK d : d = StopRequest(form, f, TRUE)
      OBVIOUS
    <3>2. d \in Forms /\ d.formSubmitted = form.formSubmitted
      BY <1>1, <3>1, StopResult
    <3> QED  BY <2>1, <3>1, <3>2 DEF Accepted, Forms
  <2>4. Form(a).formSubmitted = form.formSubmitted /\ Form(a) \in Forms
    BY <1>1, <2>2, <2>3, FormResult DEF CheckedTo
  <2>5. CASE AnswerAccepted(f)
    BY <2>1, <2>3, <2>5 DEF AnswerAccepted
  <2>6. CASE AnswerResumes(f)
    <3>1. \/ form' = Form(a)
          \/ Valid(Form(a)) /\ form' = [Form(a) EXCEPT !.formSubmitted = FALSE]
      BY <2>1, <2>6 DEF AnswerResumes
    <3>2. PICK c : c = Form(a)
      OBVIOUS
    <3>3. \/ form' = c
          \/ Valid(c) /\ form' = [c EXCEPT !.formSubmitted = FALSE]
      BY <3>1, <3>2
    <3> QED  BY <2>4, <3>2, <3>3 DEF Valid, Forms
  <2> QED  BY <1>7, <2>5, <2>6
<1>8. ASSUME NEW f \in Fields, RequestFails(f)
      PROVE  FALSE
  BY <1>1, <1>8 DEF RequestFails, Forms
<1> QED
  BY <1>2, <1>4, <1>5, <1>6, <1>7, <1>8
  DEF Next, Ready, Parse, ParseAll, Load, SubmitUnattended, ParseElement, Insert, Edit

\* When the adapters are exact, a form that is refused says why.  A check of the
\* whole form that finds errors, also the one a submission resumes with, shows one in
\* the span of a field that does not wait for the server just when the field is wrong,
\* and the summary lists what is wrong now.  An answer that calls a submission off is
\* listed with what the last checks found, each with its message at its field
\* (jquery.validate.unobtrusive.js 55-100, jquery.validate.js 461-478, 1124-1149).
THEOREM RefusalsExplained ==
    ASSUME AdaptersExact
    PROVE  Spec => RefusalExplained
<1>1. ASSUME IInv, page = "open", attached, ~Valid(form'), NEW s \in Checked, form' = Form(s)
      PROVE  Explains(form')
  <2>1. PageInv /\ FormInv(form, Elements)
    BY <1>1 DEF IInv, Watched
  <2>2. FormInv(s, Elements)
    BY <2>1, AcceptedKeeps DEF Checked
  <2>3. PICK c : c = form'
    OBVIOUS
  <2>4. c = Form(s) /\ ~Valid(c)
    BY <1>1, <2>3
  <2>5. Explains(c)
    BY <2>1, <2>2, <2>4, FormExplains
  <2> QED  BY <2>3, <2>5
<1>2. IInv /\ [Next]_vars =>
         [page = "open" /\ attached /\ ~Valid(form') =>
            /\ (\E s \in Checked : form' = Form(s)) => Explains(form')
            /\ form.formSubmitted /\ ~form'.formSubmitted => \E f \in Fields : CalledOff(f)]_vars
  BY <1>1, OnlyRefusalsCallOff
<1>3. IInv /\ [Next]_vars =>
         [page = "open" /\ attached /\ ~Valid(form') =>
            /\ (\E s \in Checked : form' = Form(s)) =>
                  /\ \A f \in Elements \ form'.pending :
                        Replace[f] # "absent" => (form'.span[f].class = "error" <=> ~Right(f))
                  /\ HasSummary => /\ form'.summary.class = "errors"
                                   /\ form'.summary.items = form'.errorMap
                                   /\ \A f \in DOMAIN form'.errorMap \ form'.pending : ~Right(f)
            /\ form.formSubmitted /\ ~form'.formSubmitted =>
                  \E f \in Fields :
                     /\ form.requests[f] # NoData /\ Refuses(f, form.requests[f])
                     /\ form'.errorMap[f] = "remote"
                     /\ HasSummary => /\ form'.summary.class = "errors"
                                      /\ form'.summary.items = form'.errorMap
                     /\ \A g \in DOMAIN form'.errorMap : Replace[g] # "absent" =>
                           /\ form'.span[g].class = "error"
                           /\ Replace[g] = "true" => form'.span[g].text = form'.errorMap[g]]_vars
  BY <1>2 DEF Explains, CalledOff
<1> QED  BY <1>3, Invariant, PTL DEF Spec, RefusalExplained

=============================================================================
