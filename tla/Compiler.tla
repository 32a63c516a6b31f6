------------------------------ MODULE Compiler -------------------------------
(***************************************************************************)
(* compile_file and compile_dict (compiler.py): the file is loaded; the    *)
(* schema's issues, the semantic ones and those of the template allowlist  *)
(* are collected; if there are none the templates are rendered, and if     *)
(* that goes well the runbook is built.                                    *)
(*                                                                         *)
(* A document is a record: entry and steps as in SemanticCheck, where a    *)
(* step also has texts (its template-capable fields in the order command,  *)
(* summary, title, message) and marked (its other keys, also those of      *)
(* notify, that hold template markup), vars (the variables, in the order of the file) and schema (the *)
(* codes of what the JSON schema finds).  The schema is opaque: one of its *)
(* issues may come with any others.                                        *)
(***************************************************************************)
EXTENDS SemanticCheck, Templates

CONSTANT RuntimeValues    \* what --var may define: functions from names to texts

ASSUME TextsAssumption ==
  /\ \A d \in Documents :
        /\ IsSequence(d.vars)
        /\ \A i \in DOMAIN d.vars :
              /\ d.vars[i].name \in Names
              /\ d.vars[i].isText \in BOOLEAN /\ IsSequence(d.vars[i].value)
              /\ \A j \in DOMAIN d.vars : d.vars[i].name = d.vars[j].name => i = j
        /\ \A i \in DOMAIN d.steps :
              /\ IsSequence(d.steps[i].texts)
              /\ \A j \in DOMAIN d.steps[i].texts : IsSequence(d.steps[i].texts[j])
  /\ \A given \in RuntimeValues :
        DOMAIN given \subseteq Names /\ \A n \in DOMAIN given : IsSequence(given[n])

VARIABLES stage,     \* the part of compile_file under way, or its end
          found      \* the codes of the issues collected before rendering

compileVars == <<checkVars, runtime, renderVars, stage, found>>

SchemaCodes == {"RBK101", "RBK102", "RBK103", "RBK105"}

(* A slip: the name is forgotten.                                          *)
ProhibitedWithoutName == {"id", "type", "on_success", "on_failure", "timeout",
                          "retries", "retry_delay"}

(* prohibited_keys; the keys of notify are not among them.                 *)
Prohibited == {"id", "type", "name", "on_success", "on_failure", "timeout",
               "retries", "retry_delay"}

AllowlistIssues ==
  IF \E i \in DOMAIN doc.steps : doc.steps[i].marked \intersect Prohibited # {}
    THEN {"RBK403"} ELSE {}

Fields == FlattenSeq([i \in DOMAIN doc.steps |-> doc.steps[i].texts])

Places == Len(doc.vars) + Len(Fields)

CompileInit == /\ CheckInit /\ TemplatesInit(RuntimeValues)
               /\ stage = "loading" /\ found = {}

(* open and safe_load raise, or the root of the file is no object.         *)
NotARunbook ==
  /\ stage = "loading"
  /\ \/ stage' = "unreadable" /\ UNCHANGED found
     \/ stage' = "refused" /\ found' = {"RBK101"}
  /\ UNCHANGED <<checkVars, runtime, renderVars>>

Load ==
  /\ stage = "loading"
  /\ stage' = "checking"
  /\ UNCHANGED <<checkVars, runtime, renderVars, found>>

Check == /\ stage = "checking" /\ CheckStep
         /\ UNCHANGED <<runtime, renderVars, stage, found>>

CollectIssues ==
  /\ stage = "checking" /\ phase = "done"
  /\ found' = doc.schema \union issues \union AllowlistIssues
  /\ stage' = IF found' = {} THEN "rendering" ELSE "refused"
  /\ UNCHANGED <<checkVars, runtime, renderVars>>

RenderStep ==
  /\ stage = "rendering"
  /\ RenderVariable(doc.vars) \/ RenderField(doc.vars, Fields)
  /\ UNCHANGED <<checkVars, stage, found>>

(* The template issues are raised, or the model is built.                  *)
Build ==
  /\ stage = "rendering" /\ pos > Places
  /\ stage' = IF templateIssues = {} THEN "compiled" ELSE "unrendered"
  /\ UNCHANGED <<checkVars, runtime, renderVars, found>>

Ended == \/ stage \in {"unreadable", "refused", "unrendered", "compiled"}
         \/ phase = "RecursionError"

CompileStep == Load \/ NotARunbook \/ Check \/ CollectIssues \/ RenderStep \/ Build

CompileNext == CompileStep \/ (Ended /\ UNCHANGED compileVars)

CompileSpec ==
  CompileInit /\ [][CompileNext]_compileVars /\ WF_compileVars(CompileStep)

----------------------------------------------------------------------------
RawValues == RawVars(doc.vars)
Known     == DOMAIN RawValues \union DOMAIN runtime
Given(n)  == IF n \in DOMAIN RawValues THEN RawValues[n] ELSE runtime[n]

Texts == {i \in DOMAIN doc.vars : doc.vars[i].isText}

Markup(text) == {text[i] : i \in DOMAIN text} \intersect (Names \union {Malformed})

(* Faulty whatever the other texts are.                                    *)
Faulty(text) == ~(Markup(text) \subseteq Known)

FaultyVariables == {i \in Texts : Faulty(doc.vars[i].value)}

FaultyFields == {i \in DOMAIN Fields : Faulty(Fields[i])}

(* What a reader of the file takes a variable for, the order of the file   *)
(* aside: its text with the texts of the others put in once.               *)
Meaning(n) ==
  IF \E i \in Texts : doc.vars[i].name = n
    THEN FlattenSeq([i \in DOMAIN RawValues[n] |->
                       IF RawValues[n][i] \in Names THEN Given(RawValues[n][i])
                                                    ELSE <<RawValues[n][i]>>])
    ELSE Given(n)

(* The fields of a compiled runbook do not depend on the order in which    *)
(* its variables are written, nor on the order of rendering: each has the  *)
(* meanings of the variables it names, and a variable of the runbook wins  *)
(* over one given with --var (compiler.py:331, 344).                       *)
FieldsSayWhatTheyMean ==
  stage = "compiled" =>
    rendered = [i \in DOMAIN Fields |->
                  FlattenSeq([j \in DOMAIN Fields[i] |->
                                IF Fields[i][j] \in Names THEN Meaning(Fields[i][j])
                                                          ELSE <<Fields[i][j]>>])]

(* No template text is left in a compiled runbook whose variables are not  *)
(* nested: no variable names one that holds markup itself, and no value    *)
(* that is not rendered, given with --var or not a text, holds any.        *)
NotNested ==
  /\ \A i \in DOMAIN doc.vars :
        IF i \in Texts
          THEN \A n \in References(doc.vars[i].value) : Markup(Given(n)) = {}
          ELSE Markup(doc.vars[i].value) = {}
  /\ \A n \in DOMAIN runtime : Markup(runtime[n]) = {}

NoMarkupLeft == \A i \in DOMAIN rendered : Markup(rendered[i]) = {}

PlainVariablesRenderFully == stage = "compiled" /\ NotNested => NoMarkupLeft

(* "Fully validated, compile-time rendered runbook model" (models.py:73):  *)
(* no field of a compiled runbook holds template text.                     *)
CompileTimeRendered == stage = "compiled" => NoMarkupLeft

(* One compilation names every faulty text, a variable or a field, and     *)
(* nothing else but fields that use a faulty variable: whoever corrects    *)
(* what it lists is told of nothing new (compiler.py:337, 363-392).        *)
FaultyPlacesReported ==
  stage \in {"unrendered", "compiled"} =>
    LET reported == {issue.at : issue \in templateIssues}
        faulty == FaultyVariables \union {Len(doc.vars) + i : i \in FaultyFields}
    IN /\ faulty \subseteq reported
       /\ \A at \in reported \ faulty :
             /\ at > Len(doc.vars)
             /\ \E i \in FaultyVariables :
                   doc.vars[i].name \in References(Fields[at - Len(doc.vars)])

(* The three collections and the rendering together accept exactly the     *)
(* documents with a clean schema, a sound graph, no markup under the eight *)
(* keys the code looks at and no faulty text (compiler.py:79-91).          *)
AcceptedExactly ==
  stage \in {"refused", "unrendered", "compiled"} /\ phase = "done" =>
    (stage = "compiled" <=>
       /\ doc.schema = {} /\ Expected = {}
       /\ \A i \in DOMAIN doc.steps :
             doc.steps[i].marked \intersect
               {"id", "type", "name", "on_success", "on_failure", "timeout",
                "retries", "retry_delay"} = {}
       /\ FaultyVariables = {} /\ FaultyFields = {})

(* "Template-capable fields (allowlist)" (docs/schema.md:105), and RBK403  *)
(* for a "template used in non-templated field" (docs/validation-errors.md:*)
(* 54): a compiled runbook has markup in no other field.                   *)
TemplatesOnlyWhereAllowed ==
  stage = "compiled" => \A i \in DOMAIN doc.steps : doc.steps[i].marked = {}

(* A compilation ends: with issues, with a runbook or with an exception.   *)
CompileEnds == <>Ended
=============================================================================
