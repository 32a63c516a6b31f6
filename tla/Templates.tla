------------------------------ MODULE Templates ------------------------------
(***************************************************************************)
(* Template rendering in the compiler (compiler.py, _render_templates):    *)
(* first the variables of the runbook in the order of the file, then the   *)
(* template-capable fields of its steps.                                   *)
(*                                                                         *)
(* A text is a sequence of pieces.  A piece that is one of Names is a      *)
(* reference to that variable, Malformed is markup jinja cannot parse, and *)
(* anything else is plain.  jinja renders a text once: the value of a      *)
(* variable is inserted as it is, also when it holds references itself.    *)
(***************************************************************************)
EXTENDS Integers, SequencesExt

CONSTANTS Names,       \* names of variables
          Malformed    \* a piece of text that is no template

ASSUME PieceAssumption == Malformed \notin Names

VARIABLES
  runtime,          \* runtime_vars: the values given with --var
  pos,              \* the next text: variables first, then fields
  renderedVars,     \* rendered_vars
  rendered,         \* the fields rendered so far
  templateIssues    \* the texts with an issue: their positions, its codes

renderVars == <<pos, renderedVars, rendered, templateIssues>>

References(text) == {text[i] : i \in DOMAIN text} \intersect Names

Substitute(text, context) ==
  FlattenSeq([i \in DOMAIN text |->
                IF text[i] \in Names THEN context[text[i]] ELSE <<text[i]>>])

(* The code of the issue _render_string returns; a text is parsed before   *)
(* any reference is looked up.                                             *)
TextIssue(text, context) ==
  IF \E i \in DOMAIN text : text[i] = Malformed THEN {"RBK402"}
  ELSE IF ~(References(text) \subseteq DOMAIN context) THEN {"RBK401"}
  ELSE {}

(* A variable of the runbook is a record; isText is FALSE for a number, a  *)
(* truth value and the like, which are not rendered.                       *)
RawVars(variables) ==
  [n \in {variables[i].name : i \in DOMAIN variables} |->
     variables[CHOOSE i \in DOMAIN variables : variables[i].name = n].value]

TemplatesInit(values) ==
  /\ runtime \in values
  /\ pos = 1 /\ renderedVars = <<>> /\ rendered = <<>> /\ templateIssues = {}

Report(codes) ==
  templateIssues' = templateIssues \union {[at |-> pos, code |-> c] : c \in codes}

(* {**below, **above}: of two values for a key the latter wins.            *)
Over(above, below) ==
  [n \in DOMAIN above \union DOMAIN below |->
     IF n \in DOMAIN above THEN above[n] ELSE below[n]]

(* A slip: the variables before it are taken as they were rendered.        *)
RenderedFirst(variables) == Over(renderedVars, Over(RawVars(variables), runtime))

(* {**runtime_vars, **rendered_vars, **raw_vars}: the last one wins.       *)
VariableContext(variables) == Over(RawVars(variables), Over(renderedVars, runtime))

(* A slip: the variable is looked through and kept as it is written.       *)
RawValue(v, context) == v.value

VariableValue(v, context) ==
  IF v.isText THEN Substitute(v.value, context) ELSE v.value

RenderVariable(variables) ==
  LET v == variables[pos]
      context == VariableContext(variables)
      codes == IF v.isText THEN TextIssue(v.value, context) ELSE {}
  IN /\ pos <= Len(variables)
     /\ Report(codes)
     /\ renderedVars' = IF codes # {} THEN renderedVars
                        ELSE Over([n \in {v.name} |-> VariableValue(v, context)],
                                  renderedVars)
     /\ pos' = pos + 1
     /\ UNCHANGED <<runtime, rendered>>

(* render_context: a variable of the runbook wins over one given with      *)
(* --var.                                                                  *)
FieldContext == Over(renderedVars, runtime)

(* A slip: after the first issue no other is looked for.                   *)
FieldIssueUnlessFailed(text) ==
  IF templateIssues = {} THEN TextIssue(text, FieldContext) ELSE {}

FieldIssue(text) == TextIssue(text, FieldContext)

RenderField(variables, fields) ==
  LET text == fields[pos - Len(variables)] IN
  /\ pos \in Len(variables) + 1 .. Len(variables) + Len(fields)
  /\ Report(FieldIssue(text))
  /\ rendered' = Append(rendered,
                        IF TextIssue(text, FieldContext) # {} THEN text
                        ELSE Substitute(text, FieldContext))
  /\ pos' = pos + 1
  /\ UNCHANGED <<runtime, renderedVars>>
=============================================================================
