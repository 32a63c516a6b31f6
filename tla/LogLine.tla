------------------------------ MODULE LogLine --------------------------------
(***************************************************************************)
(* The text of a field of <id>.log (audit.py, _format_event and _quote):   *)
(* a line is key=value pairs with spaces between them.  A text is a        *)
(* sequence of characters here; only the fields that may hold anything are *)
(* looked at.  Those the events of AuditLog do not have (the names of the  *)
(* runbook and the target, what a notifier says of its destination and its *)
(* error) are taken for any of Texts.                                      *)
(***************************************************************************)
EXTENDS Engine, SequencesExt

CONSTANT Characters   \* the characters of Texts and of the engine's own reasons

(* A text is its characters; the text null cannot be told from None.       *)
ASSUME CharactersAssumption ==
  /\ DOMAIN Characters = (Texts \ {NoText}) \union {UnknownFailure, ExpectationMismatch}
  /\ NoText \notin {UnknownFailure, ExpectationMismatch}
  /\ \A t \in DOMAIN Characters :
       Characters[t] \in Seq(ToSet(Characters[t])) /\ Characters[t] # <<"null">>
  /\ \A t, u \in DOMAIN Characters : Characters[t] = Characters[u] => t = u

Backslash == "\\"
Quotation == "\""
LineBreak == "\n"
(* isspace, as far as texts have it                                        *)
WhiteSpace == {" ", "\t", LineBreak, "\f", "\r"}

Holds(text, S) == ToSet(text) \intersect S # {}

(* A slip: backslashes are printed as they are.                            *)
EscapedQuotes(text) ==
  FlattenSeq([i \in DOMAIN text |->
                IF text[i] = Quotation THEN <<Backslash, text[i]>> ELSE <<text[i]>>])

Escaped(text) ==
  FlattenSeq([i \in DOMAIN text |->
                IF text[i] \in {Backslash, Quotation} THEN <<Backslash, text[i]>>
                                                      ELSE <<text[i]>>])

(* _quote of None, and of a text                                           *)
Quoted(value) ==
  IF value = NoText THEN <<"null">>
  ELSE LET escaped == Escaped(Characters[value]) IN
       IF Holds(escaped, WhiteSpace \union {"="})
         THEN <<Quotation>> \o escaped \o <<Quotation>> ELSE escaped

(* The field of an event of AuditLog that may hold any text, if it has one.*)
FreeTexts(e) == CASE e.event = "step_attempt" -> {e.error}
                  [] e.event = "escalation" -> {e.reason}
                  [] OTHER -> {}

LoggedTexts == UNION {FreeTexts(textLog[i]) : i \in DOMAIN textLog}

(* Every event names the runbook and the target, and a notification has    *)
(* two free fields.                                                        *)
PrintedTexts == IF textLog = <<>> THEN {} ELSE LoggedTexts \union Texts

(* Where a value ends and what it was can be read off the log: no printed  *)
(* value with the space that ends it is the beginning of another one's, so *)
(* a text cannot pass for a shorter one and the fields after it            *)
(* (audit.py:188-197).  None and the text null are printed alike.          *)
FieldsReadBack ==
  \A u, v \in PrintedTexts :
     IsPrefix(Quoted(u) \o <<" ">>, Quoted(v) \o <<" ">>) => u = v

(* "One event per line" (docs/audit-model.md:60): neither the error of an  *)
(* attempt nor the reason of an escalation has a line break in it.         *)
OneEventPerLine == \A u \in LoggedTexts : ~Holds(Quoted(u), {LineBreak})
=============================================================================
