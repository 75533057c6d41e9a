----------------------------- MODULE ActionChecks -----------------------------
(***************************************************************************)
(* How an action is checked against the declaration of an action type      *)
(* (core/checks/action.cpp), which is what SimpleActionHandler,            *)
(* SimpleMultiActionHandler and the control instant actions do to validate *)
(* one.  An error is its errorType.                                        *)
(*                                                                         *)
(* A text is a parameter's value.  What it reads as (std::stol, std::stod, *)
(* parseBool) is given by constants; what was read is kept as the type it  *)
(* was read as and the text.  An optional bound or value set of a range is *)
(* a set of at most one.                                                   *)
(***************************************************************************)
EXTENDS Integers, Sequences

CONSTANTS
  Text,       \* the parameters' values
  IntegerOf,  \* the integer a text reads as
  FloatOf,    \* the number a text starts with
  BooleanOf   \* the truth value a text reads as

ASSUME TextAssumption ==
  /\ \A reads \in {IntegerOf, FloatOf, BooleanOf} : DOMAIN reads \subseteq Text
  /\ \A reads \in {IntegerOf, FloatOf} : reads \in [DOMAIN reads -> Int]

ParameterValueType == {"integer", "float", "boolean", "string"}
BlockingTypes      == {"NONE", "SOFT", "HARD"}
ActionContext      == {"node", "edge", "instant"}

\* ParameterRange; only numbers are bounded here, strings have no order.
IsRange(range) ==
  /\ range.type \in ParameterValueType
  /\ range.min \cup range.max \subseteq Int
  /\ range.type \notin {"integer", "float"} => range.min = {} /\ range.max = {}
  /\ \A V \in range.values : V \subseteq Text

\* ActionDeclaration; the key of a range is its identity in both sets.
IsDeclaration(decl) ==
  /\ \A range \in decl.required \cup decl.optional : IsRange(range)
  /\ \A r, s \in decl.required \cup decl.optional : r.key = s.key => r = s
  /\ decl.required \cap decl.optional = {}
  /\ decl.blocking \subseteq BlockingTypes
  /\ decl.contexts \subseteq ActionContext

-----------------------------------------------------------------------------

\* getInt reads the whole text, getFloat what it starts with, parseBool knows a few words.
Reads(type, text) ==
  \/ type = "integer" /\ text \in DOMAIN IntegerOf
  \/ type = "float" /\ text \in DOMAIN FloatOf
  \/ type = "boolean" /\ text \in DOMAIN BooleanOf
  \/ type = "string"

Number(type, text) == IF type = "integer" THEN IntegerOf[text] ELSE FloatOf[text]

\* The bounds compare what was read, the value set compares the text.
ensureParameterConstraints(range, text) ==
  IF /\ Reads(range.type, text)
     /\ \A m \in range.min : Number(range.type, text) >= m
     /\ \A m \in range.max : Number(range.type, text) <= m
     /\ \A V \in range.values : text \in V
  THEN {} ELSE {"InvalidActionParameterValue"}

contextCheck(context, decl) ==
  IF context \in decl.contexts THEN {} ELSE {"ActionContext"}

\* A parameter extracts the range of its key, so only the first of a key finds one.
Extracts(action, decl, i) ==
  {r \in decl.required \cup decl.optional :
     /\ r.key = action.params[i].key
     /\ \A j \in DOMAIN action.params : j < i => action.params[j].key # r.key}

CheckParameter(action, decl, i) ==
  IF Extracts(action, decl, i) = {} THEN {"UnknownActionParameter"}
  ELSE UNION {ensureParameterConstraints(r, action.params[i].value) : r \in Extracts(action, decl, i)}

\* What doInsert keeps of the parameter.
Inserted(action, decl, i) ==
  {[key |-> r.key, type |-> r.type, text |-> action.params[i].value] :
     r \in {r \in Extracts(action, decl, i) : CheckParameter(action, decl, i) = {}}}

\* A slip: nothing asks whether a required parameter is missing.
ValidateLeniently(action, context, decl) ==
  [errors |-> contextCheck(context, decl)
              \cup UNION {CheckParameter(action, decl, i) : i \in DOMAIN action.params},
   parsed |-> UNION {Inserted(action, decl, i) : i \in DOMAIN action.params}]

\* The errors, and the parameters for a handler to keep.
validateActionWithDeclaration(action, context, decl) ==
  LET params   == DOMAIN action.params
      found    == UNION {Extracts(action, decl, i) : i \in params}
      mismatch == IF action.type = decl.type THEN {} ELSE {"ActionTypeMismatch"}
      blocking == IF action.blocking \in decl.blocking THEN {} ELSE {"ActionBlockingTypeMismatch"}
      missing  == IF decl.required \subseteq found THEN {} ELSE {"MissingActionParameter"}
  IN [errors |-> mismatch \cup contextCheck(context, decl) \cup blocking \cup missing
                 \cup UNION {CheckParameter(action, decl, i) : i \in params},
      parsed |-> UNION {Inserted(action, decl, i) : i \in params}]

-----------------------------------------------------------------------------
(* What a declaration means *)

InRange(range, text) ==
  /\ range.type = "boolean" => text \in DOMAIN BooleanOf
  /\ range.type \in {"integer", "float"} =>
       LET reads == IF range.type = "integer" THEN IntegerOf ELSE FloatOf
       IN /\ text \in DOMAIN reads
          /\ {m \in range.min : m > reads[text]} = {}
          /\ {m \in range.max : m < reads[text]} = {}
  /\ range.values = {} \/ text \in UNION range.values

\* The declaration allows the action where it stands: its parameters are the required
\* ones and some of the optional ones, each once and each in its range.
Allowed(action, context, decl) ==
  LET Keys(ranges) == {r.key : r \in ranges}
      given        == {action.params[i].key : i \in DOMAIN action.params}
  IN /\ action.type = decl.type
     /\ context \in decl.contexts
     /\ action.blocking \in decl.blocking
     /\ \A i, j \in DOMAIN action.params : action.params[i].key = action.params[j].key => i = j
     /\ Keys(decl.required) \subseteq given
     /\ given \subseteq Keys(decl.required \cup decl.optional)
     /\ \A i \in DOMAIN action.params :
          \E r \in decl.required \cup decl.optional :
            r.key = action.params[i].key /\ InRange(r, action.params[i].value)
===============================================================================
