--------------------------- MODULE MCActionHandling ---------------------------
(***************************************************************************)
(* Two handlers; orders and instant actions that are right, or wrong in    *)
(* one way, with ids that may be used again.                               *)
(***************************************************************************)
EXTENDS ActionHandling, TLC

CONSTANTS a, b

MCId        == {a, b}
MCText      == {"1", "01", "5", "9", "5cm", "yes", "much"}
MCIntegerOf == ("1" :> 1) @@ ("01" :> 1) @@ ("5" :> 5) @@ ("9" :> 9)
MCFloatOf   == MCIntegerOf @@ ("5cm" :> 5)
MCBooleanOf == ("1" :> TRUE) @@ ("yes" :> TRUE)

ParameterRange(key, type, min, max, values) ==
  [key |-> key, type |-> type, min |-> min, max |-> max, values |-> values]

Declaration(type, required, optional, blocking, contexts) ==
  [type |-> type, required |-> required, optional |-> optional, blocking |-> blocking,
   contexts |-> contexts]

Lift ==
  Declaration("lift", {ParameterRange("height", "integer", {1}, {5}, {})},
              {ParameterRange("gently", "boolean", {}, {}, {{"yes"}}), ParameterRange("speed", "float", {}, {5}, {}),
               ParameterRange("side", "string", {}, {}, {})},
              {"HARD"}, {"node"})
Beep == Declaration("beep", {}, {}, BlockingTypes, ActionContext)

MCHandlers == << {Lift}, {Beep, Declaration("blink", {}, {}, {"NONE"}, {"edge"})} >>

P(key, value) == [key |-> key, value |-> value]

Item(id, type, blocking, params, context, released) ==
  [action |-> [id |-> id, type |-> type, blocking |-> blocking, params |-> params],
   context |-> context, released |-> released]

Lifting(params)  == Item(a, "lift", "HARD", params, "node", TRUE)
Beeping(id, context) == Item(id, "beep", "SOFT", <<>>, context, TRUE)

Order(items, zones) == [kind |-> "order", items |-> items, zones |-> zones]
Instant(items)      == [kind |-> "instantActions", items |-> items, zones |-> {}]

Liftings ==
  {<<P("height", "5"), P("speed", "5cm")>>, <<P("height", "01"), P("gently", "yes"), P("side", "much")>>,
   <<P("height", "9")>>, <<P("height", "5cm")>>, <<>>, <<P("height", "5"), P("height", "1")>>,
   <<P("height", "1"), P("gently", "1")>>, <<P("side", "much")>>, <<P("height", "1"), P("depth", "1")>>}

MCMessages ==
  {Order(<<Lifting(params)>>, {}) : params \in Liftings} \cup
  {Order(<<Lifting(<<P("height", "1")>>), Beeping(b, "edge")>>, {"z1"}),
   Order(<<Beeping(b, "node"), Item(a, "lift", "NONE", <<P("height", "1")>>, "edge", TRUE)>>, {}),
   Order(<<Beeping(a, "edge"), Beeping(a, "edge")>>, {"z2"}),
   Order(<<Beeping(a, "edge"), Item(b, "blink", "NONE", <<>>, "edge", FALSE)>>, {}),
   Instant(<<Beeping(a, "instant")>>),
   Instant(<<Item(b, "startPause", "HARD", <<>>, "instant", TRUE), Beeping(a, "instant")>>),
   Instant(<<Item(b, "fly", "NONE", <<>>, "instant", TRUE)>>)}
MCZoneSets == {{"z1"}}

\* action_event.h:65 says of keep "This will be true, when it was received in an Order's
\* Base or in as an instant action": the scheduler starts no instant action whose handler
\* was never called.
InstantActionsAreKept ==
  faults = 0 /\ queue = <<>> =>
    \A n \in accepted : sent[n].kind = "instantActions" =>
      \A id \in IdsOf(sent[n].items) : task[id] = "Initializing" => told[id] # "nothing"
===============================================================================
