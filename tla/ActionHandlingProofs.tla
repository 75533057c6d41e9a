------------------------- MODULE ActionHandlingProofs -------------------------
(***************************************************************************)
(* The invariants of ActionHandling, for every set of handlers, of messages*)
(* and of zone sets, and for every number of messages and of faults.       *)
(*                                                                         *)
(* Inv follows a message from its receipt to the callbacks: where it is    *)
(* (Line), what its validation found so far (Checked), what an accepted one*)
(* has (AcceptedSound, KeptWaits), what an id that is not with the         *)
(* scheduler has not (Untouched), what a store holds (StoresSound), and how*)
(* the events of an id fit to its task and its store (ActionThreadFollows).*)
(***************************************************************************)
EXTENDS ActionHandling, FiniteSetTheorems, SequenceTheorems, WellFoundedInduction, TLAPS

-----------------------------------------------------------------------------
(* The inductive invariant *)

ErrorType ==
  {"orderError", "zoneError", "controlError", "unknownActionType", "ActionTypeMismatch", "ActionContext",
   "ActionBlockingTypeMismatch", "MissingActionParameter", "UnknownActionParameter",
   "InvalidActionParameterValue"}

Message   == [kind : {"received", "valid"}, n : Nat]
Job       == [n : Nat, at : {"done", "checks", "zone", "actions"}, items : Seq(Items), errors : SUBSET ErrorType]
EventName == Callback \cup {"prepare", "forget"}
Events    == [name : EventName, id : Id]
Stores    ==
  [action : {item.action : item \in Items}, handler : DOMAIN Handlers,
   parsed : {NewStore(item).parsed : item \in {item \in Items : HandlerOf(item.action) # NoHandler}},
   state : BOOLEAN, callbacks : BOOLEAN]
TaskState == ActionState \cup {NoTask}
Telling   == Callback \cup {"nothing"}

TypeOK ==
  /\ sent \in Seq(Messages) /\ faults \in Nat
  /\ messages \in Seq(Message) /\ waiting \in Nat /\ validating \in Job
  /\ known \subseteq Id
  /\ DOMAIN store \subseteq Id /\ store \in [DOMAIN store -> Stores]
  /\ queue \in Seq(Events)
  /\ task \in [Id -> TaskState] /\ told \in [Id -> Telling]
  /\ ran \subseteq Stores /\ accepted \subseteq Nat /\ alive \subseteq Thread

\* Only the last message is under way, in one place.
Line ==
  /\ accepted \subseteq 1..Len(sent)
  /\ Len(messages) <= 1
  /\ messages # <<>> =>
       /\ messages[1].n = Len(sent) /\ Len(sent) # 0
       /\ validating.n = 0 /\ waiting = 0
       /\ messages[1].kind = "received" => Len(sent) \notin accepted
       /\ messages[1].kind = "valid" => Len(sent) \in accepted
  /\ validating.n # 0 => validating.n = Len(sent) /\ Len(sent) \notin accepted
  /\ waiting # 0 =>
       /\ waiting = Len(sent) /\ Len(sent) \notin accepted
       /\ sent[Len(sent)].kind = "order"

ItemAt(n, i) == sent[n].items[i]

\* How many items of the message under validation are validated.
ItemsDone == Len(sent[validating.n].items) - Len(validating.items)

Differ(n) == \A i, j \in DOMAIN sent[n].items : ItemAt(n, i).action.id = ItemAt(n, j).action.id => i = j

\* An item whose handler keeps it once it is valid.
Kept(item) == Keep(item) /\ ~IsControl(item.action)

\* The item is valid, and has its store if its handler keeps it.
Found(n, i) ==
  LET item == ItemAt(n, i)
  IN /\ Answer(item) = {}
     /\ Kept(item) /\ UsedOnce(item.action.id) => IsHandled(item.action.id)

\* What validation has found so far.
Checked ==
  validating.n # 0 =>
    /\ validating.at \in {"checks", "zone", "actions"}
    /\ ItemsDone >= 0
    /\ \A j \in 1..Len(validating.items) : validating.items[j] = ItemAt(validating.n, ItemsDone + j)
    /\ validating.at \in {"checks", "zone"} => ItemsDone = 0
    /\ validating.errors = {} =>
         /\ validating.at # "checks" => Differ(validating.n)
         /\ \A i \in 1..ItemsDone : Found(validating.n, i)

\* An accepted message is valid.
AcceptedSound ==
  \A n \in accepted :
    /\ Differ(n)
    /\ \A i \in DOMAIN sent[n].items : Answer(ItemAt(n, i)) = {}

\* The accepted messages whose actions are with the scheduler.
Handled == {n \in accepted : messages = <<>> \/ n # Len(sent)}

Released(n) == {i \in DOMAIN sent[n].items : ItemAt(n, i).released}

\* The id is one of a base, or of an instant action, with the scheduler.
InBase(id) == \E n \in Handled : \E i \in Released(n) : ItemAt(n, i).action.id = id

\* A valid message finds its stores.
KeptWaits ==
  \A n \in accepted \ Handled : \A i \in Released(n) : Found(n, i)

\* Nothing happens to an id that is not with the scheduler.
Untouched ==
  \A id \in Id :
    /\ id \in known \/ (\E k \in DOMAIN queue : queue[k].id = id) \/ told[id] # "nothing" => InBase(id)
    /\ task[id] # NoTask =>
         \E n \in Handled : \E i \in Released(n) : ItemAt(n, i).action.id = id /\ ~IsControl(ItemAt(n, i).action)

\* A store is of an action that was found valid.
Sound(s) ==
  \E d \in Handlers[s.handler] : \E context \in {"node", "edge"} :
    /\ Allowed(s.action, context, d)
    /\ \A r \in d.required : \E p \in s.parsed : p.key = r.key /\ p.type = r.type

StoresSound ==
  /\ \A id \in DOMAIN store :
       /\ Sound(store[id])
       /\ \E n \in DOMAIN sent : \E i \in DOMAIN sent[n].items :
            ItemAt(n, i).action.id = id /\ ~IsControl(ItemAt(n, i).action)
  /\ \A s \in ran : Sound(s)

Prepared(id) == store[id].state /\ store[id].callbacks

\* A callback of the id would find its functions set, or no action to handle.
Settled(id) == ~IsHandled(id) \/ Prepared(id)

\* A callback comes after prepare set it.
Ready(id) ==
  /\ task[id] # NoTask => Settled(id) \/ \E k \in DOMAIN queue : queue[k] = Event("prepare", id)
  /\ \A k \in DOMAIN queue : queue[k].id = id /\ queue[k].name \in Callback =>
       Settled(id) \/ \E j \in 1..k-1 : queue[j] = Event("prepare", id)

\* The action of the id is of an order, not a control action, and with the scheduler.
OfOrder(id) ==
  \E n \in Handled : \E i \in Released(n) :
    ItemAt(n, i).action.id = id /\ Kept(ItemAt(n, i))

Calls(id) == {queue[k].name : k \in {k \in DOMAIN queue : queue[k].id = id}}

\* The events of the id and its store fit to its task.
Follows(id) ==
  /\ task[id] \in ActionState \ ActionTerminal => IsHandled(id) /\ "forget" \notin Calls(id)
  /\ task[id] = "Waiting" => Calls(id) \cap Callback = {}
  /\ task[id] = "Initializing" =>
       /\ Calls(id) \cap Callback \subseteq {"start"}
       /\ "start" \in Calls(id) \/ told[id] = "start"
  /\ task[id] \in ActionTerminal \cup {NoTask} => ~IsHandled(id) \/ "forget" \in Calls(id)

ActionThreadFollows ==
  Goes("action") =>
    \A id \in Id : UsedOnce(id) => Ready(id) /\ (OfOrder(id) => Follows(id))

Inv ==
  /\ TypeOK /\ Line /\ Checked /\ AcceptedSound /\ KeptWaits /\ Untouched /\ StoresSound
  /\ ActionThreadFollows /\ ThreadsLive
-----------------------------------------------------------------------------
(* What the validation of an action finds *)

\* What a range accepts lies in it.
LEMMA ConstraintsMean ==
  ASSUME NEW range, NEW text, IsRange(range), text \in Text,
         ensureParameterConstraints(range, text) = {}
  PROVE  InRange(range, text)
<1>1. /\ Reads(range.type, text)
      /\ \A m \in range.min : Number(range.type, text) >= m
      /\ \A m \in range.max : Number(range.type, text) <= m
      /\ \A V \in range.values : text \in V
  BY DEF ensureParameterConstraints
<1>2. range.values = {} \/ text \in UNION range.values
  BY <1>1
<1>3. range.min \subseteq Int /\ range.max \subseteq Int /\ range.type \in ParameterValueType
  BY DEF IsRange
<1>4. CASE range.type = "integer"
  <2>1. text \in DOMAIN IntegerOf /\ Number(range.type, text) = IntegerOf[text]
    BY <1>1, <1>4 DEF Reads, Number
  <2>2. IntegerOf[text] \in Int
    BY <2>1, TextAssumption
  <2>3. \A m \in range.min : ~(m > IntegerOf[text])
    BY <1>1, <1>3, <2>1, <2>2
  <2>4. \A m \in range.max : ~(m < IntegerOf[text])
    BY <1>1, <1>3, <2>1, <2>2
  <2> QED
    BY <1>2, <1>4, <2>1, <2>3, <2>4 DEF InRange
<1>5. CASE range.type = "float"
  <2>1. text \in DOMAIN FloatOf /\ Number(range.type, text) = FloatOf[text]
    BY <1>1, <1>5 DEF Reads, Number
  <2>2. FloatOf[text] \in Int
    BY <2>1, TextAssumption
  <2>3. \A m \in range.min : ~(m > FloatOf[text])
    BY <1>1, <1>3, <2>1, <2>2
  <2>4. \A m \in range.max : ~(m < FloatOf[text])
    BY <1>1, <1>3, <2>1, <2>2
  <2> QED
    BY <1>2, <1>5, <2>1, <2>3, <2>4 DEF InRange
<1>6. CASE range.type \in {"boolean", "string"}
  BY <1>1, <1>2, <1>6 DEF InRange, Reads
<1> QED
  BY <1>3, <1>4, <1>5, <1>6 DEF ParameterValueType

\* An action without errors is allowed, and each required parameter is kept for its handler.
LEMMA ValidMeans ==
  ASSUME NEW action, NEW context, NEW decl, IsAction(action), IsDeclaration(decl),
         validateActionWithDeclaration(action, context, decl).errors = {}
  PROVE  /\ Allowed(action, context, decl)
         /\ \A r \in decl.required :
              \E p \in validateActionWithDeclaration(action, context, decl).parsed :
                p.key = r.key /\ p.type = r.type
<1> DEFINE params == DOMAIN action.params
           found  == UNION {Extracts(action, decl, i) : i \in params}
<1>1. /\ action.type = decl.type
      /\ contextCheck(context, decl) = {}
      /\ action.blocking \in decl.blocking
      /\ decl.required \subseteq found
      /\ UNION {CheckParameter(action, decl, i) : i \in params} = {}
  BY DEF validateActionWithDeclaration
<1>2. context \in decl.contexts
  BY <1>1 DEF contextCheck
<1>3. \A i \in params : CheckParameter(action, decl, i) = {}
  BY <1>1
<1>4. \A i \in params : Extracts(action, decl, i) # {}
  BY <1>3 DEF CheckParameter
<1>5. \A i \in params : \A r \in Extracts(action, decl, i) :
        ensureParameterConstraints(r, action.params[i].value) = {}
  BY <1>3, <1>4 DEF CheckParameter
<1>6. \A i \in params : \A r \in Extracts(action, decl, i) :
        /\ r \in decl.required \cup decl.optional
        /\ r.key = action.params[i].key
        /\ \A j \in params : j < i => action.params[j].key # r.key
  BY DEF Extracts
<1>7. \A i \in params : i \in Int
  BY DEF IsAction
<1>8. \A i, j \in params : action.params[i].key = action.params[j].key => i = j
  <2> SUFFICES ASSUME NEW i \in params, NEW j \in params,
                      action.params[i].key = action.params[j].key
               PROVE  ~(i < j)
    BY <1>7
  <2>1. PICK r \in Extracts(action, decl, j) : TRUE
    BY <1>4
  <2> QED
    BY <1>6, <2>1
<1>9. {r.key : r \in decl.required} \subseteq {action.params[i].key : i \in params}
  <2> SUFFICES ASSUME NEW r \in decl.required PROVE \E i \in params : action.params[i].key = r.key
    OBVIOUS
  <2>1. PICK i \in params : r \in Extracts(action, decl, i)
    BY <1>1
  <2> QED
    BY <1>6, <2>1
<1>10. \A i \in params : \E r \in decl.required \cup decl.optional :
         r.key = action.params[i].key /\ InRange(r, action.params[i].value)
  <2> SUFFICES ASSUME NEW i \in params
               PROVE  \E r \in decl.required \cup decl.optional :
                        r.key = action.params[i].key /\ InRange(r, action.params[i].value)
    OBVIOUS
  <2>1. PICK r \in Extracts(action, decl, i) : TRUE
    BY <1>4
  <2>2. IsRange(r)
    BY <1>6, <2>1 DEF IsDeclaration
  <2>3. action.params[i].value \in Text
    BY DEF IsAction
  <2>4. InRange(r, action.params[i].value)
    BY <1>5, <2>2, <2>3, ConstraintsMean
  <2> QED
    BY <1>6, <2>1, <2>4
<1>11. {action.params[i].key : i \in params} \subseteq {r.key : r \in decl.required \cup decl.optional}
  BY <1>10
<1>12. Allowed(action, context, decl)
  BY <1>1, <1>2, <1>8, <1>9, <1>10, <1>11 DEF Allowed
<1>13. ASSUME NEW r \in decl.required
       PROVE  \E p \in validateActionWithDeclaration(action, context, decl).parsed :
                p.key = r.key /\ p.type = r.type
  <2>1. PICK i \in params : r \in Extracts(action, decl, i)
    BY <1>1
  <2> DEFINE p == [key |-> r.key, type |-> r.type, text |-> action.params[i].value]
  <2>2. p \in Inserted(action, decl, i)
    BY <1>3, <2>1 DEF Inserted
  <2>3. p \in validateActionWithDeclaration(action, context, decl).parsed
    BY <2>2 DEF validateActionWithDeclaration
  <2> QED
    BY <2>3
<1> QED
  BY <1>12, <1>13

\* An error is its type.
LEMMA ErrorsAreNames ==
  ASSUME NEW action, NEW context, NEW decl
  PROVE  validateActionWithDeclaration(action, context, decl).errors \in SUBSET ErrorType
<1>1. ASSUME NEW r, NEW text
      PROVE  ensureParameterConstraints(r, text) \in {{}, {"InvalidActionParameterValue"}}
  <2>1. \/ ensureParameterConstraints(r, text) = {}
        \/ ensureParameterConstraints(r, text) = {"InvalidActionParameterValue"}
    BY Zenon DEF ensureParameterConstraints
  <2> QED
    BY <2>1, Zenon
<1>2. ASSUME NEW i
      PROVE  CheckParameter(action, decl, i) \in SUBSET ErrorType
  <2>1. CASE Extracts(action, decl, i) = {}
    BY <2>1 DEF CheckParameter, ErrorType
  <2>2. CASE Extracts(action, decl, i) # {}
    <3>1. CheckParameter(action, decl, i) =
            UNION {ensureParameterConstraints(r, action.params[i].value) : r \in Extracts(action, decl, i)}
      BY <2>2 DEF CheckParameter
    <3> QED
      BY <1>1, <3>1 DEF ErrorType
  <2> QED
    BY <2>1, <2>2
<1>3. contextCheck(context, decl) \in SUBSET ErrorType
  BY DEF contextCheck, ErrorType
<1>4. UNION {CheckParameter(action, decl, i) : i \in DOMAIN action.params} \in SUBSET ErrorType
  BY <1>2
<1> QED
  BY <1>3, <1>4 DEF validateActionWithDeclaration, ErrorType

\* A set of numbers has a least one.
LEMMA LeastNumber ==
  ASSUME NEW T \in SUBSET Nat, T # {}
  PROVE  \E x \in T : \A y \in T : x <= y
<1> DEFINE R == {ss \in Nat \X Nat : ss[1] < ss[2]}
<1>1. IsWellFoundedOn(R, Nat)
  BY NatLessThanWellFounded, Zenon DEF OpToRel
<1>2. \E x \in T : \A y \in T : ~(<<y, x>> \in R)
  <2> HIDE DEF R
  <2> QED
    BY <1>1, WFMin
<1>3. PICK x \in T : \A y \in T : ~(<<y, x>> \in R)
  BY <1>2
<1>4. ASSUME NEW y \in T PROVE x <= y
  <2>1. <<y, x>> \notin R
    BY <1>3
  <2>2. ~(y < x)
    BY <2>1
  <2> QED
    BY <2>2
<1> QED
  BY <1>4

LEMMA HandlerFound ==
  ASSUME NEW action, HandlerOf(action) # NoHandler
  PROVE  HandlerOf(action) \in DOMAIN Handlers /\ Matching(Handlers[HandlerOf(action)], action) # {}
<1> DEFINE matching == {h \in DOMAIN Handlers : Matching(Handlers[h], action) # {}}
<1>1. matching # {}
  BY DEF HandlerOf
<1>2. matching \in SUBSET Nat
  BY HandlingAssumption
<1>3. \E h \in matching : \A g \in matching : h <= g
  <2> HIDE DEF matching
  <2> QED
    BY <1>1, <1>2, LeastNumber
<1>4. HandlerOf(action) = CHOOSE h \in matching : \A g \in matching : h <= g
  BY <1>1 DEF HandlerOf
<1>5. HandlerOf(action) \in matching
  <2> HIDE DEF matching
  <2> QED
    BY <1>3, <1>4
<1> QED
  BY <1>5

LEMMA ControlIsDeclared == \A d \in ControlDeclarations : IsDeclaration(d)
  BY DEF ControlDeclarations, IsDeclaration, BlockingTypes, ActionContext

\* What a handler validates without errors it declares.
LEMMA ValidatedMeans ==
  ASSUME NEW decls, NEW item \in Items, \A d \in decls : IsDeclaration(d),
         Matching(decls, item.action) # {}, Validated(decls, item).errors = {}
  PROVE  \E d \in decls :
           /\ Allowed(item.action, item.context, d)
           /\ \A r \in d.required : \E p \in Validated(decls, item).parsed : p.key = r.key /\ p.type = r.type
<1> DEFINE d == CHOOSE d \in Matching(decls, item.action) : TRUE
<1>1. d \in Matching(decls, item.action)
  OBVIOUS
<1>2. d \in decls
  BY <1>1 DEF Matching
<1>3. IsAction(item.action)
  BY HandlingAssumption
<1>4. Validated(decls, item) = validateActionWithDeclaration(item.action, item.context, d)
  BY DEF Validated
<1>5. IsDeclaration(d)
  BY <1>2
<1> HIDE DEF d
<1>6. /\ Allowed(item.action, item.context, d)
      /\ \A r \in d.required :
           \E p \in validateActionWithDeclaration(item.action, item.context, d).parsed :
             p.key = r.key /\ p.type = r.type
  BY <1>3, <1>4, <1>5, ValidMeans
<1> QED
  BY <1>2, <1>4, <1>6

LEMMA AnswerIsNamed ==
  ASSUME NEW item
  PROVE  Answer(item) \in SUBSET ErrorType
  BY ErrorsAreNames DEF Answer, Validated, ErrorType

\* An item with no error is declared for where it stands.
LEMMA AnswerMeans ==
  ASSUME NEW item \in Items, Answer(item) = {}
  PROVE  DeclaredFor(item)
<1>1. CASE IsControl(item.action)
  <2>1. Validated(ControlDeclarations, item).errors = {} /\ Matching(ControlDeclarations, item.action) # {}
    BY <1>1 DEF Answer, IsControl
  <2> QED
    BY <2>1, ControlIsDeclared, ValidatedMeans DEF DeclaredFor
<1>2. CASE ~IsControl(item.action)
  <2> DEFINE h == HandlerOf(item.action)
  <2>1. h # NoHandler /\ Validated(Handlers[h], item).errors = {}
    BY <1>2 DEF Answer
  <2>2. h \in DOMAIN Handlers /\ Matching(Handlers[h], item.action) # {}
    BY <2>1, HandlerFound
  <2>3. \A d \in Handlers[h] : IsDeclaration(d)
    BY <2>2, HandlingAssumption
  <2>4. PICK d \in Handlers[h] : Allowed(item.action, item.context, d)
    BY <2>1, <2>2, <2>3, ValidatedMeans
  <2> QED
    BY <2>2, <2>4 DEF DeclaredFor
<1> QED
  BY <1>1, <1>2

\* What is stored for a valid item.
LEMMA NewStoreMeans ==
  ASSUME NEW item \in Items, Answer(item) = {}, Kept(item)
  PROVE  /\ HandlerOf(item.action) # NoHandler
         /\ NewStore(item) \in Stores
         /\ Sound(NewStore(item))
<1> DEFINE h == HandlerOf(item.action)
<1>1. h # NoHandler /\ Validated(Handlers[h], item).errors = {}
  BY DEF Answer, Kept
<1>2. h \in DOMAIN Handlers /\ Matching(Handlers[h], item.action) # {}
  BY <1>1, HandlerFound
<1>3. \A d \in Handlers[h] : IsDeclaration(d)
  BY <1>2, HandlingAssumption
<1>4. NewStore(item) \in Stores
  BY <1>1, <1>2 DEF NewStore, Stores
<1>5. item.context \in {"node", "edge"}
  BY HandlingAssumption DEF Kept, Keep, ActionContext
<1>6. NewStore(item).handler = h /\ NewStore(item).action = item.action
      /\ NewStore(item).parsed = Validated(Handlers[h], item).parsed
  BY DEF NewStore
<1>7. Sound(NewStore(item))
  BY <1>1, <1>2, <1>3, <1>5, <1>6, ValidatedMeans DEF Sound
<1> QED
  BY <1>1, <1>4, <1>7

-----------------------------------------------------------------------------
(* Sequences *)

LEMMA HeadAndTail ==
  ASSUME NEW S, NEW s \in Seq(S), s # <<>>
  PROVE  /\ s[1] \in S /\ Head(s) = s[1] /\ Tail(s) \in Seq(S)
         /\ Len(s) \in Nat \ {0} /\ Len(Tail(s)) = Len(s) - 1
         /\ \A i \in 1..Len(Tail(s)) : Tail(s)[i] = s[i + 1]
  OBVIOUS

LEMMA OnlyElement ==
  ASSUME NEW S, NEW s \in Seq(S), s # <<>>, Len(s) <= 1
  PROVE  Len(s) = 1 /\ Head(s) = s[1] /\ Tail(s) = <<>>
<1>1. Len(s) \in Nat \ {0} /\ Tail(s) \in Seq(S) /\ Len(Tail(s)) = Len(s) - 1 /\ Head(s) = s[1]
  BY HeadAndTail
<1>2. Len(s) = 1
  BY <1>1
<1>3. \A q \in Seq(S) : q # <<>> => Len(q) \in Nat \ {0}
  BY EmptySeq
<1>4. Len(Tail(s)) = 0
  BY <1>1, <1>2
<1>5. Tail(s) = <<>>
  BY <1>1, <1>3, <1>4
<1> QED
  BY <1>1, <1>2, <1>5

LEMMA Appended ==
  ASSUME NEW S, NEW s \in Seq(S), NEW x \in S
  PROVE  /\ Append(s, x) \in Seq(S)
         /\ Len(Append(s, x)) = Len(s) + 1 /\ Len(s) \in Nat
         /\ \A i \in 1..Len(s) : Append(s, x)[i] = s[i]
         /\ Append(s, x)[Len(s) + 1] = x
         /\ Append(s, x) # <<>>
  OBVIOUS

LEMMA Joined ==
  ASSUME NEW S, NEW s \in Seq(S), NEW t \in Seq(S)
  PROVE  /\ s \o t \in Seq(S)
         /\ Len(s \o t) = Len(s) + Len(t) /\ Len(s) \in Nat /\ Len(t) \in Nat
         /\ \A i \in 1..Len(s) : (s \o t)[i] = s[i]
         /\ \A i \in 1..Len(t) : (s \o t)[Len(s) + i] = t[i]
         /\ s # <<>> => s \o t # <<>>
  OBVIOUS

LEMMA JoinedElements ==
  ASSUME NEW S, NEW s \in Seq(S), NEW t \in Seq(S)
  PROVE  \A k \in DOMAIN (s \o t) :
           \/ k \in DOMAIN s /\ (s \o t)[k] = s[k]
           \/ k > Len(s) /\ \E j \in DOMAIN t : (s \o t)[k] = t[j]
<1> TAKE k \in DOMAIN (s \o t)
<1>1. k \in 1..(Len(s) + Len(t))
  OBVIOUS
<1>2. CASE k <= Len(s)
  BY <1>1, <1>2, Joined
<1>3. CASE k > Len(s)
  <2>1. k - Len(s) \in DOMAIN t
    BY <1>1, <1>3
  <2>2. (s \o t)[k] = t[k - Len(s)]
    BY <1>1, <1>3
  <2> QED
    BY <1>3, <2>1, <2>2
<1> QED
  BY <1>1, <1>2, <1>3

\* The members of a finite set of numbers all stand in its ascending order.
LEMMA AscendingStands ==
  ASSUME NEW S \in SUBSET Int, IsFiniteSet(S), NEW order \in Ascending(S)
  PROVE  /\ DOMAIN order = 1..Cardinality(S) /\ Cardinality(S) \in Nat
         /\ {order[i] : i \in DOMAIN order} = S
<1> DEFINE C == 1..Cardinality(S)
<1>1. Cardinality(S) \in Nat
  BY FS_CardinalityType
<1>2. order \in [C -> S] /\ \A i, j \in C : i < j => order[i] < order[j]
  BY DEF Ascending
<1>3. \A i, j \in C : order[i] = order[j] => i = j
  <2> SUFFICES ASSUME NEW i \in C, NEW j \in C, order[i] = order[j]
               PROVE  ~(i < j)
    BY <1>1
  <2>1. order[i] \in Int /\ order[j] \in Int
    BY <1>2
  <2> QED
    BY <1>2, <2>1
<1>4. order \in Injection(C, S)
  BY <1>2, <1>3 DEF Injection, IsInjective
<1>5. IsFiniteSet(C) /\ Cardinality(C) = Cardinality(S)
  BY <1>1, FS_Interval
<1>6. order \in Surjection(C, S)
  <2> HIDE DEF C
  <2> QED
    BY <1>4, <1>5, FS_Injection
<1> QED
  BY <1>1, <1>2, <1>6 DEF Surjection

-----------------------------------------------------------------------------
(* The messages *)

LEMMA MessagesAre ==
  ASSUME NEW m \in Messages
  PROVE  /\ m.kind \in {"order", "instantActions"}
         /\ m.items \in Seq(Items) /\ DOMAIN m.items = 1..Len(m.items) /\ Len(m.items) \in Nat
         /\ \A i \in DOMAIN m.items :
              /\ m.items[i] \in Items
              /\ m.items[i].action.id \in Id
              /\ m.items[i].released \in BOOLEAN
              /\ m.kind = "order" <=> m.items[i].context # "instant"
<1>1. m.items \in Seq(Items) /\ m.kind \in {"order", "instantActions"}
  BY HandlingAssumption
<1>2. ASSUME NEW i \in DOMAIN m.items
      PROVE  m.items[i] \in Items /\ (m.kind = "order" <=> m.items[i].context # "instant")
  BY <1>1, <1>2, HandlingAssumption
<1>3. \A item \in Items : item.action.id \in Id /\ item.released \in BOOLEAN
  BY HandlingAssumption DEF IsAction
<1> QED
  BY <1>1, <1>2, <1>3

LEMMA SentAre ==
  ASSUME TypeOK
  PROVE  \A n \in DOMAIN sent :
           /\ sent[n] \in Messages
           /\ sent[n].kind \in {"order", "instantActions"}
           /\ sent[n].items \in Seq(Items)
           /\ DOMAIN sent[n].items = 1..Len(sent[n].items) /\ Len(sent[n].items) \in Nat
           /\ \A i \in DOMAIN sent[n].items :
                /\ ItemAt(n, i) \in Items
                /\ ItemAt(n, i).action.id \in Id
                /\ ItemAt(n, i).released \in BOOLEAN
                /\ sent[n].kind = "order" <=> ItemAt(n, i).context # "instant"
<1>1. \A n \in DOMAIN sent : sent[n] \in Messages
  BY DEF TypeOK
<1> QED
  BY <1>1, MessagesAre DEF ItemAt

-----------------------------------------------------------------------------
(* The steps *)

\* The scheduler and the AGV move a task; a task that waits is only started.
Moves(id, t) ==
  /\ Transition(id, t)
  /\ task[id] = "Waiting" => t = "do_start"

\* What a step is.
LEMMA NextCases ==
  ASSUME TypeOK, [Next]_vars
  PROVE  \/ \E m \in Messages : Send(m)
         \/ handleOrderMessage \/ handleInstantActionsMessage \/ ValidationTimesOut \/ handleValid
         \/ OrderChecks \/ ZoneAnswered \/ QueryThrows \/ QueryTimesOut
         \/ ValidateAction \/ ValidateThrows \/ Gather
         \/ Skip \/ handlePrepareEvent \/ PrepareThrows \/ handleCallbackEvent \/ handleForgetEvent
         \/ \E id \in Id : Dismiss(id)
         \/ \E id \in Id : \E t \in ActionTransition : Moves(id, t)
         \/ UNCHANGED vars
<1>1. ASSUME NEW id \in Id, Schedule(id)
      PROVE  \E t \in ActionTransition : Moves(id, t)
  BY <1>1 DEF Schedule, Moves, ActionTransition
<1>2. ASSUME NEW id \in Id, Control(id)
      PROVE  \E t \in ActionTransition : Moves(id, t)
  BY <1>2 DEF Control, Moves, ActionTransition
<1>3. ASSUME NEW id \in Id, Report(id)
      PROVE  \E t \in ActionTransition : Moves(id, t)
  <2>1. PICK t \in Answers[told[id]] : Transition(id, t)
    BY <1>3 DEF Report
  <2>2. told[id] \in Telling
    BY DEF TypeOK
  <2>3. t \in ActionReport
    BY <2>1, <2>2 DEF Telling, Callback, Answers, ActionReport
  <2>4. task[id] # "Waiting"
    BY <2>1, <2>3 DEF Transition, ActionReport, ActionAccepts
  <2> QED
    BY <2>1, <2>3, <2>4 DEF Moves, ActionTransition
<1> QED
  BY <1>1, <1>2, <1>3 DEF Next, MessageThread, ValidationThread, ActionThread

\* What moving a task does to it and to the queue.
LEMMA MovesEffect ==
  ASSUME TypeOK, NEW id \in Id, NEW t \in ActionTransition, Moves(id, t)
  PROVE  /\ task[id] \in ActionState \ ActionTerminal
         /\ \E s \in ActionState \ {"Waiting"} :
              /\ task' = [task EXCEPT ![id] = s]
              /\ s = "Initializing" => task[id] = "Waiting"
              /\ \/ s = "Initializing" /\ queue' = Append(queue, Event("start", id))
                 \/ /\ s \in {"Pausing", "Resuming", "Canceling"}
                    /\ \E name \in {"pause", "resume", "cancel"} : queue' = Append(queue, Event(name, id))
                 \/ s \in ActionTerminal /\ queue' = Append(queue, Event("forget", id))
                 \/ s \in {"InitializingNoEffect", "Running", "Paused"} /\ queue' = queue
<1> DEFINE s == ActionTarget[t]
<1>1. task[id] \in ActionState
  BY DEF TypeOK, TaskState, NoTask, Moves, Transition
<1>2. t \in ActionAccepts[task[id]] /\ task' = [task EXCEPT ![id] = s]
  BY DEF Moves, Transition
<1>3. task[id] \notin ActionTerminal
  BY <1>1, <1>2 DEF ActionTerminal, ActionAccepts
<1>4. s \in ActionState \ {"Waiting"} /\ (s = "Initializing" => t = "do_start")
  BY DEF ActionTarget, ActionTransition, ActionReport, ActionState
<1>5. t = "do_start" => task[id] = "Waiting"
  BY <1>1, <1>2 DEF ActionAccepts, ActionState
<1>6. queue' = queue \o [i \in DOMAIN Effect[s] |-> Event(Effect[s][i], id)]
  BY DEF Moves, Transition
<1>7. \A name : [i \in DOMAIN <<name>> |-> Event(<<name>>[i], id)] = <<Event(name, id)>>
  BY DEF Event
<1>8. \A name : Effect[s] = <<name>> => queue' = queue \o <<Event(name, id)>>
  BY <1>6, <1>7
<1>9. queue \in Seq(Events)
  BY DEF TypeOK
<1>10. ASSUME NEW name \in EventName
       PROVE  queue \o <<Event(name, id)>> = Append(queue, Event(name, id))
  <2>1. Event(name, id) \in Events
    BY DEF Event, Events
  <2> HIDE DEF Event
  <2> QED
    BY <1>9, <2>1
<1>11. \A name \in EventName : Effect[s] = <<name>> => queue' = Append(queue, Event(name, id))
  BY <1>8, <1>10
<1>12. Effect[s] = <<>> => queue' = queue
  <2>1. Effect[s] = <<>> => [i \in DOMAIN Effect[s] |-> Event(Effect[s][i], id)] = <<>>
    OBVIOUS
  <2> QED
    BY <1>6, <1>9, <2>1
<1>13. \/ s = "Initializing" /\ Effect[s] = <<"start">>
       \/ s = "Pausing" /\ Effect[s] = <<"pause">>
       \/ s = "Resuming" /\ Effect[s] = <<"resume">>
       \/ s = "Canceling" /\ Effect[s] = <<"cancel">>
       \/ s \in ActionTerminal /\ Effect[s] = <<"forget">>
       \/ s \in {"InitializingNoEffect", "Running", "Paused"} /\ Effect[s] = <<>>
  <2> HIDE DEF s
  <2> QED
    BY <1>4 DEF Effect, ActionState, ActionTerminal
<1>14. {"start", "pause", "resume", "cancel", "forget"} \subseteq EventName
  BY DEF EventName, Callback
<1>15. \/ s = "Initializing" /\ queue' = Append(queue, Event("start", id))
       \/ /\ s \in {"Pausing", "Resuming", "Canceling"}
          /\ \E name \in {"pause", "resume", "cancel"} : queue' = Append(queue, Event(name, id))
       \/ s \in ActionTerminal /\ queue' = Append(queue, Event("forget", id))
       \/ s \in {"InitializingNoEffect", "Running", "Paused"} /\ queue' = queue
  <2> HIDE DEF s
  <2> QED
    BY <1>11, <1>12, <1>13, <1>14
<1> HIDE DEF s
<1> QED
  BY <1>1, <1>2, <1>3, <1>4, <1>5, <1>15

LEMMA EventsAre ==
  \A name \in EventName : \A id \in Id :
    Event(name, id) \in Events /\ Event(name, id).name = name /\ Event(name, id).id = id
  BY DEF Event, Events

LEMMA TakesEffect ==
  ASSUME TypeOK, Line, NEW kind, Takes(kind)
  PROVE  /\ Head(messages) = messages[1] /\ messages[1].kind = kind /\ messages[1].n = Len(sent)
         /\ Len(sent) \in DOMAIN sent
         /\ messages # <<>> /\ messages' = <<>>
         /\ waiting = 0 /\ validating = Nothing
<1>1. messages \in Seq(Message) /\ messages # <<>> /\ Head(messages).kind = kind
  BY DEF TypeOK, Takes
<1>2. Len(messages) <= 1
  BY DEF Line
<1>3. Head(messages) = messages[1] /\ Tail(messages) = <<>>
  BY <1>1, <1>2, OnlyElement
<1>4. Len(sent) \in DOMAIN sent
  <2>1. sent \in Seq(Messages) /\ Len(sent) # 0
    BY <1>1 DEF TypeOK, Line
  <2> QED
    BY <2>1
<1> QED
  BY <1>1, <1>3, <1>4 DEF Takes, Line

\* What the interpreter yields of a valid message.
LEMMA handleValidEffect ==
  ASSUME TypeOK, Line, handleValid
  PROVE  LET n   == Len(sent)
             ids == {ItemAt(n, i).action.id : i \in Released(n)}
             new == {ItemAt(n, i).action.id : i \in {i \in Released(n) : ~IsControl(ItemAt(n, i).action)}}
         IN /\ n \in DOMAIN sent /\ n \in accepted /\ messages # <<>> /\ messages' = <<>>
            /\ known' \subseteq known \cup ids
            /\ task' = [id \in Id |-> IF id \in new THEN "Waiting" ELSE task[id]]
            /\ \E evs \in Seq(Events) :
                 /\ queue' = queue \o evs
                 /\ \A k \in DOMAIN evs : \E i \in Released(n) : evs[k] = Event("prepare", ItemAt(n, i).action.id)
                 /\ \A i \in Released(n) : \E k \in DOMAIN evs : evs[k] = Event("prepare", ItemAt(n, i).action.id)
<1> DEFINE n   == Len(sent)
           ids == {ItemAt(n, i).action.id : i \in Released(n)}
           new == {ItemAt(n, i).action.id : i \in {i \in Released(n) : ~IsControl(ItemAt(n, i).action)}}
<1>1. /\ Head(messages).n = n /\ n \in DOMAIN sent /\ messages # <<>> /\ messages' = <<>>
      /\ messages[1].kind = "valid"
  BY TakesEffect DEF handleValid
<1>2. n \in accepted
  BY <1>1 DEF Line
<1>3. Released(n) = {i \in DOMAIN sent[n].items : sent[n].items[i].released}
  BY DEF Released, ItemAt
<1>4. /\ known' = ids \cup (IF sent[n].kind = "order" THEN {} ELSE known)
      /\ task' = [id \in Id |-> IF id \in new THEN "Waiting" ELSE task[id]]
      /\ \E order \in Ascending(Released(n)) :
           queue' = queue \o [i \in DOMAIN order |-> Event("prepare", ItemAt(n, order[i]).action.id)]
  BY <1>1, <1>3 DEF handleValid, ItemAt
<1>5. PICK order \in Ascending(Released(n)) :
         queue' = queue \o [i \in DOMAIN order |-> Event("prepare", ItemAt(n, order[i]).action.id)]
  BY <1>4
<1>6. DOMAIN sent[n].items = 1..Len(sent[n].items) /\ Len(sent[n].items) \in Nat
      /\ \A i \in DOMAIN sent[n].items : ItemAt(n, i).action.id \in Id
  BY <1>1, SentAre
<1>7. Released(n) \in SUBSET Int /\ IsFiniteSet(Released(n))
  <2>1. Released(n) \in SUBSET (1..Len(sent[n].items))
    BY <1>6 DEF Released
  <2>2. IsFiniteSet(1..Len(sent[n].items))
    <3>1. 1 \in Int /\ Len(sent[n].items) \in Int
      BY <1>6
    <3> QED
      BY <3>1, FS_Interval
  <2>3. 1..Len(sent[n].items) \subseteq Int
    BY <1>6
  <2> QED
    BY <2>1, <2>2, <2>3, FS_Subset
<1>8. /\ DOMAIN order = 1..Cardinality(Released(n)) /\ Cardinality(Released(n)) \in Nat
      /\ {order[i] : i \in DOMAIN order} = Released(n)
  BY <1>5, <1>7, AscendingStands
<1> DEFINE evs == [i \in DOMAIN order |-> Event("prepare", ItemAt(n, order[i]).action.id)]
<1>9. \A k \in DOMAIN order : order[k] \in Released(n)
  BY <1>8
<1>10. \A k \in DOMAIN order : evs[k] \in Events
  <2>1. \A k \in DOMAIN order : ItemAt(n, order[k]).action.id \in Id
    BY <1>6, <1>9 DEF Released
  <2>2. "prepare" \in EventName
    BY DEF EventName
  <2> QED
    BY <2>1, <2>2, EventsAre
<1>11. evs \in Seq(Events)
  <2> HIDE DEF Events, Event, ItemAt
  <2> QED
    BY <1>8, <1>10
<1>12. \A k \in DOMAIN evs : \E i \in Released(n) : evs[k] = Event("prepare", ItemAt(n, i).action.id)
  BY <1>9
<1>13. \A i \in Released(n) : \E k \in DOMAIN evs : evs[k] = Event("prepare", ItemAt(n, i).action.id)
  <2> SUFFICES ASSUME NEW i \in Released(n)
               PROVE  \E k \in DOMAIN evs : evs[k] = Event("prepare", ItemAt(n, i).action.id)
    OBVIOUS
  <2>1. PICK k \in DOMAIN order : order[k] = i
    BY <1>8
  <2> QED
    BY <2>1
<1>14. \E evs_1 \in Seq(Events) :
         /\ queue' = queue \o evs_1
         /\ \A k \in DOMAIN evs_1 : \E i \in Released(n) : evs_1[k] = Event("prepare", ItemAt(n, i).action.id)
         /\ \A i \in Released(n) : \E k \in DOMAIN evs_1 : evs_1[k] = Event("prepare", ItemAt(n, i).action.id)
  <2>1. queue' = queue \o evs
    BY <1>5
  <2> HIDE DEF evs
  <2> QED
    BY <1>11, <1>12, <1>13, <2>1
<1>15. known' \subseteq known \cup ids
  BY <1>4
<1> QED
  BY <1>1, <1>2, <1>4, <1>14, <1>15

-----------------------------------------------------------------------------
(* Types *)

LEMMA TypeInit == ASSUME Init PROVE TypeOK
<1>1. /\ <<>> \in Seq(Messages) /\ <<>> \in Seq(Message) /\ <<>> \in Seq(Events) /\ <<>> \in Seq(Items)
      /\ <<>> \in [DOMAIN <<>> -> Stores] /\ DOMAIN <<>> = {}
  OBVIOUS
<1>2. Nothing \in Job
  BY <1>1 DEF Nothing, Job
<1>3. [id \in Id |-> NoTask] \in [Id -> TaskState] /\ [id \in Id |-> "nothing"] \in [Id -> Telling]
  BY DEF TaskState, Telling
<1> QED
  BY <1>1, <1>2, <1>3 DEF Init, TypeOK

LEMMA JobTypes ==
  ASSUME NEW job \in Job
  PROVE  /\ job.n \in Nat /\ job.items \in Seq(Items) /\ job.errors \in SUBSET ErrorType
         /\ job.at \in {"done", "checks", "zone", "actions"}
  BY DEF Job

\* Which job the checks of an order, the zone set query and the validation of an action leave.
LEMMA JobNext ==
  ASSUME TypeOK,
         OrderChecks \/ ZoneAnswered \/ ValidateAction
  PROVE  validating' \in Job
<1> USE DEF TypeOK
<1>1. CASE OrderChecks
  <2> DEFINE errors == Duplicates(validating.items) \cup (IF Idle THEN {} ELSE {"orderError"})
             at     == IF sent[validating.n].zones = {} THEN "actions" ELSE "zone"
  <2>1. errors \in SUBSET ErrorType
    BY DEF Duplicates, ErrorType
  <2>2. at \in {"actions", "zone"}
    OBVIOUS
  <2>3. validating' = [validating EXCEPT !.at = at, !.errors = errors]
    BY <1>1 DEF OrderChecks
  <2> HIDE DEF errors, at
  <2> QED
    BY <2>1, <2>2, <2>3 DEF Job
<1>2. CASE ZoneAnswered
  <2>1. PICK zone \in sent[validating.n].zones : \E errors \in ZoneAnswers(zone) :
          validating' = [validating EXCEPT !.at = "actions", !.errors = @ \cup errors]
    BY <1>2 DEF ZoneAnswered
  <2>2. ZoneAnswers(zone) \subseteq SUBSET ErrorType
    BY DEF ZoneAnswers, ErrorType
  <2>3. PICK errors \in SUBSET ErrorType : validating' = [validating EXCEPT !.at = "actions", !.errors = @ \cup errors]
    BY <2>1, <2>2
  <2> QED
    BY <2>3 DEF Job
<1>3. CASE ValidateAction
  <2>1. validating.items # <<>>
        /\ validating' = [validating EXCEPT !.items = Tail(@), !.errors = @ \cup Answer(Head(validating.items))]
    BY <1>3 DEF ValidateAction
  <2>2. Tail(validating.items) \in Seq(Items)
    <3> HIDE DEF TypeOK
    <3>1. validating.items \in Seq(Items)
      BY JobTypes DEF TypeOK
    <3> QED
      BY <2>1, <3>1, HeadAndTail
  <2>3. Answer(Head(validating.items)) \in SUBSET ErrorType
    BY AnswerIsNamed
  <2> QED
    BY <2>1, <2>2, <2>3 DEF Job
<1> QED
  BY <1>1, <1>2, <1>3

\* What a store is after the action event thread prepared it.
LEMMA PrepareEffect ==
  ASSUME TypeOK, NEW id \in DOMAIN store,
         NEW s,
         \/ s = [store EXCEPT ![id].state = TRUE, ![id].callbacks = TRUE]
         \/ s = [store EXCEPT ![id].state = TRUE]
  PROVE  /\ DOMAIN s = DOMAIN store /\ s \in [DOMAIN store -> Stores]
         /\ \A j \in DOMAIN store \ {id} : s[j] = store[j]
         /\ \/ s[id] = [store[id] EXCEPT !.state = TRUE, !.callbacks = TRUE]
            \/ s[id] = [store[id] EXCEPT !.state = TRUE]
         /\ s = [store EXCEPT ![id].state = TRUE, ![id].callbacks = TRUE] =>
              s[id].state /\ s[id].callbacks
<1>1. store \in [DOMAIN store -> Stores]
  BY DEF TypeOK
<1>2. store[id] \in Stores
  BY <1>1
<1>3. CASE s = [store EXCEPT ![id].state = TRUE, ![id].callbacks = TRUE]
  <2> DEFINE x == [store[id] EXCEPT !.state = TRUE, !.callbacks = TRUE]
  <2>1. s = [store EXCEPT ![id] = x]
    BY <1>1, <1>2, <1>3
  <2>2. x \in Stores /\ x.state /\ x.callbacks
    BY <1>2 DEF Stores
  <2> HIDE DEF x
  <2>3. s[id] = x /\ DOMAIN s = DOMAIN store /\ (\A j \in DOMAIN store \ {id} : s[j] = store[j])
        /\ s \in [DOMAIN store -> Stores]
    BY <1>1, <2>1, <2>2
  <2> QED
    BY <2>2, <2>3 DEF x
<1>4. CASE s = [store EXCEPT ![id].state = TRUE] /\ s # [store EXCEPT ![id].state = TRUE, ![id].callbacks = TRUE]
  <2> DEFINE x == [store[id] EXCEPT !.state = TRUE]
  <2>1. s = [store EXCEPT ![id] = x]
    BY <1>1, <1>2, <1>4
  <2>2. x \in Stores
    BY <1>2 DEF Stores
  <2> HIDE DEF x
  <2>3. s[id] = x /\ DOMAIN s = DOMAIN store /\ (\A j \in DOMAIN store \ {id} : s[j] = store[j])
        /\ s \in [DOMAIN store -> Stores]
    BY <1>1, <2>1, <2>2
  <2> QED
    BY <1>4, <2>2, <2>3 DEF x
<1> QED
  BY <1>3, <1>4

\* What the validation of an action does to the stores.
LEMMA ValidateEffect ==
  ASSUME TypeOK, ValidateAction
  PROVE  LET item == Head(validating.items)
         IN /\ item \in Items /\ item = validating.items[1]
            /\ DOMAIN store \subseteq DOMAIN store'
            /\ store' # store => Answer(item) = {} /\ Kept(item) /\ store' = insert_or_assign(item.action.id, NewStore(item))
            /\ Answer(item) = {} /\ Kept(item) => item.action.id \in DOMAIN store'
<1> DEFINE item == Head(validating.items)
<1>1. validating.items \in Seq(Items) /\ validating.items # <<>> /\ store' = Stored(item)
  BY JobTypes DEF TypeOK, ValidateAction
<1>2. item \in Items /\ item = validating.items[1]
  BY <1>1, HeadAndTail
<1>3. store' # store =>
        Answer(item) = {} /\ Kept(item) /\ store' = insert_or_assign(item.action.id, NewStore(item))
  BY <1>1 DEF Stored, Kept
<1>4. Answer(item) = {} /\ Kept(item) => store' = insert_or_assign(item.action.id, NewStore(item))
  BY <1>1, <1>2, NewStoreMeans DEF Stored, Kept
<1>5. DOMAIN insert_or_assign(item.action.id, NewStore(item)) = {item.action.id} \cup DOMAIN store
  BY DEF insert_or_assign
<1> QED
  BY <1>2, <1>3, <1>4, <1>5

LEMMA TypeNext ==
  ASSUME TypeOK, Line, [Next]_vars
  PROVE  TypeOK'
<1>0. /\ sent \in Seq(Messages) /\ faults \in Nat
      /\ messages \in Seq(Message) /\ waiting \in Nat /\ validating \in Job
      /\ known \subseteq Id
      /\ DOMAIN store \subseteq Id /\ store \in [DOMAIN store -> Stores]
      /\ queue \in Seq(Events)
      /\ task \in [Id -> TaskState] /\ told \in [Id -> Telling]
      /\ ran \subseteq Stores /\ accepted \subseteq Nat /\ alive \subseteq Thread
      /\ Len(sent) \in Nat
  BY DEF TypeOK
<1>1. Nothing \in Job
  <2>1. <<>> \in Seq(Items)
    OBVIOUS
  <2> QED
    BY <2>1 DEF Nothing, Job
<1>2. /\ \A n \in Nat : Received(n) \in Message /\ Valid(n) \in Message
      /\ \A n \in Nat : <<Received(n)>> \in Seq(Message)
  <2>1. \A n \in Nat : Received(n) \in Message /\ Valid(n) \in Message
    BY DEF Received, Valid, Message
  <2> QED
    BY <2>1
<1>3. ASSUME NEW m \in Messages, Send(m)
      PROVE  TypeOK'
  <2>1. sent' \in Seq(Messages) /\ messages' \in Seq(Message)
    BY <1>0, <1>2, <1>3 DEF Send
  <2> QED
    BY <1>0, <1>3, <2>1 DEF Send, TypeOK
<1>4. CASE handleOrderMessage
  <2>1. messages' = <<>> /\ Head(messages).n = Len(sent) /\ Len(sent) \in DOMAIN sent
    BY <1>4, TakesEffect DEF handleOrderMessage
  <2>2. sent[Len(sent)].items \in Seq(Items)
    BY <2>1, SentAre
  <2>3. /\ waiting' = Len(sent)
        /\ validating' = [n |-> Len(sent), at |-> "checks", items |-> sent[Len(sent)].items, errors |-> {}]
    BY <1>4, <2>1 DEF handleOrderMessage
  <2>4. validating' \in Job
    BY <1>0, <2>2, <2>3 DEF Job
  <2> QED
    BY <1>0, <1>4, <2>1, <2>3, <2>4 DEF handleOrderMessage, TypeOK
<1>5. CASE handleInstantActionsMessage
  <2>1. messages' = <<>> /\ Head(messages).n = Len(sent) /\ Len(sent) \in DOMAIN sent
    BY <1>5, TakesEffect DEF handleInstantActionsMessage
  <2>2. sent[Len(sent)].items \in Seq(Items)
    BY <2>1, SentAre
  <2> DEFINE errors == Duplicates(sent[Len(sent)].items)
  <2>3. validating' = [n |-> Len(sent), at |-> "actions", items |-> sent[Len(sent)].items, errors |-> errors]
    BY <1>5, <2>1 DEF handleInstantActionsMessage
  <2>4. errors \in SUBSET ErrorType
    BY DEF Duplicates, ErrorType
  <2> HIDE DEF errors
  <2>5. validating' \in Job
    BY <1>0, <2>2, <2>3, <2>4 DEF Job
  <2> QED
    BY <1>0, <1>5, <2>1, <2>5 DEF handleInstantActionsMessage, TypeOK
<1>6. CASE ValidationTimesOut
  <2>1. faults' \in Nat
    BY <1>0, <1>6 DEF ValidationTimesOut, Fault
  <2>2. alive' \subseteq Thread
    BY <1>0, <1>6 DEF ValidationTimesOut, Ends
  <2> QED
    BY <1>0, <1>6, <2>1, <2>2 DEF ValidationTimesOut, TypeOK
<1>7. CASE handleValid
  <2> DEFINE n   == Len(sent)
             ids == {ItemAt(n, i).action.id : i \in Released(n)}
             new == {ItemAt(n, i).action.id : i \in {i \in Released(n) : ~IsControl(ItemAt(n, i).action)}}
  <2>1. /\ n \in DOMAIN sent /\ messages' = <<>>
        /\ known' \subseteq known \cup ids
        /\ task' = [id \in Id |-> IF id \in new THEN "Waiting" ELSE task[id]]
    BY <1>7, handleValidEffect
  <2>2. PICK evs \in Seq(Events) : queue' = queue \o evs
    BY <1>7, handleValidEffect
  <2>3. queue' \in Seq(Events)
    BY <1>0, <2>2, Joined
  <2>4. ids \subseteq Id
    BY <2>1, SentAre DEF Released
  <2>5. "Waiting" \in TaskState
    BY DEF TaskState, ActionState
  <2>6. task' \in [Id -> TaskState]
    <3> HIDE DEF new
    <3> QED
      BY <1>0, <2>1, <2>5
  <2>7. known' \subseteq Id
    BY <1>0, <2>1, <2>4
  <2>8. UNCHANGED <<sent, faults, waiting, validating, store, told, ran, accepted, alive>>
    BY <1>7 DEF handleValid
  <2>9. messages' \in Seq(Message)
    BY <2>1
  <2> HIDE DEF new, ids
  <2> QED
    BY <1>0, <2>3, <2>6, <2>7, <2>8, <2>9 DEF TypeOK
<1>8. CASE OrderChecks
  BY <1>0, <1>8, JobNext DEF OrderChecks, TypeOK
<1>9. CASE ZoneAnswered
  BY <1>0, <1>9, JobNext DEF ZoneAnswered, TypeOK
<1>10. CASE QueryThrows
  <2>1. faults' \in Nat /\ alive' \subseteq Thread
    BY <1>0, <1>10 DEF QueryThrows, Fault, Ends
  <2> QED
    BY <1>0, <1>10, <2>1 DEF QueryThrows, TypeOK
<1>11. CASE QueryTimesOut
  <2>1. faults' \in Nat /\ alive' \subseteq Thread
    BY <1>0, <1>11 DEF QueryTimesOut, Fault, Ends
  <2> QED
    BY <1>0, <1>1, <1>11, <2>1 DEF QueryTimesOut, TypeOK
<1>12. CASE ValidateAction
  <2> DEFINE item == Head(validating.items)
  <2>1. item \in Items
        /\ (store' # store => Answer(item) = {} /\ Kept(item)
              /\ store' = insert_or_assign(item.action.id, NewStore(item)))
    BY <1>12, ValidateEffect
  <2>2. DOMAIN store' \subseteq Id /\ store' \in [DOMAIN store' -> Stores]
    <3>1. CASE store' = store
      BY <1>0, <3>1
    <3>2. CASE store' # store
      <4>1. NewStore(item) \in Stores
        BY <2>1, <3>2, NewStoreMeans
      <4>2. item.action.id \in Id
        BY <2>1, HandlingAssumption DEF IsAction
      <4> QED
        BY <1>0, <2>1, <3>2, <4>1, <4>2 DEF insert_or_assign
    <3> QED
      BY <3>1, <3>2
  <2> QED
    BY <1>0, <1>12, <2>2, JobNext DEF ValidateAction, TypeOK
<1>13. CASE ValidateThrows
  <2>1. faults' \in Nat /\ alive' \subseteq Thread
    BY <1>0, <1>13 DEF ValidateThrows, Fault, Ends
  <2> QED
    BY <1>0, <1>1, <1>13, <2>1 DEF ValidateThrows, TypeOK
<1>14. CASE Gather
  <2>1. validating.n \in Nat
    BY <1>0, JobTypes
  <2>2. messages' \in Seq(Message) /\ accepted' \subseteq Nat
    <3>1. CASE messages' = messages /\ accepted' = accepted
      BY <1>0, <3>1
    <3>2. CASE messages' = Append(messages, Valid(validating.n)) /\ accepted' = accepted \cup {validating.n}
      BY <1>0, <1>2, <2>1, <3>2, Appended
    <3> QED
      BY <1>14, <3>1, <3>2 DEF Gather, Verdict
  <2> QED
    BY <1>0, <1>1, <1>14, <2>2 DEF Gather, TypeOK
<1>15. ASSUME NEW names, Handles(names)
       PROVE  /\ queue # <<>> /\ queue' \in Seq(Events) /\ Head(queue) \in Events /\ Head(queue).id \in Id
              /\ Head(queue).name \in names
              /\ UNCHANGED <<sent, messages, waiting, validating, known, task, accepted>>
  <2>1. queue # <<>> /\ queue' = Tail(queue)
    BY <1>15 DEF Handles
  <2>2. Tail(queue) \in Seq(Events) /\ Head(queue) \in Events
    BY <1>0, <2>1, HeadAndTail
  <2> QED
    BY <1>15, <2>1, <2>2 DEF Handles, Events
<1>16. CASE Skip
  BY <1>0, <1>15, <1>16 DEF Skip, TypeOK
<1>17. CASE handlePrepareEvent
  <2>1. /\ Head(queue).id \in DOMAIN store
        /\ store' = [store EXCEPT ![Head(queue).id].state = TRUE, ![Head(queue).id].callbacks = TRUE]
    BY <1>17 DEF handlePrepareEvent, IsHandled
  <2>2. DOMAIN store' = DOMAIN store /\ store' \in [DOMAIN store -> Stores]
    BY <2>1, PrepareEffect
  <2> QED
    BY <1>0, <1>15, <1>17, <2>2 DEF handlePrepareEvent, TypeOK
<1>18. CASE PrepareThrows
  <2>1. /\ Head(queue).id \in DOMAIN store
        /\ store' = [store EXCEPT ![Head(queue).id].state = TRUE]
    BY <1>18 DEF PrepareThrows, IsHandled
  <2>2. DOMAIN store' = DOMAIN store /\ store' \in [DOMAIN store -> Stores]
    BY <2>1, PrepareEffect
  <2>3. faults' \in Nat /\ alive' \subseteq Thread
    BY <1>0, <1>18 DEF PrepareThrows, Fault, Ends
  <2> QED
    BY <1>0, <1>15, <1>18, <2>2, <2>3 DEF PrepareThrows, TypeOK
<1>19. CASE handleCallbackEvent
  <2> DEFINE id == Head(queue).id
  <2>1. id \in Id /\ Head(queue).name \in Callback
    BY <1>15, <1>19 DEF handleCallbackEvent
  <2>2. store[id] \in Stores
    BY <1>0, <1>19 DEF handleCallbackEvent, IsHandled
  <2>3. told' \in [Id -> Telling] /\ ran' \subseteq Stores /\ alive' \subseteq Thread
    <3>1. CASE told' = told /\ ran' = ran /\ Ends("action")
      BY <1>0, <3>1 DEF Ends
    <3>2. CASE /\ told' = [told EXCEPT ![id] = Head(queue).name]
               /\ ran' = (IF Head(queue).name = "start" THEN ran \cup {store[id]} ELSE ran)
               /\ alive' = alive
      <4>1. Head(queue).name \in Telling
        BY <2>1 DEF Telling
      <4> QED
        BY <1>0, <2>1, <2>2, <3>2, <4>1
    <3> QED
      BY <1>19, <3>1, <3>2 DEF handleCallbackEvent
  <2> QED
    BY <1>0, <1>15, <1>19, <2>3 DEF handleCallbackEvent, TypeOK
<1>20. CASE handleForgetEvent
  <2>1. store' = [i \in DOMAIN store \ {Head(queue).id} |-> store[i]]
    BY <1>20 DEF handleForgetEvent, Restrict
  <2>2. DOMAIN store' \subseteq Id /\ store' \in [DOMAIN store' -> Stores]
    BY <1>0, <2>1
  <2> QED
    BY <1>0, <1>15, <1>20, <2>2 DEF handleForgetEvent, TypeOK
<1>21. ASSUME NEW id \in Id, Dismiss(id)
       PROVE  TypeOK'
  <2>1. Event("forget", id) \in Events
    BY EventsAre DEF EventName
  <2>2. queue' \in Seq(Events)
    BY <1>0, <1>21, <2>1, Appended DEF Dismiss, Dispatched
  <2>3. task' \in [Id -> TaskState]
    BY <1>0, <1>21 DEF Dismiss, TaskState
  <2> QED
    BY <1>0, <1>21, <2>2, <2>3 DEF Dismiss, TypeOK
<1>22. ASSUME NEW id \in Id, NEW t \in ActionTransition, Moves(id, t)
       PROVE  TypeOK'
  <2>1. /\ \E s \in ActionState : task' = [task EXCEPT ![id] = s]
        /\ queue' = queue \/ \E name \in EventName : queue' = Append(queue, Event(name, id))
    BY <1>22, MovesEffect DEF EventName, Callback
  <2>2. \A name \in EventName : Event(name, id) \in Events
    BY EventsAre
  <2>3. queue' \in Seq(Events)
    <3>1. CASE queue' = queue
      BY <1>0, <3>1
    <3>2. ASSUME NEW name \in EventName, queue' = Append(queue, Event(name, id))
          PROVE  queue' \in Seq(Events)
      <4>1. Event(name, id) \in Events
        BY <2>2
      <4> QED
        BY <1>0, <3>2, <4>1, Appended
    <3> QED
      BY <2>1, <3>1, <3>2
  <2>4. task' \in [Id -> TaskState]
    BY <1>0, <2>1 DEF TaskState
  <2> QED
    BY <1>0, <1>22, <2>3, <2>4 DEF Moves, Transition, TypeOK
<1>23. CASE UNCHANGED vars
  BY <1>0, <1>23 DEF vars, TypeOK
<1> QED
  BY <1>3, <1>4, <1>5, <1>6, <1>7, <1>8, <1>9, <1>10, <1>11, <1>12, <1>13, <1>14, <1>16, <1>17,
     <1>18,
     <1>19, <1>20, <1>21, <1>22, <1>23, NextCases

-----------------------------------------------------------------------------
(* The messages under way *)

\* What has been sent stays, and an id used once is at one place.
LEMMA SentStays ==
  ASSUME TypeOK, [Next]_vars
  PROVE  /\ DOMAIN sent = 1..Len(sent) /\ Len(sent) \in Nat
         /\ DOMAIN sent \subseteq DOMAIN sent'
         /\ \A n \in DOMAIN sent : sent'[n] = sent[n] /\ \A i : ItemAt(n, i)' = ItemAt(n, i)
         /\ \A id : UsedOnce(id)' => UsedOnce(id)
         /\ sent' # sent => \E m \in Messages : Send(m)
<1>1. sent \in Seq(Messages)
  BY DEF TypeOK
<1>2. sent' # sent => \E m \in Messages : Send(m)
  <2>1. \/ \E m \in Messages : Send(m)
        \/ sent' = sent
    <3>1. ASSUME NEW id \in Id, NEW t \in ActionTransition, Moves(id, t)
          PROVE  sent' = sent
      BY <3>1 DEF Moves, Transition
    <3>2. ASSUME NEW id \in Id, Dismiss(id)
          PROVE  sent' = sent
      BY <3>2 DEF Dismiss
    <3>3. CASE handleOrderMessage \/ handleInstantActionsMessage \/ ValidationTimesOut \/ handleValid
               \/ OrderChecks \/ ZoneAnswered \/ QueryThrows \/ QueryTimesOut
      BY <3>3 DEF handleOrderMessage, handleInstantActionsMessage, ValidationTimesOut, handleValid,
                  OrderChecks, ZoneAnswered, QueryThrows, QueryTimesOut
    <3>4. CASE ValidateAction \/ ValidateThrows \/ Gather
      BY <3>4 DEF ValidateAction, ValidateThrows, Gather
    <3>5. CASE Skip \/ handlePrepareEvent \/ PrepareThrows \/ handleCallbackEvent \/ handleForgetEvent
      BY <3>5 DEF Skip, handlePrepareEvent, PrepareThrows, handleCallbackEvent, handleForgetEvent,
         Handles
    <3>6. CASE UNCHANGED vars
      BY <3>6 DEF vars
    <3> QED
      BY <3>1, <3>2, <3>3, <3>4, <3>5, <3>6, NextCases
  <2> QED
    BY <2>1
<1>3. ASSUME NEW m \in Messages, Send(m)
      PROVE  /\ Len(sent') = Len(sent) + 1 /\ sent' \in Seq(Messages)
             /\ \A n \in 1..Len(sent) : sent'[n] = sent[n]
  BY <1>1, <1>3, Appended DEF Send
<1>4. DOMAIN sent = 1..Len(sent) /\ Len(sent) \in Nat
  BY <1>1
<1>5. DOMAIN sent \subseteq DOMAIN sent' /\ \A n \in DOMAIN sent : sent'[n] = sent[n]
  BY <1>2, <1>3, <1>4
<1>6. \A n \in DOMAIN sent : \A i : ItemAt(n, i)' = ItemAt(n, i)
  BY <1>5 DEF ItemAt
<1>7. \A id : Places(id) \subseteq Places(id)'
  BY <1>5 DEF Places
<1>8. \A id : UsedOnce(id)' => UsedOnce(id)
  BY <1>7 DEF UsedOnce
<1> QED
  BY <1>2, <1>4, <1>5, <1>6, <1>8

LEMMA OnePlace ==
  ASSUME NEW id, UsedOnce(id),
         NEW n \in DOMAIN sent, NEW i \in DOMAIN sent[n].items, ItemAt(n, i).action.id = id,
         NEW k \in DOMAIN sent, NEW j \in DOMAIN sent[k].items, ItemAt(k, j).action.id = id
  PROVE  n = k /\ i = j
<1>1. <<n, i>> \in Places(id) /\ <<k, j>> \in Places(id)
  BY DEF Places, ItemAt
<1>2. <<n, i>> = <<k, j>>
  BY <1>1 DEF UsedOnce
<1> QED
  BY <1>2

\* Which steps change what.
LEMMA ChangedBy ==
  ASSUME TypeOK, [Next]_vars
  PROVE  /\ known' # known => handleValid
         /\ task' # task =>
              \/ handleValid \/ \E id \in Id : Dismiss(id)
              \/ \E id \in Id : \E t \in ActionTransition : Moves(id, t)
         /\ told' # told \/ ran' # ran => handleCallbackEvent
         /\ store' # store => ValidateAction \/ handlePrepareEvent \/ PrepareThrows \/ handleForgetEvent
         /\ queue' # queue =>
              \/ Skip \/ handlePrepareEvent \/ PrepareThrows \/ handleCallbackEvent \/ handleForgetEvent
              \/ handleValid \/ \E id \in Id : Dismiss(id)
              \/ \E id \in Id : \E t \in ActionTransition : Moves(id, t)
         /\ alive' # alive =>
              \/ ValidationTimesOut \/ QueryThrows \/ QueryTimesOut \/ ValidateThrows
              \/ PrepareThrows \/ handleCallbackEvent
         /\ faults' # faults =>
              ValidationTimesOut \/ QueryThrows \/ QueryTimesOut \/ ValidateThrows \/ PrepareThrows
<1>1. ASSUME NEW m \in Messages, Send(m)
      PROVE  UNCHANGED <<known, task, told, ran, store, queue, alive, faults>>
  BY <1>1 DEF Send
<1>2. ASSUME handleOrderMessage
      PROVE  UNCHANGED <<known, task, told, ran, store, queue, alive, faults>>
  BY <1>2 DEF handleOrderMessage
<1>3. ASSUME handleInstantActionsMessage
      PROVE  UNCHANGED <<known, task, told, ran, store, queue, alive, faults>>
  BY <1>3 DEF handleInstantActionsMessage
<1>4. ASSUME ValidationTimesOut
      PROVE  UNCHANGED <<known, task, told, ran, store, queue>>
  BY <1>4 DEF ValidationTimesOut
<1>5. ASSUME handleValid
      PROVE  UNCHANGED <<told, ran, store, alive, faults>>
  BY <1>5 DEF handleValid
<1>6. ASSUME OrderChecks
      PROVE  UNCHANGED <<known, task, told, ran, store, queue, alive, faults>>
  BY <1>6 DEF OrderChecks
<1>7. ASSUME ZoneAnswered
      PROVE  UNCHANGED <<known, task, told, ran, store, queue, alive, faults>>
  BY <1>7 DEF ZoneAnswered
<1>8. ASSUME QueryThrows
      PROVE  UNCHANGED <<known, task, told, ran, store, queue>>
  BY <1>8 DEF QueryThrows
<1>9. ASSUME QueryTimesOut
      PROVE  UNCHANGED <<known, task, told, ran, store, queue>>
  BY <1>9 DEF QueryTimesOut
<1>10. ASSUME ValidateAction
      PROVE  UNCHANGED <<known, task, told, ran, queue, alive, faults>>
  BY <1>10 DEF ValidateAction
<1>11. ASSUME ValidateThrows
      PROVE  UNCHANGED <<known, task, told, ran, store, queue>>
  BY <1>11 DEF ValidateThrows
<1>12. ASSUME Gather
      PROVE  UNCHANGED <<known, task, told, ran, store, queue, alive, faults>>
  BY <1>12 DEF Gather
<1>13. ASSUME Skip
      PROVE  UNCHANGED <<known, task, told, ran, store, alive, faults>>
  BY <1>13 DEF Skip, Handles
<1>14. ASSUME handlePrepareEvent
      PROVE  UNCHANGED <<known, task, told, ran, alive, faults>>
  BY <1>14 DEF handlePrepareEvent, Handles
<1>15. ASSUME PrepareThrows
      PROVE  UNCHANGED <<known, task, told, ran>>
  BY <1>15 DEF PrepareThrows, Handles
<1>16. ASSUME handleCallbackEvent
      PROVE  UNCHANGED <<known, task, store, faults>>
  BY <1>16 DEF handleCallbackEvent, Handles
<1>17. ASSUME handleForgetEvent
      PROVE  UNCHANGED <<known, task, told, ran, alive, faults>>
  BY <1>17 DEF handleForgetEvent, Handles
<1>18. ASSUME NEW id \in Id, Dismiss(id)
      PROVE  UNCHANGED <<known, told, ran, store, alive, faults>>
  BY <1>18 DEF Dismiss
<1>19. ASSUME NEW id \in Id, NEW t \in ActionTransition, Moves(id, t)
      PROVE  UNCHANGED <<known, told, ran, store, alive, faults>>
  BY <1>19 DEF Moves, Transition
<1>20. ASSUME UNCHANGED vars
      PROVE  UNCHANGED <<known, task, told, ran, store, queue, alive, faults>>
  BY <1>20 DEF vars
<1> QED
  BY <1>1, <1>2, <1>3, <1>4, <1>5, <1>6, <1>7, <1>8, <1>9, <1>10, <1>11, <1>12, <1>13, <1>14, <1>15,
     <1>16, <1>17, <1>18, <1>19, <1>20, NextCases

\* The variables of the messages under way.
Pipeline == <<sent, messages, waiting, validating, accepted>>

LEMMA PipelineCases ==
  ASSUME TypeOK, [Next]_vars
  PROVE  \/ \E m \in Messages : Send(m)
         \/ handleOrderMessage \/ handleInstantActionsMessage \/ ValidationTimesOut \/ handleValid
         \/ OrderChecks \/ ZoneAnswered \/ QueryTimesOut \/ ValidateAction \/ ValidateThrows \/ Gather
         \/ UNCHANGED Pipeline
<1>1. ASSUME NEW id \in Id, NEW t \in ActionTransition, Moves(id, t)
      PROVE  UNCHANGED Pipeline
  BY <1>1 DEF Moves, Transition, Pipeline
<1>2. ASSUME NEW id \in Id, Dismiss(id)
      PROVE  UNCHANGED Pipeline
  BY <1>2 DEF Dismiss, Pipeline
<1>3. CASE Skip \/ handlePrepareEvent \/ PrepareThrows \/ handleCallbackEvent \/ handleForgetEvent
  BY <1>3 DEF Skip, handlePrepareEvent, PrepareThrows, handleCallbackEvent, handleForgetEvent,
     Handles,
              Pipeline
<1>4. CASE QueryThrows \/ UNCHANGED vars
  BY <1>4 DEF QueryThrows, vars, Pipeline
<1> QED
  BY <1>1, <1>2, <1>3, <1>4, NextCases

LEMMA LineInit == ASSUME Init PROVE Line
<1>1. Len(<<>>) = 0
  OBVIOUS
<1> QED
  BY <1>1 DEF Init, Line, Nothing

\* A message under validation stays the last one.
LEMMA LineNext ==
  ASSUME TypeOK, Line, [Next]_vars
  PROVE  Line'
<1>0. /\ sent \in Seq(Messages) /\ Len(sent) \in Nat /\ messages \in Seq(Message)
      /\ validating \in Job /\ validating.n \in Nat
      /\ Len(<<>>) = 0
  BY JobTypes DEF TypeOK
<1>1. ASSUME NEW m \in Messages, Send(m)
      PROVE  Line'
  <2>1. Len(sent') = Len(sent) + 1 /\ waiting = 0 /\ validating = Nothing
        /\ messages' = <<Received(Len(sent) + 1)>>
    BY <1>0, <1>1, Appended DEF Send
  <2>2. Len(messages') = 1 /\ messages'[1].n = Len(sent') /\ messages'[1].kind = "received"
    BY <2>1 DEF Received
  <2>3. Len(sent') \notin accepted
    BY <1>0, <2>1 DEF Line
  <2>4. accepted' \subseteq 1..Len(sent')
    BY <1>0, <1>1, <2>1 DEF Line, Send
  <2>5. UNCHANGED <<waiting, validating, accepted>>
    BY <1>1 DEF Send
  <2> QED
    BY <1>0, <2>1, <2>2, <2>3, <2>4, <2>5 DEF Line, Nothing
<1>2. CASE handleOrderMessage
  <2>1. /\ messages' = <<>> /\ Head(messages).n = Len(sent) /\ messages[1].kind = "received" /\ messages # <<>>
        /\ validating = Nothing /\ Len(sent) \in DOMAIN sent
    BY <1>2, TakesEffect DEF handleOrderMessage
  <2>2. sent[Len(sent)].kind = "order" /\ waiting' = Len(sent) /\ validating'.n = Len(sent)
    BY <1>2, <2>1 DEF handleOrderMessage
  <2>3. UNCHANGED <<sent, accepted>>
    BY <1>2 DEF handleOrderMessage
  <2> QED
    BY <1>0, <2>1, <2>2, <2>3 DEF Line
<1>3. CASE handleInstantActionsMessage
  <2>1. /\ messages' = <<>> /\ Head(messages).n = Len(sent) /\ messages[1].kind = "received" /\ messages # <<>>
        /\ waiting = 0
    BY <1>3, TakesEffect DEF handleInstantActionsMessage
  <2>2. validating'.n = Len(sent)
    BY <1>3, <2>1 DEF handleInstantActionsMessage
  <2>3. UNCHANGED <<sent, accepted, waiting>>
    BY <1>3 DEF handleInstantActionsMessage
  <2> QED
    BY <1>0, <2>1, <2>2, <2>3 DEF Line
<1>4. CASE ValidationTimesOut
  <2>1. waiting' = 0 /\ UNCHANGED <<sent, messages, validating, accepted>>
    BY <1>4 DEF ValidationTimesOut
  <2> QED
    BY <1>0, <2>1 DEF Line
<1>5. CASE handleValid
  <2>1. messages' = <<>> /\ UNCHANGED <<sent, waiting, validating, accepted>>
    BY <1>5, TakesEffect DEF handleValid
  <2> QED
    BY <1>0, <2>1 DEF Line
<1>6. CASE OrderChecks \/ ZoneAnswered \/ ValidateAction
  <2>1. UNCHANGED <<sent, messages, waiting, accepted>>
    BY <1>6 DEF OrderChecks, ZoneAnswered, ValidateAction
  <2>2. validating'.n = validating.n
    <3>1. CASE OrderChecks
      BY <1>0, <3>1 DEF OrderChecks, Job
    <3>2. CASE ZoneAnswered
      BY <1>0, <3>2 DEF ZoneAnswered, Job
    <3>3. CASE ValidateAction
      BY <1>0, <3>3 DEF ValidateAction, Job
    <3> QED
      BY <1>6, <3>1, <3>2, <3>3
  <2> QED
    BY <1>0, <2>1, <2>2 DEF Line
<1>7. CASE QueryTimesOut \/ ValidateThrows
  <2>1. validating' = Nothing /\ UNCHANGED <<sent, messages, waiting, accepted>>
    BY <1>7 DEF QueryTimesOut, ValidateThrows
  <2> QED
    BY <1>0, <2>1 DEF Line, Nothing
<1>8. CASE Gather
  <2>1. validating' = Nothing /\ waiting' = 0 /\ sent' = sent /\ validating.n # 0
    BY <1>8 DEF Gather, Validates
  <2>2. messages = <<>> /\ validating.n = Len(sent)
    BY <2>1 DEF Line
  <2>3. CASE messages' = messages /\ accepted' = accepted
    BY <1>0, <2>1, <2>2, <2>3 DEF Line, Nothing
  <2>4. CASE messages' = Append(messages, Valid(validating.n)) /\ accepted' = accepted \cup {validating.n}
    <3>1. messages' = <<Valid(Len(sent))>>
      BY <2>2, <2>4
    <3>2. Len(messages') = 1 /\ messages'[1].n = Len(sent) /\ messages'[1].kind = "valid"
      BY <3>1 DEF Valid
    <3>3. accepted' \subseteq 1..Len(sent) /\ Len(sent) \in accepted' /\ Len(sent) # 0
      <4>1. accepted \subseteq 1..Len(sent)
        BY DEF Line
      <4>2. Len(sent) # 0 /\ accepted' = accepted \cup {Len(sent)}
        BY <2>1, <2>2, <2>4
      <4>3. Len(sent) \in 1..Len(sent)
        BY <1>0, <4>2
      <4> QED
        BY <4>1, <4>2, <4>3
    <3>4. validating'.n = 0
      BY <2>1 DEF Nothing
    <3>5. waiting' = 0 /\ sent' = sent
      BY <2>1
    <3>6. messages'[1].kind # "received"
      BY <3>2
    <3> QED
      BY <3>2, <3>3, <3>4, <3>5, <3>6 DEF Line
  <2> QED
    BY <1>8, <2>3, <2>4 DEF Gather, Verdict
<1>9. CASE UNCHANGED Pipeline
  BY <1>0, <1>9 DEF Pipeline, Line
<1> QED
  BY <1>1, <1>2, <1>3, <1>4, <1>5, <1>6, <1>7, <1>8, <1>9, PipelineCases

\* Which messages come to the scheduler.
LEMMA HandledNext ==
  ASSUME TypeOK, Line, [Next]_vars
  PROVE  /\ Handled \subseteq accepted /\ accepted \subseteq DOMAIN sent
         /\ \/ Handled' = Handled /\ ~handleValid
            \/ handleValid /\ Len(sent) \notin Handled /\ Handled' = Handled \cup {Len(sent)}
         /\ Handled \subseteq Handled'
<1>0. /\ sent \in Seq(Messages) /\ Len(sent) \in Nat /\ messages \in Seq(Message)
      /\ DOMAIN sent = 1..Len(sent)
  BY DEF TypeOK
<1>1. Handled \subseteq accepted /\ accepted \subseteq DOMAIN sent
  BY <1>0 DEF Handled, Line
<1>2. CASE handleValid
  <2>1. messages # <<>> /\ messages' = <<>> /\ Len(sent) \in accepted /\ UNCHANGED <<sent, accepted>>
    BY <1>2, handleValidEffect DEF handleValid
  <2> QED
    BY <1>1, <1>2, <2>1 DEF Handled
<1>3. CASE ~handleValid
  <2> SUFFICES Handled' = Handled
    BY <1>1, <1>3
  <2>1. ASSUME NEW m \in Messages, Send(m)
        PROVE  Handled' = Handled
    <3>1. Len(sent') = Len(sent) + 1 /\ messages = <<>> /\ accepted' = accepted
      BY <1>0, <2>1, Appended DEF Send
    <3> QED
      BY <1>0, <1>1, <3>1 DEF Handled
  <2>2. CASE handleOrderMessage \/ handleInstantActionsMessage
    <3>1. /\ messages' = <<>> /\ messages # <<>> /\ messages[1].kind = "received"
          /\ UNCHANGED <<sent, accepted>>
      BY <2>2, TakesEffect DEF handleOrderMessage, handleInstantActionsMessage
    <3> QED
      BY <3>1 DEF Handled, Line
  <2>3. CASE Gather
    <3>1. sent' = sent /\ validating.n # 0
      BY <2>3 DEF Gather, Validates
    <3>2. messages = <<>> /\ validating.n = Len(sent) /\ Len(sent) \notin accepted
      BY <3>1 DEF Line
    <3>3. \/ messages' = messages /\ accepted' = accepted
          \/ messages' = Append(messages, Valid(validating.n)) /\ accepted' = accepted \cup {validating.n}
      BY <2>3 DEF Gather, Verdict
    <3>4. Append(messages, Valid(validating.n)) # <<>>
      BY <3>2
    <3> QED
      BY <3>1, <3>2, <3>3, <3>4 DEF Handled
  <2>4. CASE ValidationTimesOut \/ OrderChecks \/ ZoneAnswered \/ QueryTimesOut \/ ValidateAction
             \/ ValidateThrows
    <3>1. UNCHANGED <<sent, messages, accepted>>
      BY <2>4 DEF ValidationTimesOut, OrderChecks, ZoneAnswered, QueryTimesOut, ValidateAction,
         ValidateThrows
    <3> QED
      BY <3>1 DEF Handled
  <2>5. CASE UNCHANGED Pipeline
    BY <2>5 DEF Handled, Pipeline
  <2> QED
    BY <1>3, <2>1, <2>2, <2>3, <2>4, <2>5, PipelineCases
<1> QED
  BY <1>2, <1>3

-----------------------------------------------------------------------------
(* What is with the scheduler *)

\* The id is of an action of a base with the scheduler, and not a control action.
InBaseNoControl(id) ==
  \E n \in Handled : \E i \in Released(n) : ItemAt(n, i).action.id = id /\ ~IsControl(ItemAt(n, i).action)

LEMMA BaseStays ==
  ASSUME TypeOK, Line, [Next]_vars
  PROVE  /\ \A n \in DOMAIN sent : Released(n)' = Released(n)
         /\ \A id : InBase(id) => InBase(id)'
         /\ \A id : InBaseNoControl(id) => InBaseNoControl(id)'
<1>1. /\ \A n \in DOMAIN sent : sent'[n] = sent[n] /\ \A i : ItemAt(n, i)' = ItemAt(n, i)
      /\ Handled \subseteq Handled' /\ Handled \subseteq DOMAIN sent
  BY SentStays, HandledNext
<1>2. \A n \in DOMAIN sent : Released(n)' = Released(n)
  BY <1>1 DEF Released
<1>3. \A n \in Handled : n \in Handled' /\ Released(n)' = Released(n) /\ \A i : ItemAt(n, i)' = ItemAt(n, i)
  BY <1>1, <1>2
<1>4. ASSUME NEW id, InBase(id)
      PROVE  InBase(id)'
  <2>1. PICK n \in Handled : \E i \in Released(n) : ItemAt(n, i).action.id = id
    BY <1>4 DEF InBase
  <2>2. PICK i \in Released(n) : ItemAt(n, i).action.id = id
    BY <2>1
  <2>3. n \in Handled' /\ i \in Released(n)' /\ ItemAt(n, i)'.action.id = id
    BY <1>3, <2>2
  <2> QED
    BY <2>3 DEF InBase
<1>5. ASSUME NEW id, InBaseNoControl(id)
      PROVE  InBaseNoControl(id)'
  <2>1. PICK n \in Handled : \E i \in Released(n) : ItemAt(n, i).action.id = id /\ ~IsControl(ItemAt(n, i).action)
    BY <1>5 DEF InBaseNoControl
  <2>2. PICK i \in Released(n) : ItemAt(n, i).action.id = id /\ ~IsControl(ItemAt(n, i).action)
    BY <2>1
  <2>3. n \in Handled' /\ i \in Released(n)' /\ ItemAt(n, i)' = ItemAt(n, i)
    BY <1>3
  <2> QED
    BY <2>2, <2>3 DEF InBaseNoControl
<1> QED
  BY <1>2, <1>4, <1>5

\* What a step does to the action event queue.
LEMMA QueueNext ==
  ASSUME TypeOK, Line, [Next]_vars
  PROVE  \/ /\ queue # <<>> /\ queue[1] = Head(queue) /\ queue' = Tail(queue)
            /\ Skip \/ handlePrepareEvent \/ PrepareThrows \/ handleCallbackEvent \/ handleForgetEvent
         \/ /\ queue' = queue
            /\ ~(Skip \/ handlePrepareEvent \/ PrepareThrows \/ handleCallbackEvent \/ handleForgetEvent)
         \/ handleValid
         \/ \E id \in Id : Dismiss(id)
         \/ \E id \in Id : \E t \in ActionTransition : Moves(id, t)
<1>1. CASE Skip \/ handlePrepareEvent \/ PrepareThrows \/ handleCallbackEvent \/ handleForgetEvent
  <2>1. queue # <<>> /\ queue' = Tail(queue) /\ queue \in Seq(Events)
    BY <1>1 DEF Skip, handlePrepareEvent, PrepareThrows, handleCallbackEvent, handleForgetEvent,
       Handles, TypeOK
  <2>2. queue[1] = Head(queue)
    BY <2>1, HeadAndTail
  <2> QED
    BY <1>1, <2>1, <2>2
<1>2. CASE queue' = queue /\ ~(Skip \/ handlePrepareEvent \/ PrepareThrows \/ handleCallbackEvent \/ handleForgetEvent)
  BY <1>2
<1> QED
  BY <1>1, <1>2, ChangedBy

\* Only what is with the scheduler has events, a task or a callback.
LEMMA UntouchedNext ==
  ASSUME TypeOK, Line, Untouched, [Next]_vars
  PROVE  Untouched'
<1>0. queue \in Seq(Events) /\ Len(queue) \in Nat /\ DOMAIN queue = 1..Len(queue)
      /\ task \in [Id -> TaskState] /\ told \in [Id -> Telling]
  BY DEF TypeOK
<1>1. ASSUME NEW id \in Id, id \in known'
      PROVE  InBase(id)'
  <2>1. CASE id \in known
    BY <1>1, <2>1, BaseStays DEF Untouched
  <2>2. CASE id \notin known
    <3>1. handleValid
      BY <1>1, <2>2, ChangedBy
    <3>2. PICK i \in Released(Len(sent)) : ItemAt(Len(sent), i).action.id = id
      BY <1>1, <2>2, <3>1, handleValidEffect
    <3>3. Len(sent) \in Handled' /\ Len(sent) \in DOMAIN sent
      BY <3>1, HandledNext, handleValidEffect
    <3>4. sent' = sent
      BY <3>1 DEF handleValid
    <3> QED
      BY <3>2, <3>3, <3>4 DEF InBase, Released, ItemAt
  <2> QED
    BY <2>1, <2>2
<1>2. ASSUME handleValid, NEW i \in Released(Len(sent)), NEW id, id = ItemAt(Len(sent), i).action.id
      PROVE  /\ InBase(id)'
             /\ ~IsControl(ItemAt(Len(sent), i).action) => InBaseNoControl(id)'
  <2>1. Len(sent) \in Handled' /\ Len(sent) \in DOMAIN sent /\ sent' = sent
    BY <1>2, HandledNext, handleValidEffect DEF handleValid
  <2>2. ItemAt(Len(sent), i)' = ItemAt(Len(sent), i) /\ i \in Released(Len(sent))'
    BY <1>2, <2>1 DEF Released, ItemAt
  <2>3. ItemAt(Len(sent), i)' = sent'[Len(sent)'].items[i] /\ Released(Len(sent))' = Released(Len(sent))
    BY <2>1 DEF ItemAt, Released
  <2> QED
    BY <1>2, <2>1, <2>2, <2>3 DEF InBase, InBaseNoControl, ItemAt
<1>3. ASSUME NEW id \in Id, NEW k \in DOMAIN queue', queue'[k].id = id
      PROVE  InBase(id)'
  <2>1. CASE queue # <<>> /\ queue' = Tail(queue)
    <3>1. k + 1 \in DOMAIN queue /\ queue'[k] = queue[k + 1]
      BY <1>0, <1>3, <2>1, HeadAndTail
    <3> QED
      BY <1>3, <3>1, BaseStays DEF Untouched
  <2>2. CASE queue' = queue
    BY <1>3, <2>2, BaseStays DEF Untouched
  <2>3. CASE handleValid
    <3>1. PICK evs \in Seq(Events) :
            /\ queue' = queue \o evs
            /\ \A j \in DOMAIN evs : \E i \in Released(Len(sent)) : evs[j] = Event("prepare", ItemAt(Len(sent), i).action.id)
      BY <2>3, handleValidEffect
    <3>2. \/ k \in DOMAIN queue /\ queue'[k] = queue[k]
          \/ \E j \in DOMAIN evs : queue'[k] = evs[j]
      BY <1>0, <1>3, <3>1, JoinedElements
    <3>3. CASE k \in DOMAIN queue /\ queue'[k] = queue[k]
      BY <1>3, <3>3, BaseStays DEF Untouched
    <3>4. CASE \E j \in DOMAIN evs : queue'[k] = evs[j]
      <4>1. PICK i \in Released(Len(sent)) : queue'[k] = Event("prepare", ItemAt(Len(sent), i).action.id)
        BY <3>1, <3>4
      <4>2. id = ItemAt(Len(sent), i).action.id
        BY <1>3, <4>1 DEF Event
      <4> QED
        BY <1>2, <2>3, <4>2
    <3> QED
      BY <3>2, <3>3, <3>4
  <2>4. ASSUME NEW j \in Id, task[j] # NoTask,
               queue' = queue \/ \E name \in EventName : queue' = Append(queue, Event(name, j))
        PROVE  InBase(id)'
    <3>1. InBase(j)
      <4>1. InBaseNoControl(j)
        BY <2>4 DEF Untouched, InBaseNoControl
      <4> QED
        BY <4>1 DEF InBaseNoControl, InBase
    <3>2. \/ k \in DOMAIN queue /\ queue'[k] = queue[k]
          \/ queue'[k].id = j
      <4>1. CASE queue' = queue
        BY <1>3, <4>1
      <4>2. ASSUME NEW name \in EventName, queue' = Append(queue, Event(name, j))
            PROVE  \/ k \in DOMAIN queue /\ queue'[k] = queue[k]
                   \/ queue'[k].id = j
        <5>1. Event(name, j) \in Events /\ Event(name, j).id = j
          BY EventsAre
        <5>2. /\ Len(queue') = Len(queue) + 1 /\ queue' \in Seq(Events)
              /\ \A i \in 1..Len(queue) : queue'[i] = queue[i]
              /\ queue'[Len(queue) + 1] = Event(name, j)
          BY <1>0, <4>2, <5>1, Appended
        <5> QED
          BY <1>0, <1>3, <5>1, <5>2
      <4> QED
        BY <2>4, <4>1, <4>2
    <3> QED
      BY <1>3, <3>1, <3>2, BaseStays DEF Untouched
  <2>5. ASSUME NEW j \in Id, Dismiss(j)
        PROVE  InBase(id)'
    <3>1. task[j] # NoTask /\ queue' = Append(queue, Event("forget", j))
      BY <2>5 DEF Dismiss, Dispatched, NoTask
    <3>2. "forget" \in EventName
      BY DEF EventName
    <3> QED
      BY <2>4, <3>1, <3>2
  <2>6. ASSUME NEW j \in Id, NEW t \in ActionTransition, Moves(j, t)
        PROVE  InBase(id)'
    <3>1. task[j] # NoTask
      BY <2>6 DEF Moves, Transition
    <3>2. queue' = queue \/ \E name \in EventName : queue' = Append(queue, Event(name, j))
      BY <2>6, MovesEffect DEF EventName, Callback
    <3> QED
      BY <2>4, <3>1, <3>2
  <2> QED
    BY <2>1, <2>2, <2>3, <2>5, <2>6, QueueNext
<1>4. ASSUME NEW id \in Id, told'[id] # "nothing"
      PROVE  InBase(id)'
  <2>1. CASE told' = told
    BY <1>4, <2>1, BaseStays DEF Untouched
  <2>2. CASE handleCallbackEvent
    <3>1. queue # <<>> /\ (told' = told \/ told' = [told EXCEPT ![Head(queue).id] = Head(queue).name])
      BY <2>2 DEF handleCallbackEvent, Handles
    <3>2. 1 \in DOMAIN queue /\ queue[1] = Head(queue)
      BY <1>0, <3>1, HeadAndTail
    <3>3. told'[id] = told[id] \/ id = queue[1].id
      BY <1>0, <3>1, <3>2
    <3> QED
      BY <1>4, <3>2, <3>3, BaseStays DEF Untouched
  <2> QED
    BY <2>1, <2>2, ChangedBy
<1>5. ASSUME NEW id \in Id, task'[id] # NoTask
      PROVE  InBaseNoControl(id)'
  <2>1. CASE task[id] # NoTask
    <3>1. InBaseNoControl(id)
      BY <2>1 DEF Untouched, InBaseNoControl
    <3> QED
      BY <3>1, BaseStays
  <2>2. CASE task[id] = NoTask
    <3>1. ASSUME NEW i \in Id, NEW t \in ActionTransition, Moves(i, t)
          PROVE  FALSE
      <4>1. task[i] # NoTask /\ \E s : task' = [task EXCEPT ![i] = s]
        BY <3>1 DEF Moves, Transition
      <4> QED
        BY <1>0, <1>5, <2>2, <4>1
    <3>2. ASSUME NEW i \in Id, Dismiss(i)
          PROVE  FALSE
      BY <1>0, <1>5, <2>2, <3>2 DEF Dismiss
    <3>3. CASE handleValid
      <4>1. \E i \in Released(Len(sent)) : ItemAt(Len(sent), i).action.id = id /\ ~IsControl(ItemAt(Len(sent), i).action)
        BY <1>5, <2>2, <3>3, handleValidEffect
      <4> QED
        BY <1>2, <3>3, <4>1
    <3> QED
      BY <1>5, <2>2, <3>1, <3>2, <3>3, ChangedBy
  <2> QED
    BY <2>1, <2>2
<1>6. ASSUME NEW id \in Id, task'[id] # NoTask
      PROVE  (\E n \in Handled : \E i \in Released(n) : ItemAt(n, i).action.id = id /\ ~IsControl(ItemAt(n, i).action))'
  BY <1>5, <1>6 DEF InBaseNoControl
<1> QED
  BY <1>1, <1>3, <1>4, <1>6 DEF Untouched

-----------------------------------------------------------------------------
(* The stores *)

\* A store is lost only to a forget event.
LEMMA StoreLost ==
  ASSUME TypeOK, [Next]_vars, NEW id \in DOMAIN store, id \notin DOMAIN store'
  PROVE  /\ handleForgetEvent /\ queue # <<>>
         /\ Head(queue).id = id /\ 1 \in DOMAIN queue /\ queue[1] = Head(queue)
<1>1. ValidateAction \/ handlePrepareEvent \/ PrepareThrows \/ handleForgetEvent
  BY ChangedBy
<1>2. CASE ValidateAction
  BY <1>2, ValidateEffect
<1>3. CASE handlePrepareEvent
  BY <1>3, PrepareEffect DEF handlePrepareEvent, IsHandled
<1>4. CASE PrepareThrows
  BY <1>4, PrepareEffect DEF PrepareThrows, IsHandled
<1>5. CASE handleForgetEvent
  <2>1. store' = [i \in DOMAIN store \ {Head(queue).id} |-> store[i]] /\ queue # <<>>
    BY <1>5 DEF handleForgetEvent, Restrict, Handles
  <2>2. queue \in Seq(Events)
    BY DEF TypeOK
  <2>3. Len(queue) \in Nat \ {0} /\ queue[1] = Head(queue) /\ 1 \in DOMAIN queue
    BY <2>1, <2>2, HeadAndTail
  <2> QED
    BY <1>5, <2>1, <2>3
<1> QED
  BY <1>1, <1>2, <1>3, <1>4, <1>5

\* A message that is not with the scheduler keeps its stores.
LEMMA StoreKept ==
  ASSUME TypeOK, Line, Untouched, [Next]_vars,
         NEW n \in DOMAIN sent \ Handled, NEW i \in DOMAIN sent[n].items, NEW id,
         ItemAt(n, i).action.id = id, UsedOnce(id), IsHandled(id)
  PROVE  IsHandled(id)'
<1> SUFFICES ASSUME ~IsHandled(id)' PROVE FALSE
  OBVIOUS
<1>1. id \in DOMAIN store /\ id \notin DOMAIN store'
  BY DEF IsHandled
<1>2. 1 \in DOMAIN queue /\ queue[1].id = id
  BY <1>1, StoreLost
<1>3. id \in Id
  BY SentAre
<1>4. InBase(id)
  BY <1>2, <1>3 DEF Untouched
<1>5. PICK k \in Handled : \E j \in Released(k) : ItemAt(k, j).action.id = id
  BY <1>4 DEF InBase
<1>6. k \in DOMAIN sent
  BY HandledNext
<1> QED
  BY <1>5, <1>6, OnePlace DEF Released

\* Items without duplicates differ.
LEMMA DuplicatesMean ==
  ASSUME NEW items \in Seq(Items), Duplicates(items) = {}
  PROVE  \A i, j \in DOMAIN items : items[i].action.id = items[j].action.id => i = j
<1>1. \A i \in DOMAIN items : \A j \in 1..i-1 : items[j].action.id # items[i].action.id
  BY DEF Duplicates
<1>2. DOMAIN items = 1..Len(items) /\ Len(items) \in Nat
  OBVIOUS
<1> SUFFICES ASSUME NEW i \in DOMAIN items, NEW j \in DOMAIN items,
                    items[i].action.id = items[j].action.id
             PROVE  ~(i < j)
  BY <1>2
<1>3. i < j => i \in 1..j-1
  BY <1>2
<1> QED
  BY <1>1, <1>3

\* What was validated before still is.
LEMMA FoundStays ==
  ASSUME TypeOK, Line, Untouched, [Next]_vars,
         NEW n \in DOMAIN sent \ Handled, NEW i \in DOMAIN sent[n].items, Found(n, i)
  PROVE  Found(n, i)'
<1>1. sent'[n] = sent[n] /\ ItemAt(n, i)' = ItemAt(n, i)
  BY SentStays
<1>2. Answer(ItemAt(n, i)) = {}
  BY DEF Found
<1>3. ASSUME NEW id, id = ItemAt(n, i).action.id, Kept(ItemAt(n, i)), UsedOnce(id)'
      PROVE  IsHandled(id)'
  <2>1. UsedOnce(id)
    BY <1>3, SentStays
  <2>2. IsHandled(id)
    BY <1>3, <2>1 DEF Found
  <2> QED
    BY <1>3, <2>1, <2>2, StoreKept
<1>4. sent'[n].items[i] = sent[n].items[i]
  BY <1>1
<1> DEFINE item == sent[n].items[i]
<1>5. Answer(item) = {}
  BY <1>2 DEF ItemAt
<1> QED
  BY <1>1, <1>3, <1>5 DEF Found, ItemAt, UsedOnce, IsHandled

\* What makes the next state's job checked.
LEMMA CheckedFrom ==
  ASSUME NEW n, NEW k \in Nat,
         validating'.n = n, Len(sent'[n].items) - Len(validating'.items) = k,
         validating'.at \in {"checks", "zone", "actions"},
         validating'.at \in {"checks", "zone"} => k = 0,
         \A j \in 1..Len(validating'.items) : validating'.items[j] = sent'[n].items[k + j],
         validating'.errors = {} =>
           /\ validating'.at # "checks" => Differ(n)'
           /\ \A i \in 1..k : Found(n, i)'
  PROVE  Checked'
<1>1. ItemsDone' = k
  BY DEF ItemsDone
<1>2. \A j \in 1..Len(validating'.items) : validating'.items[j] = ItemAt(validating.n, ItemsDone + j)'
  BY <1>1 DEF ItemAt
<1>3. Differ(n)' = Differ(validating.n)'
  BY DEF Differ, ItemAt
<1>4. \A i \in 1..k : Found(n, i)' = Found(validating.n, i)'
  BY DEF Found, ItemAt
<1> QED
  BY <1>1, <1>2, <1>3, <1>4 DEF Checked

LEMMA Difference ==
  ASSUME NEW a \in Nat, NEW b \in Nat, a - b >= 0
  PROVE  /\ a - b \in Nat /\ a - b <= a
         /\ b # 0 => (a - b) + 1 \in 1..a /\ a - (b - 1) = (a - b) + 1
  OBVIOUS

LEMMA CheckedNext ==
  ASSUME TypeOK, Line, Untouched, Checked, [Next]_vars
  PROVE  Checked'
<1>0. /\ validating \in Job /\ validating.n \in Nat /\ validating.items \in Seq(Items)
      /\ validating.errors \in SUBSET ErrorType
      /\ Len(validating.items) \in Nat /\ DOMAIN validating.items = 1..Len(validating.items)
      /\ sent \in Seq(Messages) /\ Len(sent) \in Nat /\ DOMAIN sent = 1..Len(sent)
  BY JobTypes DEF TypeOK
<1>1. ASSUME validating'.n = 0
      PROVE  Checked'
  BY <1>1 DEF Checked
<1>2. ASSUME NEW m \in Messages, Send(m)
      PROVE  Checked'
  BY <1>1, <1>2 DEF Send, Nothing
<1>3. CASE handleValid
  <2>1. validating = Nothing /\ validating' = validating
    BY <1>3, TakesEffect DEF handleValid
  <2> QED
    BY <1>1, <2>1 DEF Nothing
<1>4. CASE QueryTimesOut \/ ValidateThrows \/ Gather
  BY <1>1, <1>4 DEF QueryTimesOut, ValidateThrows, Gather, Nothing
<1>5. ASSUME NEW n, n = Len(sent), Takes("received"), validating'.n = n, validating'.items = sent[n].items,
             sent' = sent, validating'.at \in {"checks", "actions"},
             validating'.errors = {} => validating'.at = "checks" \/ Duplicates(sent[n].items) = {}
      PROVE  Checked'
  <2>1. n \in DOMAIN sent
    BY <1>5, TakesEffect
  <2>2. sent[n].items \in Seq(Items) /\ Len(sent[n].items) \in Nat
    BY <2>1, SentAre
  <2>3. Len(sent'[n].items) - Len(validating'.items) = 0
    BY <1>5, <2>2
  <2>4. \A j \in 1..Len(validating'.items) : validating'.items[j] = sent'[n].items[0 + j]
    BY <1>5, <2>2
  <2>5. Duplicates(sent[n].items) = {} => Differ(n)'
    BY <1>5, <2>2, DuplicatesMean DEF Differ, ItemAt
  <2>6. \A i \in 1..0 : Found(n, i)'
    OBVIOUS
  <2> QED
    BY <1>5, <2>3, <2>4, <2>5, <2>6, CheckedFrom
<1>6. CASE handleOrderMessage
  <2>1. Head(messages).n = Len(sent)
    BY <1>6, TakesEffect DEF handleOrderMessage
  <2>2. /\ validating' = [n |-> Len(sent), at |-> "checks", items |-> sent[Len(sent)].items, errors |-> {}]
        /\ sent' = sent
    BY <1>6, <2>1 DEF handleOrderMessage
  <2>3. Takes("received")
    BY <1>6 DEF handleOrderMessage
  <2> QED
    BY <1>5, <2>2, <2>3
<1>7. CASE handleInstantActionsMessage
  <2>1. Head(messages).n = Len(sent)
    BY <1>7, TakesEffect DEF handleInstantActionsMessage
  <2>2. /\ validating' = [n |-> Len(sent), at |-> "actions", items |-> sent[Len(sent)].items,
                          errors |-> Duplicates(sent[Len(sent)].items)]
        /\ sent' = sent
    BY <1>7, <2>1 DEF handleInstantActionsMessage
  <2>3. Takes("received")
    BY <1>7 DEF handleInstantActionsMessage
  <2> QED
    BY <1>5, <2>2, <2>3
\* From here on a message is under validation.
<1>8. ASSUME validating.n # 0
      PROVE  /\ validating.n = Len(sent) /\ Len(sent) \in DOMAIN sent /\ Len(sent) \notin Handled
             /\ sent[Len(sent)].items \in Seq(Items) /\ Len(sent[Len(sent)].items) \in Nat
             /\ DOMAIN sent[Len(sent)].items = 1..Len(sent[Len(sent)].items)
             /\ ItemsDone \in Nat /\ ItemsDone = Len(sent[Len(sent)].items) - Len(validating.items)
             /\ 1..ItemsDone \subseteq DOMAIN sent[Len(sent)].items
  <2>1. validating.n = Len(sent) /\ Len(sent) \notin accepted
    BY <1>8 DEF Line
  <2>2. Len(sent) \in DOMAIN sent
    BY <1>0, <1>8, <2>1
  <2>3. sent[Len(sent)].items \in Seq(Items) /\ Len(sent[Len(sent)].items) \in Nat
        /\ DOMAIN sent[Len(sent)].items = 1..Len(sent[Len(sent)].items)
    BY <2>2, SentAre
  <2>4. ItemsDone = Len(sent[Len(sent)].items) - Len(validating.items)
    BY <2>1 DEF ItemsDone
  <2>5. ItemsDone >= 0
    BY <1>8 DEF Checked
  <2>6. ItemsDone \in Nat /\ ItemsDone <= Len(sent[Len(sent)].items)
    BY <1>0, <2>3, <2>4, <2>5, Difference
  <2>7. 1..ItemsDone \subseteq DOMAIN sent[Len(sent)].items
    BY <2>3, <2>6
  <2> QED
    BY <2>1, <2>2, <2>3, <2>4, <2>6, <2>7 DEF Handled
<1>9. ASSUME NEW n, n = Len(sent), validating.n # 0, validating.errors = {}, NEW i \in 1..ItemsDone
      PROVE  Found(n, i)'
  <2>1. Found(n, i)
    BY <1>8, <1>9 DEF Checked
  <2>2. n \in DOMAIN sent \ Handled /\ i \in DOMAIN sent[n].items
    BY <1>8, <1>9
  <2> QED
    BY <2>1, <2>2, FoundStays
\* A step that keeps the items to be validated.
<1>10. ASSUME NEW n, NEW k, n = Len(sent), k = ItemsDone, validating.n # 0,
              sent' = sent, validating'.n = validating.n, validating'.items = validating.items,
              validating'.at \in {"checks", "zone", "actions"},
              validating'.at \in {"checks", "zone"} => k = 0,
              validating'.errors = {} =>
                validating.errors = {} /\ (validating'.at # "checks" => Differ(n))
       PROVE  Checked'
  <2>1. validating'.n = n /\ k \in Nat /\ Len(sent'[n].items) - Len(validating'.items) = k
    BY <1>8, <1>10
  <2>2. \A j \in 1..Len(validating'.items) : validating'.items[j] = sent'[n].items[k + j]
    <3>1. \A j \in 1..Len(validating.items) : validating.items[j] = ItemAt(validating.n, ItemsDone + j)
      BY <1>10 DEF Checked
    <3> QED
      BY <1>8, <1>10, <3>1 DEF ItemAt
  <2>3. Differ(n) => Differ(n)'
    BY <1>10 DEF Differ, ItemAt
  <2>4. validating'.errors = {} => \A i \in 1..k : Found(n, i)'
    BY <1>9, <1>10
  <2>5. validating'.errors = {} =>
          /\ validating'.at # "checks" => Differ(n)'
          /\ \A i \in 1..k : Found(n, i)'
    BY <1>10, <2>3, <2>4
  <2>6. validating'.at \in {"checks", "zone", "actions"} /\ (validating'.at \in {"checks", "zone"} => k = 0)
    BY <1>10
  <2> QED
    BY <2>1, <2>2, <2>5, <2>6, CheckedFrom
<1>11. CASE OrderChecks
  <2>1. /\ validating.n # 0 /\ validating.at = "checks" /\ sent' = sent
        /\ \E at \in {"actions", "zone"} : \E more \in SUBSET {"orderError"} :
             validating' = [validating EXCEPT !.at = at, !.errors = Duplicates(validating.items) \cup more]
    <3>1. /\ validating.n # 0 /\ validating.at = "checks" /\ sent' = sent
          /\ validating' =
               [validating EXCEPT
                 !.at = IF sent[validating.n].zones = {} THEN "actions" ELSE "zone",
                 !.errors = Duplicates(validating.items) \cup (IF Idle THEN {} ELSE {"orderError"})]
      BY <1>11 DEF OrderChecks, Validates
    <3>2. (IF sent[validating.n].zones = {} THEN "actions" ELSE "zone") \in {"actions", "zone"}
      BY Zenon
    <3>3. (IF Idle THEN {} ELSE {"orderError"}) \in SUBSET {"orderError"}
      OBVIOUS
    <3> QED
      BY <3>1, <3>2, <3>3, Zenon
  <2>2. /\ validating'.n = validating.n /\ validating'.items = validating.items
        /\ validating'.at \in {"actions", "zone"}
        /\ validating'.errors = {} => Duplicates(validating.items) = {}
    BY <1>0, <2>1 DEF Job
  <2>3. ItemsDone = 0
    BY <2>1 DEF Checked
  <2> SUFFICES ASSUME NEW n, NEW d, n = Len(sent), d = 0
               PROVE  Checked'
    OBVIOUS
  <2>4. \A j \in 1..Len(validating.items) : validating.items[j] = sent[n].items[0 + j]
    <3>1. \A j \in 1..Len(validating.items) : validating.items[j] = ItemAt(validating.n, ItemsDone + j)
      BY <2>1 DEF Checked
    <3> QED
      BY <1>8, <2>1, <2>3, <3>1 DEF ItemAt
  <2>5. Len(validating.items) = Len(sent[n].items) /\ Len(sent[n].items) \in Nat
        /\ DOMAIN sent[n].items = DOMAIN validating.items
    BY <1>0, <1>8, <2>1, <2>3
  <2>6. Duplicates(validating.items) = {} => Differ(n)'
    <3> SUFFICES ASSUME Duplicates(validating.items) = {}, NEW i \in DOMAIN validating.items,
                        NEW j \in DOMAIN validating.items,
                        sent[n].items[i].action.id = sent[n].items[j].action.id
                 PROVE  i = j
      BY <2>1, <2>5 DEF Differ, ItemAt
    <3>1. validating.items[i] = sent[n].items[i] /\ validating.items[j] = sent[n].items[j]
      BY <1>0, <2>4
    <3> QED
      BY <1>0, <3>1, DuplicatesMean
  <2>7. /\ validating'.n = n /\ Len(sent'[n].items) - Len(validating'.items) = d /\ d \in Nat
        /\ \A j \in 1..Len(validating'.items) : validating'.items[j] = sent'[n].items[d + j]
    BY <1>8, <2>1, <2>2, <2>4, <2>5
  <2>8. validating'.errors = {} =>
          /\ validating'.at # "checks" => Differ(n)'
          /\ \A i \in 1..d : Found(n, i)'
    BY <2>2, <2>6
  <2>9. validating'.at \in {"checks", "zone", "actions"} /\ (validating'.at \in {"checks", "zone"} => d = 0)
    BY <2>2
  <2> QED
    BY <2>7, <2>8, <2>9, CheckedFrom
<1>12. CASE ZoneAnswered
  <2>1. /\ validating.n # 0 /\ validating.at = "zone" /\ sent' = sent
        /\ \E more : validating' = [validating EXCEPT !.at = "actions", !.errors = @ \cup more]
    BY <1>12 DEF ZoneAnswered, Validates
  <2>2. /\ validating'.n = validating.n /\ validating'.items = validating.items
        /\ validating'.at = "actions"
        /\ validating'.errors = {} => validating.errors = {}
    BY <1>0, <2>1 DEF Job
  <2>3. validating.errors = {} => Differ(Len(sent))
    BY <1>8, <2>1 DEF Checked
  <2> QED
    BY <1>10, <2>1, <2>2, <2>3
<1>13. CASE ValidateAction
  <2> SUFFICES ASSUME NEW n, NEW k, NEW d, n = Len(sent), k = ItemsDone, d = k + 1
               PROVE  Checked'
    OBVIOUS
  <2> DEFINE item == Head(validating.items)
  <2>1. validating.n # 0 /\ validating.at = "actions" /\ sent' = sent /\ validating.items # <<>>
        /\ validating' = [validating EXCEPT !.items = Tail(validating.items), !.errors = @ \cup Answer(item)]
    BY <1>13 DEF ValidateAction, Validates
  <2>2. /\ validating'.n = n /\ validating'.items = Tail(validating.items) /\ validating'.at = "actions"
        /\ validating'.errors = {} => validating.errors = {} /\ Answer(item) = {}
    BY <1>0, <1>8, <2>1 DEF Job
  <2>3. /\ item = validating.items[1]
        /\ Len(validating.items) \in Nat \ {0} /\ Len(Tail(validating.items)) = Len(validating.items) - 1
        /\ \A i \in 1..Len(Tail(validating.items)) : Tail(validating.items)[i] = validating.items[i + 1]
    BY <1>0, <2>1, HeadAndTail
  <2>4. k \in Nat /\ k + 1 \in Nat /\ k + 1 \in DOMAIN sent[n].items
        /\ Len(sent[n].items) - Len(validating'.items) = k + 1
    <3>1. k \in Nat /\ Len(sent[n].items) \in Nat /\ k = Len(sent[n].items) - Len(validating.items)
          /\ DOMAIN sent[n].items = 1..Len(sent[n].items)
      BY <1>8, <2>1
    <3>2. Len(validating'.items) = Len(validating.items) - 1
      BY <2>2, <2>3
    <3>3. Len(validating.items) \in Nat /\ Len(validating.items) # 0
      BY <2>3
    <3> DEFINE a == Len(sent[n].items)
               b == Len(validating.items)
    <3>4. a \in Nat /\ b \in Nat \ {0} /\ k \in Nat /\ k = a - b /\ Len(validating'.items) = b - 1
      BY <3>1, <3>2, <3>3
    <3>5. k + 1 \in Nat /\ k + 1 \in 1..a /\ a - Len(validating'.items) = k + 1
      <4> HIDE DEF a, b
      <4> QED
        BY <3>4
    <3> QED
      BY <3>1, <3>5
  <2>5. \A j \in 1..Len(validating.items) : validating.items[j] = sent[n].items[k + j]
    <3>1. \A j \in 1..Len(validating.items) : validating.items[j] = ItemAt(validating.n, ItemsDone + j)
      BY <2>1 DEF Checked
    <3> QED
      BY <1>8, <2>1, <3>1 DEF ItemAt
  <2>6. item = sent[n].items[k + 1]
    BY <2>3, <2>5
  <2>7. \A j \in 1..Len(validating'.items) : validating'.items[j] = sent'[n].items[(k + 1) + j]
    <3> SUFFICES ASSUME NEW j \in 1..Len(Tail(validating.items))
                 PROVE  Tail(validating.items)[j] = sent[n].items[(k + 1) + j]
      BY <2>1, <2>2
    <3>1. j + 1 \in 1..Len(validating.items) /\ k + (j + 1) = (k + 1) + j
      BY <2>3, <2>4
    <3>2. Tail(validating.items)[j] = sent[n].items[k + (j + 1)]
      BY <2>3, <2>5, <3>1
    <3> QED
      BY <3>1, <3>2
  <2>8. validating.errors = {} => Differ(n)'
    <3>1. validating.errors = {} => Differ(n)
      BY <1>8, <2>1 DEF Checked
    <3> QED
      BY <2>1, <3>1 DEF Differ, ItemAt
  <2>9. Answer(item) = {} => Found(n, k + 1)'
    <3>1. ASSUME Answer(item) = {}, Kept(item)
          PROVE  item.action.id \in DOMAIN store'
      BY <1>13, <3>1, ValidateEffect
    <3>2. sent'[n].items[k + 1] = item
      BY <2>1, <2>6
    <3> QED
      BY <3>1, <3>2 DEF Found, ItemAt, IsHandled
  <2>10. validating.errors = {} => \A i \in 1..k : Found(n, i)'
    BY <1>9, <2>1
  <2>11. \A i \in 1..k + 1 : i \in 1..k \/ i = k + 1
    BY <2>4
  <2>12. validating'.errors = {} => \A i \in 1..k + 1 : Found(n, i)'
    BY <2>2, <2>9, <2>10, <2>11
  <2>13. validating'.errors = {} =>
           /\ validating'.at # "checks" => Differ(n)'
           /\ \A i \in 1..d : Found(n, i)'
    <3>1. \A i \in 1..d : i \in 1..k + 1
      OBVIOUS
    <3> QED
      BY <2>2, <2>8, <2>12, <3>1
  <2>14. /\ validating'.n = n /\ Len(sent'[n].items) - Len(validating'.items) = d /\ d \in Nat
         /\ validating'.at \in {"checks", "zone", "actions"} /\ ~(validating'.at \in {"checks", "zone"})
         /\ \A j \in 1..Len(validating'.items) : validating'.items[j] = sent'[n].items[d + j]
    BY <2>1, <2>2, <2>4, <2>7
  <2> QED
    BY <2>13, <2>14, CheckedFrom
\* A step that changes neither the job nor what was sent.
<1>14. ASSUME sent' = sent, validating' = validating
       PROVE  Checked'
  <2>1. validating.n # 0 =>
          /\ validating.at \in {"checks", "zone", "actions"}
          /\ validating.at \in {"checks", "zone"} => ItemsDone = 0
          /\ validating.errors = {} => (validating.at # "checks" => Differ(Len(sent)))
    BY <1>8 DEF Checked
  <2> QED
    BY <1>1, <1>10, <1>14, <2>1
<1>15. CASE ValidationTimesOut
  BY <1>14, <1>15 DEF ValidationTimesOut
<1>16. CASE UNCHANGED Pipeline
  BY <1>14, <1>16 DEF Pipeline
<1> QED
  BY <1>2, <1>3, <1>4, <1>6, <1>7, <1>11, <1>12, <1>13, <1>15, <1>16, PipelineCases

-----------------------------------------------------------------------------
(* What is accepted, kept and run *)

\* A message is accepted once all its items are validated.
LEMMA AcceptedNext ==
  ASSUME TypeOK, Line, Checked, [Next]_vars, accepted' # accepted
  PROVE  /\ Len(sent) \in DOMAIN sent \ accepted /\ accepted' = accepted \cup {Len(sent)}
         /\ Differ(Len(sent)) /\ \A i \in DOMAIN sent[Len(sent)].items : Found(Len(sent), i)
<1>0. /\ sent \in Seq(Messages) /\ Len(sent) \in Nat /\ DOMAIN sent = 1..Len(sent)
      /\ validating.n \in Nat /\ validating.items \in Seq(Items)
  BY JobTypes DEF TypeOK
<1>1. Gather
  <2>1. ASSUME NEW m \in Messages, Send(m)
        PROVE  FALSE
    BY <2>1 DEF Send
  <2> QED
    BY <2>1, PipelineCases DEF handleOrderMessage, handleInstantActionsMessage, ValidationTimesOut,
       handleValid, OrderChecks, ZoneAnswered, QueryTimesOut, ValidateAction, ValidateThrows, Pipeline
<1>2. /\ validating.n # 0 /\ validating.at = "actions" /\ validating.items = <<>>
      /\ validating.errors = {} /\ accepted' = accepted \cup {validating.n}
  BY <1>1 DEF Gather, Validates, Verdict
<1>3. validating.n = Len(sent) /\ Len(sent) \in DOMAIN sent /\ Len(sent) \notin accepted
  BY <1>0, <1>2 DEF Line
<1>4. DOMAIN sent[Len(sent)].items = 1..Len(sent[Len(sent)].items) /\ Len(sent[Len(sent)].items) \in Nat
  BY <1>3, SentAre
<1>5. ItemsDone = Len(sent[Len(sent)].items)
  <2>1. Len(<<>>) = 0
    OBVIOUS
  <2> QED
    BY <1>2, <1>3, <1>4, <2>1 DEF ItemsDone
<1>6. Differ(Len(sent)) /\ \A i \in 1..ItemsDone : Found(Len(sent), i)
  BY <1>2, <1>3 DEF Checked
<1> QED
  BY <1>2, <1>3, <1>4, <1>5, <1>6

LEMMA AcceptedSoundNext ==
  ASSUME TypeOK, Line, Checked, AcceptedSound, [Next]_vars
  PROVE  AcceptedSound'
<1> SUFFICES ASSUME NEW n \in accepted'
             PROVE  Differ(n)' /\ \A i \in DOMAIN sent'[n].items : Answer(sent'[n].items[i]) = {}
  BY DEF AcceptedSound, ItemAt
<1>1. Differ(n) /\ n \in DOMAIN sent /\ \A i \in DOMAIN sent[n].items : Answer(ItemAt(n, i)) = {}
  <2>1. CASE n \in accepted
    BY <2>1, HandledNext DEF AcceptedSound
  <2>2. CASE n \notin accepted
    BY <2>2, AcceptedNext DEF Found
  <2> QED
    BY <2>1, <2>2
<1>2. sent'[n] = sent[n]
  BY <1>1, SentStays
<1> QED
  BY <1>1, <1>2 DEF Differ, ItemAt

LEMMA KeptWaitsNext ==
  ASSUME TypeOK, Line, Checked, Untouched, KeptWaits, [Next]_vars
  PROVE  KeptWaits'
<1> SUFFICES ASSUME NEW n \in accepted', n \notin Handled', NEW i \in Released(n)'
             PROVE  Found(n, i)'
  BY DEF KeptWaits
<1>1. n \notin Handled /\ Handled \subseteq accepted /\ accepted \subseteq DOMAIN sent
  BY HandledNext
<1>2. n \in DOMAIN sent
  BY <1>1, AcceptedNext
<1>3. i \in Released(n) /\ i \in DOMAIN sent[n].items
  BY <1>2, BaseStays DEF Released
<1>4. Found(n, i)
  <2>1. CASE n \in accepted
    BY <1>1, <1>3, <2>1 DEF KeptWaits
  <2>2. CASE n \notin accepted
    BY <1>3, <2>2, AcceptedNext
  <2> QED
    BY <2>1, <2>2
<1> QED
  BY <1>1, <1>2, <1>3, <1>4, FoundStays

\* The item that is validated next is one of the message.
LEMMA NextItem ==
  ASSUME TypeOK, Line, Checked, ValidateAction
  PROVE  \E i \in DOMAIN sent[Len(sent)].items :
           /\ Len(sent) \in DOMAIN sent /\ Len(sent) \notin accepted
           /\ Head(validating.items) = ItemAt(Len(sent), i)
<1>0. /\ sent \in Seq(Messages) /\ Len(sent) \in Nat /\ DOMAIN sent = 1..Len(sent)
      /\ validating.n \in Nat /\ validating.items \in Seq(Items)
  BY JobTypes DEF TypeOK
<1>1. validating.n # 0 /\ validating.items # <<>>
  BY DEF ValidateAction, Validates
<1>2. validating.n = Len(sent) /\ Len(sent) \in DOMAIN sent /\ Len(sent) \notin accepted
  BY <1>0, <1>1 DEF Line
<1>3. DOMAIN sent[Len(sent)].items = 1..Len(sent[Len(sent)].items) /\ Len(sent[Len(sent)].items) \in Nat
  BY <1>2, SentAre
<1>4. Head(validating.items) = validating.items[1] /\ Len(validating.items) \in Nat \ {0}
  BY <1>0, <1>1, HeadAndTail
<1>5. ItemsDone >= 0 /\ ItemsDone = Len(sent[Len(sent)].items) - Len(validating.items)
  BY <1>1, <1>2 DEF Checked, ItemsDone
<1>6. validating.items[1] = ItemAt(Len(sent), ItemsDone + 1)
  BY <1>1, <1>2, <1>4 DEF Checked
<1> DEFINE a == Len(sent[Len(sent)].items)
           b == Len(validating.items)
<1>7. a \in Nat /\ b \in Nat \ {0} /\ ItemsDone = a - b /\ a - b >= 0
  BY <1>3, <1>4, <1>5
<1>8. ItemsDone + 1 \in 1..a
  <2> HIDE DEF a, b
  <2> QED
    BY <1>7
<1> QED
  BY <1>2, <1>3, <1>4, <1>6, <1>8

LEMMA SoundDepends ==
  ASSUME NEW s, NEW t, s.handler = t.handler, s.action = t.action, s.parsed = t.parsed, Sound(s)
  PROVE  Sound(t)
  BY DEF Sound

LEMMA StoresSoundNext ==
  ASSUME TypeOK, Line, Checked, StoresSound, [Next]_vars
  PROVE  StoresSound'
<1>1. ASSUME NEW id \in DOMAIN store'
      PROVE  \/ /\ id \in DOMAIN store
                /\ \/ store'[id] = store[id]
                   \/ store'[id] = [store[id] EXCEPT !.state = TRUE, !.callbacks = TRUE]
                   \/ store'[id] = [store[id] EXCEPT !.state = TRUE]
             \/ /\ ValidateAction /\ Answer(Head(validating.items)) = {} /\ Kept(Head(validating.items))
                /\ id = Head(validating.items).action.id /\ store'[id] = NewStore(Head(validating.items))
  <2>1. CASE store' = store
    BY <1>1, <2>1
  <2>2. CASE ValidateAction /\ store' # store
    <3> DEFINE item == Head(validating.items)
    <3>1. Answer(item) = {} /\ Kept(item) /\ store' = insert_or_assign(item.action.id, NewStore(item))
      BY <2>2, ValidateEffect
    <3>2. ASSUME NEW i, NEW s, store' = insert_or_assign(i, s)
          PROVE  /\ DOMAIN store' = {i} \cup DOMAIN store
                 /\ store'[i] = s
                 /\ \A j \in DOMAIN store \ {i} : store'[j] = store[j]
      BY <3>2 DEF insert_or_assign
    <3> HIDE DEF item
    <3>3. \/ id = item.action.id /\ store'[id] = NewStore(item)
          \/ id \in DOMAIN store /\ store'[id] = store[id]
      BY <1>1, <3>1, <3>2
    <3> QED
      BY <2>2, <3>1, <3>3 DEF item
  <2>3. CASE handlePrepareEvent \/ PrepareThrows
    <3>1. \E j \in DOMAIN store :
            \/ store' = [store EXCEPT ![j].state = TRUE, ![j].callbacks = TRUE]
            \/ store' = [store EXCEPT ![j].state = TRUE]
      BY <2>3 DEF handlePrepareEvent, PrepareThrows, IsHandled
    <3>2. PICK j \in DOMAIN store :
            /\ DOMAIN store' = DOMAIN store
            /\ \A i \in DOMAIN store \ {j} : store'[i] = store[i]
            /\ \/ store'[j] = [store[j] EXCEPT !.state = TRUE, !.callbacks = TRUE]
               \/ store'[j] = [store[j] EXCEPT !.state = TRUE]
      BY <3>1, PrepareEffect
    <3> QED
      BY <1>1, <3>2
  <2>4. CASE handleForgetEvent
    <3>1. store' = [i \in DOMAIN store \ {Head(queue).id} |-> store[i]]
      BY <2>4 DEF handleForgetEvent, Restrict
    <3> QED
      BY <1>1, <3>1
  <2> QED
    BY <2>1, <2>2, <2>3, <2>4, ChangedBy
<1>2. ASSUME NEW id \in DOMAIN store'
      PROVE  /\ Sound(store'[id])
             /\ \E n \in DOMAIN sent : \E i \in DOMAIN sent[n].items :
                  ItemAt(n, i).action.id = id /\ ~IsControl(ItemAt(n, i).action)
  <2>1. CASE /\ id \in DOMAIN store
             /\ \/ store'[id] = store[id]
                \/ store'[id] = [store[id] EXCEPT !.state = TRUE, !.callbacks = TRUE]
                \/ store'[id] = [store[id] EXCEPT !.state = TRUE]
    <3>1. Sound(store[id]) /\ store[id] \in Stores
      BY <2>1 DEF StoresSound, TypeOK
    <3>2. /\ store'[id].handler = store[id].handler /\ store'[id].action = store[id].action
          /\ store'[id].parsed = store[id].parsed
      BY <2>1, <3>1 DEF Stores
    <3>3. Sound(store'[id])
      BY <3>1, <3>2, SoundDepends
    <3> QED
      BY <2>1, <3>3 DEF StoresSound
  <2>2. CASE /\ ValidateAction /\ Answer(Head(validating.items)) = {} /\ Kept(Head(validating.items))
             /\ id = Head(validating.items).action.id /\ store'[id] = NewStore(Head(validating.items))
    <3>1. Head(validating.items) \in Items
      BY <2>2, ValidateEffect
    <3>2. Sound(store'[id])
      BY <2>2, <3>1, NewStoreMeans
    <3>3. \E i \in DOMAIN sent[Len(sent)].items :
            Len(sent) \in DOMAIN sent /\ Head(validating.items) = ItemAt(Len(sent), i)
      BY <2>2, NextItem
    <3> QED
      BY <2>2, <3>2, <3>3 DEF Kept
  <2> QED
    BY <1>1, <1>2, <2>1, <2>2
<1>3. ASSUME NEW id \in DOMAIN store'
      PROVE  (\E n \in DOMAIN sent : \E i \in DOMAIN sent[n].items :
                ItemAt(n, i).action.id = id /\ ~IsControl(ItemAt(n, i).action))'
  <2>1. PICK n \in DOMAIN sent : \E i \in DOMAIN sent[n].items :
               ItemAt(n, i).action.id = id /\ ~IsControl(ItemAt(n, i).action)
    BY <1>2, <1>3
  <2>2. n \in DOMAIN sent' /\ sent'[n] = sent[n]
    BY SentStays
  <2> QED
    BY <2>1, <2>2 DEF ItemAt
<1>4. ASSUME NEW s \in ran'
      PROVE  Sound(s)
  <2>1. CASE s \in ran
    BY <2>1 DEF StoresSound
  <2>2. CASE s \notin ran
    <3>1. handleCallbackEvent
      BY <1>4, <2>2, ChangedBy
    <3>2. Head(queue).id \in DOMAIN store /\ s = store[Head(queue).id]
      BY <1>4, <2>2, <3>1 DEF handleCallbackEvent, IsHandled
    <3> QED
      BY <3>2 DEF StoresSound
  <2> QED
    BY <2>1, <2>2
<1> QED
  BY <1>2, <1>3, <1>4 DEF StoresSound

-----------------------------------------------------------------------------
(* The action event thread keeps up with the scheduler *)

\* The step leaves the store of the id alone.
SameStore(id) ==
  /\ IsHandled(id)' = IsHandled(id)
  /\ IsHandled(id) => store'[id] = store[id]

LEMMA SettledStays ==
  ASSUME NEW id, SameStore(id)
  PROVE  Settled(id)' = Settled(id)
  BY DEF SameStore, Settled, Prepared, IsHandled

\* The calls and the events that are left when the first event is worked off.
LEMMA FirstGone ==
  ASSUME TypeOK, NEW id, queue # <<>>, queue' = Tail(queue)
  PROVE  /\ queue[1] = Head(queue) /\ Head(queue) \in Events
         /\ \A k \in DOMAIN queue' : k \in Nat /\ k + 1 \in DOMAIN queue /\ queue'[k] = queue[k + 1]
         /\ \A k \in DOMAIN queue : k \in Nat /\ (k = 1 \/ (k - 1 \in DOMAIN queue' /\ queue'[k - 1] = queue[k]))
         /\ Calls(id)' \subseteq Calls(id)
         /\ \A name \in Calls(id) : name \in Calls(id)' \/ (Head(queue).id = id /\ Head(queue).name = name)
<1>0. queue \in Seq(Events) /\ DOMAIN queue = 1..Len(queue)
  BY DEF TypeOK
<1>1. /\ queue[1] = Head(queue) /\ Head(queue) \in Events /\ Tail(queue) \in Seq(Events)
      /\ Len(queue) \in Nat \ {0} /\ Len(Tail(queue)) = Len(queue) - 1
      /\ \A k \in 1..Len(Tail(queue)) : Tail(queue)[k] = queue[k + 1]
  BY <1>0, HeadAndTail
<1>2. DOMAIN queue' = 1..Len(queue) - 1
  BY <1>1
<1>3. \A k \in DOMAIN queue' : k \in Nat /\ k + 1 \in DOMAIN queue /\ queue'[k] = queue[k + 1]
  BY <1>0, <1>1, <1>2
<1>4. \A k \in DOMAIN queue : k \in Nat /\ (k = 1 \/ (k - 1 \in DOMAIN queue' /\ queue'[k - 1] = queue[k]))
  <2> SUFFICES ASSUME NEW k \in DOMAIN queue
               PROVE  k \in Nat /\ (k = 1 \/ (k - 1 \in DOMAIN queue' /\ queue'[k - 1] = queue[k]))
    OBVIOUS
  <2>1. k \in Nat
    BY <1>0, <1>1
  <2>2. CASE k # 1
    <3>1. k - 1 \in DOMAIN queue' /\ (k - 1) + 1 = k
      BY <1>0, <1>1, <1>2, <2>2
    <3>2. queue'[k - 1] = queue[k]
      BY <1>3, <3>1
    <3> QED
      BY <2>1, <3>1, <3>2
  <2> QED
    BY <2>1, <2>2
<1>5. Calls(id)' \subseteq Calls(id)
  BY <1>3 DEF Calls
<1>6. ASSUME NEW name \in Calls(id)
      PROVE  name \in Calls(id)' \/ (Head(queue).id = id /\ Head(queue).name = name)
  <2>1. PICK k \in DOMAIN queue : queue[k].id = id /\ queue[k].name = name
    BY <1>6 DEF Calls
  <2>2. CASE k = 1
    BY <1>1, <2>1, <2>2
  <2>3. CASE k - 1 \in DOMAIN queue' /\ queue'[k - 1] = queue[k]
    BY <2>1, <2>3 DEF Calls
  <2> QED
    BY <1>4, <2>2, <2>3
<1> QED
  BY <1>1, <1>3, <1>4, <1>5, <1>6

LEMMA ReadyWithoutFirst ==
  ASSUME TypeOK, NEW id, queue # <<>>, queue' = Tail(queue), task' = task, SameStore(id),
         Head(queue).id # id, Ready(id)
  PROVE  Ready(id)'
<1>1. Settled(id)' = Settled(id)
  BY SettledStays
<1>2. /\ queue[1] = Head(queue)
      /\ \A k \in DOMAIN queue' : k \in Nat /\ k + 1 \in DOMAIN queue /\ queue'[k] = queue[k + 1]
      /\ \A k \in DOMAIN queue : k \in Nat /\ (k = 1 \/ (k - 1 \in DOMAIN queue' /\ queue'[k - 1] = queue[k]))
  BY FirstGone
<1>3. \A k \in DOMAIN queue : queue[k] = Event("prepare", id) => k - 1 \in DOMAIN queue' /\ queue'[k - 1] = queue[k]
  <2>1. Head(queue) # Event("prepare", id)
    BY DEF Event
  <2> QED
    BY <1>2, <2>1
<1>4. task'[id] # NoTask => Settled(id)' \/ \E k \in DOMAIN queue' : queue'[k] = Event("prepare", id)
  BY <1>1, <1>3 DEF Ready
<1>5. ASSUME NEW k \in DOMAIN queue', queue'[k].id = id, queue'[k].name \in Callback
      PROVE  Settled(id)' \/ \E j \in 1..k-1 : queue'[j] = Event("prepare", id)
  <2>1. k \in Nat /\ k + 1 \in DOMAIN queue /\ queue[k + 1].id = id /\ queue[k + 1].name \in Callback
    BY <1>2, <1>5
  <2>2. Settled(id) \/ \E j \in 1..(k + 1)-1 : queue[j] = Event("prepare", id)
    BY <2>1 DEF Ready
  <2>3. ASSUME NEW j \in 1..(k + 1)-1, queue[j] = Event("prepare", id)
        PROVE  \E i \in 1..k-1 : queue'[i] = Event("prepare", id)
    <3>1. queue \in Seq(Events) /\ DOMAIN queue = 1..Len(queue) /\ Len(queue) \in Nat
      BY DEF TypeOK
    <3>2. j \in DOMAIN queue
      BY <2>1, <3>1
    <3>3. j - 1 \in DOMAIN queue' /\ queue'[j - 1] = Event("prepare", id)
      BY <1>3, <2>3, <3>2
    <3>4. j - 1 \in Nat /\ j - 1 # 0
      BY <1>2, <3>3
    <3>5. j - 1 \in 1..k-1
      BY <2>1, <3>4
    <3> QED
      BY <3>3, <3>5
  <2> QED
    BY <1>1, <2>2, <2>3
<1> QED
  BY <1>4, <1>5 DEF Ready

\* The events that come after those that are there.
LEMMA EventsAdded ==
  ASSUME TypeOK, NEW evs \in Seq(Events), queue' = queue \o evs
  PROVE  /\ \A k \in DOMAIN queue : k \in DOMAIN queue' /\ queue'[k] = queue[k]
         /\ \A k \in DOMAIN evs : \E i \in DOMAIN queue' : queue'[i] = evs[k]
         /\ \A k \in DOMAIN queue' :
              \/ k \in DOMAIN queue /\ queue'[k] = queue[k]
              \/ /\ \E j \in DOMAIN evs : queue'[k] = evs[j]
                 /\ \A i \in DOMAIN queue : i \in 1..k-1
<1>0. queue \in Seq(Events) /\ DOMAIN queue = 1..Len(queue) /\ Len(queue) \in Nat
  BY DEF TypeOK
<1>1. DOMAIN evs = 1..Len(evs)
  OBVIOUS
<1>2. /\ queue' \in Seq(Events) /\ Len(queue') = Len(queue) + Len(evs) /\ Len(evs) \in Nat
      /\ \A i \in 1..Len(queue) : queue'[i] = queue[i]
      /\ \A i \in 1..Len(evs) : queue'[Len(queue) + i] = evs[i]
  BY <1>0, Joined
<1>3. DOMAIN queue' = 1..Len(queue) + Len(evs)
  BY <1>2
<1>4. \A k \in DOMAIN queue : k \in DOMAIN queue' /\ queue'[k] = queue[k]
  BY <1>0, <1>2, <1>3
<1>5. \A k \in DOMAIN evs : \E i \in DOMAIN queue' : queue'[i] = evs[k]
  <2> SUFFICES ASSUME NEW k \in DOMAIN evs
               PROVE  \E i \in DOMAIN queue' : queue'[i] = evs[k]
    OBVIOUS
  <2>1. Len(queue) + k \in DOMAIN queue' /\ queue'[Len(queue) + k] = evs[k]
    BY <1>0, <1>1, <1>2, <1>3
  <2> QED
    BY <2>1
<1>6. \A k \in DOMAIN queue' :
        \/ k \in DOMAIN queue /\ queue'[k] = queue[k]
        \/ /\ \E j \in DOMAIN evs : queue'[k] = evs[j]
           /\ \A i \in DOMAIN queue : i \in 1..k-1
  <2> SUFFICES ASSUME NEW k \in DOMAIN queue'
               PROVE  \/ k \in DOMAIN queue /\ queue'[k] = queue[k]
                      \/ /\ \E j \in DOMAIN evs : queue'[k] = evs[j]
                         /\ \A i \in DOMAIN queue : i \in 1..k-1
    OBVIOUS
  <2>1. CASE k > Len(queue) /\ \E j \in DOMAIN evs : queue'[k] = evs[j]
    <3>1. \A i \in DOMAIN queue : i \in 1..k-1
      BY <1>0, <1>3, <2>1
    <3> QED
      BY <2>1, <3>1
  <2> QED
    BY <1>0, <2>1, JoinedElements
<1> QED
  BY <1>4, <1>5, <1>6

LEMMA CallsAdded ==
  ASSUME TypeOK, NEW id \in Id, NEW evs \in Seq(Events), queue' = queue \o evs
  PROVE  \A name : name \in Calls(id)' <=>
           name \in Calls(id) \/ \E j \in DOMAIN evs : evs[j].id = id /\ evs[j].name = name
<1>1. /\ \A k \in DOMAIN queue : k \in DOMAIN queue' /\ queue'[k] = queue[k]
      /\ \A k \in DOMAIN evs : \E i \in DOMAIN queue' : queue'[i] = evs[k]
      /\ \A k \in DOMAIN queue' :
           \/ k \in DOMAIN queue /\ queue'[k] = queue[k]
           \/ \E j \in DOMAIN evs : queue'[k] = evs[j]
  BY EventsAdded
<1>2. \A name \in Calls(id)' : name \in Calls(id) \/ \E j \in DOMAIN evs : evs[j].id = id /\ evs[j].name = name
  BY <1>1 DEF Calls
<1>3. Calls(id) \subseteq Calls(id)'
  BY <1>1 DEF Calls
<1>4. \A j \in DOMAIN evs : evs[j].id = id => evs[j].name \in Calls(id)'
  BY <1>1 DEF Calls
<1> QED
  BY <1>2, <1>3, <1>4

\* An id with a task, or without a new callback, stays ready.
LEMMA ReadyWithMore ==
  ASSUME TypeOK, NEW id, NEW evs \in Seq(Events), queue' = queue \o evs, SameStore(id), Ready(id),
         \/ task[id] # NoTask
         \/ /\ \A j \in DOMAIN evs : evs[j].id = id => evs[j].name \notin Callback
            /\ \/ task'[id] = NoTask
               \/ \E j \in DOMAIN evs : evs[j] = Event("prepare", id)
  PROVE  Ready(id)'
<1>1. Settled(id)' = Settled(id)
  BY SettledStays
<1>2. /\ \A k \in DOMAIN queue : k \in DOMAIN queue' /\ queue'[k] = queue[k]
      /\ \A k \in DOMAIN evs : \E i \in DOMAIN queue' : queue'[i] = evs[k]
      /\ \A k \in DOMAIN queue' :
           \/ k \in DOMAIN queue /\ queue'[k] = queue[k]
           \/ /\ \E j \in DOMAIN evs : queue'[k] = evs[j]
              /\ \A i \in DOMAIN queue : i \in 1..k-1
  BY EventsAdded
<1>3. task'[id] # NoTask => Settled(id)' \/ \E k \in DOMAIN queue' : queue'[k] = Event("prepare", id)
  BY <1>1, <1>2 DEF Ready
<1>4. ASSUME NEW k \in DOMAIN queue', queue'[k].id = id, queue'[k].name \in Callback
      PROVE  Settled(id)' \/ \E j \in 1..k-1 : queue'[j] = Event("prepare", id)
  <2>0. queue \in Seq(Events) /\ DOMAIN queue = 1..Len(queue) /\ Len(queue) \in Nat
    BY DEF TypeOK
  <2>1. CASE k \in DOMAIN queue /\ queue'[k] = queue[k]
    <3>1. Settled(id) \/ \E j \in 1..k-1 : queue[j] = Event("prepare", id)
      BY <1>4, <2>1 DEF Ready
    <3>2. \A j \in 1..k-1 : j \in DOMAIN queue
      BY <2>0, <2>1
    <3> QED
      BY <1>1, <1>2, <3>1, <3>2
  <2>2. CASE (\E j \in DOMAIN evs : queue'[k] = evs[j]) /\ \A i \in DOMAIN queue : i \in 1..k-1
    <3>1. task[id] # NoTask
      BY <1>4, <2>2
    <3>2. Settled(id) \/ \E j \in DOMAIN queue : queue[j] = Event("prepare", id)
      BY <3>1 DEF Ready
    <3> QED
      BY <1>1, <1>2, <2>2, <3>2
  <2> QED
    BY <1>2, <2>1, <2>2
<1> QED
  BY <1>3, <1>4 DEF Ready

\* An append adds a sequence of one event.
LEMMA OneAdded ==
  ASSUME TypeOK, NEW e \in Events, queue' = Append(queue, e)
  PROVE  /\ <<e>> \in Seq(Events) /\ queue' = queue \o <<e>>
         /\ DOMAIN <<e>> = {1} /\ <<e>>[1] = e
<1>1. queue \in Seq(Events)
  BY DEF TypeOK
<1>2. Append(queue, e) = queue \o <<e>>
  BY <1>1, AppendIsConcat
<1> QED
  BY <1>2

\* Without handleValid no action comes to the scheduler.
LEMMA OfOrderBefore ==
  ASSUME TypeOK, Line, [Next]_vars, ~handleValid, NEW id, OfOrder(id)'
  PROVE  OfOrder(id)
<1>1. Handled' = Handled /\ Handled \subseteq DOMAIN sent
  BY HandledNext
<1>2. \A n \in DOMAIN sent : sent'[n] = sent[n]
  BY SentStays
<1> QED
  BY <1>1, <1>2 DEF OfOrder, Released, ItemAt

LEMMA AliveShrinks ==
  ASSUME TypeOK, [Next]_vars
  PROVE  alive' \subseteq alive
<1>1. CASE ValidationTimesOut \/ QueryThrows \/ QueryTimesOut \/ ValidateThrows \/ PrepareThrows
  BY <1>1 DEF ValidationTimesOut, QueryThrows, QueryTimesOut, ValidateThrows, PrepareThrows, Ends
<1>2. CASE handleCallbackEvent
  <2>1. alive' = alive \/ alive' = alive \ {"action"}
    BY <1>2, Zenon DEF handleCallbackEvent, Ends
  <2> QED
    BY <2>1
<1> QED
  BY <1>1, <1>2, ChangedBy

\* What is not with the scheduler is ready for it.
LEMMA FreshId ==
  ASSUME TypeOK, Line, Untouched, NEW id \in Id, ~InBase(id)
  PROVE  /\ task[id] = NoTask /\ ~OfOrder(id)
         /\ \A k \in DOMAIN queue : queue[k].id # id
         /\ Calls(id) = {} /\ Ready(id)
<1>1. task[id] = NoTask /\ \A k \in DOMAIN queue : queue[k].id # id
  BY DEF Untouched, InBase
<1> QED
  BY <1>1 DEF OfOrder, InBase, Calls, Ready

\* An item of a message that is not with the scheduler has an id that is not.
LEMMA FreshItem ==
  ASSUME TypeOK, Line, [Next]_vars, NEW n \in DOMAIN sent \ Handled, NEW i \in DOMAIN sent[n].items,
         NEW id, id = ItemAt(n, i).action.id, UsedOnce(id)
  PROVE  ~InBase(id)
<1> SUFFICES ASSUME NEW k \in Handled, NEW j \in Released(k), ItemAt(k, j).action.id = id
             PROVE  FALSE
  BY DEF InBase
<1>1. k \in DOMAIN sent /\ j \in DOMAIN sent[k].items
  BY HandledNext DEF Released
<1>2. n = k
  BY <1>1, OnePlace
<1> QED
  BY <1>2

\* A step that touches nothing of the id.
LEMMA FollowsStays ==
  ASSUME NEW id, UNCHANGED <<queue, task, told>>, SameStore(id)
  PROVE  /\ Ready(id) => Ready(id)'
         /\ Follows(id) => Follows(id)'
<1>1. Settled(id)' = Settled(id)
  BY SettledStays
<1>2. Calls(id)' = Calls(id)
  BY DEF Calls
<1>3. Ready(id) => Ready(id)'
  BY <1>1 DEF Ready
<1>4. Follows(id) => Follows(id)'
  BY <1>2 DEF Follows, SameStore
<1> QED
  BY <1>3, <1>4

\* The scheduler takes over the base of a valid message.
LEMMA FollowsValid ==
  ASSUME TypeOK, Line, Untouched, KeptWaits, handleValid, [Next]_vars, NEW id \in Id, UsedOnce(id),
         Ready(id), OfOrder(id) => Follows(id)
  PROVE  Ready(id)' /\ (OfOrder(id)' => Follows(id)')
<1> DEFINE n   == Len(sent)
           new == {ItemAt(n, i).action.id : i \in {i \in Released(n) : ~IsControl(ItemAt(n, i).action)}}
<1>1. /\ n \in DOMAIN sent /\ n \in accepted
      /\ task' = [j \in Id |-> IF j \in new THEN "Waiting" ELSE task[j]]
  BY handleValidEffect
<1>2. PICK evs \in Seq(Events) :
        /\ queue' = queue \o evs
        /\ \A k \in DOMAIN evs : \E i \in Released(n) : evs[k] = Event("prepare", ItemAt(n, i).action.id)
        /\ \A i \in Released(n) : \E k \in DOMAIN evs : evs[k] = Event("prepare", ItemAt(n, i).action.id)
  BY handleValidEffect
<1>3. n \notin Handled /\ Handled' = Handled \cup {n}
  BY HandledNext
<1>4. SameStore(id) /\ told' = told /\ sent' = sent
  BY DEF handleValid, SameStore, IsHandled
<1>5. \A k \in DOMAIN evs : evs[k].name = "prepare"
  BY <1>2 DEF Event
<1>6. \A k \in DOMAIN evs : evs[k].id = id => evs[k] = Event("prepare", id) /\ \E i \in Released(n) : ItemAt(n, i).action.id = id
  BY <1>2 DEF Event
<1>7. "prepare" \notin Callback /\ "Waiting" # NoTask
  BY DEF Callback, NoTask
<1>8. Calls(id) \subseteq Calls(id)' /\ Calls(id)' \subseteq Calls(id) \cup {"prepare"}
  <2>1. \A name : name \in Calls(id)' <=>
            name \in Calls(id) \/ \E j \in DOMAIN evs : evs[j].id = id /\ evs[j].name = name
    BY <1>2, CallsAdded
  <2> QED
    BY <1>5, <2>1
<1>9. CASE \E i \in Released(n) : ItemAt(n, i).action.id = id
  <2>1. PICK i \in Released(n) : ItemAt(n, i).action.id = id
    BY <1>9
  <2>2. i \in DOMAIN sent[n].items /\ n \in DOMAIN sent \ Handled
    BY <1>1, <1>3 DEF Released
  <2>3. ~InBase(id)
    BY <2>1, <2>2, FreshItem
  <2>4. task[id] = NoTask /\ Calls(id) = {}
    BY <2>3, FreshId
  <2>5. \E j \in DOMAIN evs : evs[j] = Event("prepare", id)
    BY <1>2, <2>1
  <2>6. Ready(id)'
    BY <1>2, <1>4, <1>5, <1>7, <2>5, ReadyWithMore
  <2>7. Found(n, i)
    BY <1>1, <1>3 DEF KeptWaits
  <2>8. ASSUME OfOrder(id)'
        PROVE  Kept(ItemAt(n, i))
    <3>1. PICK k \in Handled' : \E j \in Released(k)' : ItemAt(k, j)'.action.id = id /\ Kept(ItemAt(k, j)')
      BY <2>8 DEF OfOrder
    <3>2. PICK j \in Released(k)' : ItemAt(k, j)'.action.id = id /\ Kept(ItemAt(k, j)')
      BY <3>1
    <3>3. k \in DOMAIN sent
      BY <1>1, <1>3, HandledNext
    <3>4. j \in DOMAIN sent[k].items /\ ItemAt(k, j)' = ItemAt(k, j)
      BY <1>4, <3>2 DEF Released, ItemAt
    <3>5. n = k /\ i = j
      BY <2>1, <2>2, <3>2, <3>3, <3>4, OnePlace
    <3> QED
      BY <3>2, <3>4, <3>5
  <2>9. OfOrder(id)' => Follows(id)'
    <3> SUFFICES ASSUME OfOrder(id)'
                 PROVE  Follows(id)'
      OBVIOUS
    <3>1. Kept(ItemAt(n, i))
      BY <2>8
    <3>2. IsHandled(id)
      BY <2>1, <2>7, <3>1 DEF Found
    <3>3. id \in new
      BY <2>1, <3>1 DEF Kept
    <3>4. task'[id] = "Waiting"
      BY <1>1, <3>3
    <3>5. Calls(id)' \subseteq {"prepare"}
      BY <1>8, <2>4
    <3>6. IsHandled(id)'
      BY <1>4, <3>2 DEF SameStore
    <3> QED
      BY <3>4, <3>5, <3>6 DEF Follows, Callback, ActionTerminal, NoTask
  <2> QED
    BY <2>6, <2>9
<1>10. CASE ~\E i \in Released(n) : ItemAt(n, i).action.id = id
  <2>1. \A j \in DOMAIN evs : evs[j].id # id
    BY <1>6, <1>10
  <2>2. task'[id] = task[id]
    <3>1. id \notin new
      BY <1>10
    <3> QED
      BY <1>1, <3>1
  <2>3. Ready(id)'
    BY <1>2, <1>4, <2>1, <2>2, ReadyWithMore
  <2>4. Calls(id)' = Calls(id)
    <3>1. \A name : name \in Calls(id)' <=>
            name \in Calls(id) \/ \E j \in DOMAIN evs : evs[j].id = id /\ evs[j].name = name
      BY <1>2, CallsAdded
    <3> QED
      BY <2>1, <3>1
  <2>5. OfOrder(id)' => OfOrder(id)
    BY <1>3, <1>4, <1>10 DEF OfOrder, Released, ItemAt
  <2>6. Follows(id) => Follows(id)'
    BY <1>4, <2>2, <2>4 DEF Follows, SameStore
  <2> QED
    BY <2>3, <2>5, <2>6
<1> QED
  BY <1>9, <1>10

\* The scheduler moves or dismisses a task.
LEMMA FollowsMove ==
  ASSUME TypeOK, Line, Untouched, [Next]_vars, ~handleValid, NEW id \in Id,
         Ready(id), OfOrder(id) => Follows(id),
         NEW j \in Id,
         Dismiss(j) \/ \E t \in ActionTransition : Moves(j, t)
  PROVE  Ready(id)' /\ (OfOrder(id)' => Follows(id)')
<1>0. task \in [Id -> TaskState] /\ queue \in Seq(Events) /\ told' = told /\ SameStore(id)
  BY DEF TypeOK, Dismiss, Moves, Transition, SameStore, IsHandled
<1>1. OfOrder(id)' => Follows(id)
  BY OfOrderBefore
<1>2. task[j] # NoTask
  BY DEF Dismiss, Moves, Transition, NoTask
<1>3. ASSUME queue' = queue
      PROVE  Calls(id)' = Calls(id) /\ (task[id] # NoTask \/ task'[id] = task[id] => Ready(id)')
  <2>1. Settled(id)' = Settled(id)
    BY <1>0, SettledStays
  <2> QED
    BY <1>3, <2>1 DEF Calls, Ready
<1>4. ASSUME NEW name \in EventName, queue' = Append(queue, Event(name, j))
      PROVE  /\ Calls(id)' = Calls(id) \cup (IF j = id THEN {name} ELSE {})
             /\ task[id] # NoTask \/ (task'[id] = task[id] /\ j # id) => Ready(id)'
  <2> DEFINE evs == <<Event(name, j)>>
  <2>1. Event(name, j) \in Events /\ Event(name, j).name = name /\ Event(name, j).id = j
    BY EventsAre
  <2>2. evs \in Seq(Events) /\ queue' = queue \o evs /\ DOMAIN evs = {1} /\ evs[1] = Event(name, j)
    BY <1>4, <2>1, OneAdded
  <2> HIDE DEF evs
  <2>3. \A x : x \in Calls(id)' <=>
          x \in Calls(id) \/ \E k \in DOMAIN evs : evs[k].id = id /\ evs[k].name = x
    BY <2>2, CallsAdded
  <2>4. Calls(id)' = Calls(id) \cup (IF j = id THEN {name} ELSE {})
    BY <2>1, <2>2, <2>3
  <2>5. task[id] # NoTask => Ready(id)'
    BY <1>0, <2>2, ReadyWithMore
  <2>6. task[id] = NoTask /\ task'[id] = task[id] /\ j # id => Ready(id)'
    BY <1>0, <2>1, <2>2, ReadyWithMore
  <2> QED
    BY <2>4, <2>5, <2>6
<1>5. CASE Dismiss(j)
  <2>1. task[j] = "Waiting" /\ task' = [task EXCEPT ![j] = NoTask] /\ queue' = Append(queue, Event("forget", j))
    BY <1>5 DEF Dismiss, Dispatched
  <2>2. "forget" \in EventName
    BY DEF EventName
  <2>3. Calls(id)' = Calls(id) \cup (IF j = id THEN {"forget"} ELSE {})
    BY <1>4, <2>1, <2>2
  <2>4. Ready(id)'
    <3>1. CASE j = id
      BY <1>2, <1>4, <2>1, <2>2, <3>1
    <3>2. CASE j # id
      BY <1>0, <1>4, <2>1, <2>2, <3>2
    <3> QED
      BY <3>1, <3>2
  <2>5. ASSUME OfOrder(id)' PROVE Follows(id)'
    <3>1. CASE j = id
      <4>1. task'[id] = NoTask /\ "forget" \in Calls(id)'
        BY <1>0, <2>1, <2>3, <3>1
      <4> QED
        BY <4>1 DEF Follows, NoTask, ActionState
    <3>2. CASE j # id
      <4>1. task'[id] = task[id] /\ Calls(id)' = Calls(id)
        BY <1>0, <2>1, <2>3, <3>2
      <4> QED
        BY <1>0, <1>1, <2>5, <4>1 DEF Follows, SameStore
    <3> QED
      BY <3>1, <3>2
  <2> QED
    BY <2>4, <2>5
<1>6. ASSUME NEW t \in ActionTransition, Moves(j, t)
      PROVE  Ready(id)' /\ (OfOrder(id)' => Follows(id)')
  <2>1. task[j] \in ActionState \ ActionTerminal
    BY <1>6, MovesEffect
  <2>2. PICK s \in ActionState \ {"Waiting"} :
          /\ task' = [task EXCEPT ![j] = s]
          /\ s = "Initializing" => task[j] = "Waiting"
          /\ \/ s = "Initializing" /\ queue' = Append(queue, Event("start", j))
             \/ /\ s \in {"Pausing", "Resuming", "Canceling"}
                /\ \E name \in {"pause", "resume", "cancel"} : queue' = Append(queue, Event(name, j))
             \/ s \in ActionTerminal /\ queue' = Append(queue, Event("forget", j))
             \/ s \in {"InitializingNoEffect", "Running", "Paused"} /\ queue' = queue
    BY <1>6, MovesEffect
  <2>3. PICK added \in SUBSET EventName :
          /\ Calls(id)' = Calls(id) \cup (IF j = id THEN added ELSE {})
          /\ \/ s = "Initializing" /\ added = {"start"}
             \/ s \in {"Pausing", "Resuming", "Canceling"} /\ "forget" \notin added
             \/ s \in ActionTerminal /\ added = {"forget"}
             \/ s \in {"InitializingNoEffect", "Running", "Paused"} /\ added = {}
    <3>1. CASE s = "Initializing" /\ queue' = Append(queue, Event("start", j))
      <4>1. "start" \in EventName
        BY DEF EventName, Callback
      <4> QED
        BY <1>4, <3>1, <4>1
    <3>2. CASE /\ s \in {"Pausing", "Resuming", "Canceling"}
               /\ \E name \in {"pause", "resume", "cancel"} : queue' = Append(queue, Event(name, j))
      <4>1. PICK name \in {"pause", "resume", "cancel"} : queue' = Append(queue, Event(name, j))
        BY <3>2
      <4>2. name \in EventName /\ "forget" \notin {name}
        BY DEF EventName, Callback
      <4>3. Calls(id)' = Calls(id) \cup (IF j = id THEN {name} ELSE {})
        BY <1>4, <4>1, <4>2
      <4> QED
        BY <3>2, <4>2, <4>3
    <3>3. CASE s \in ActionTerminal /\ queue' = Append(queue, Event("forget", j))
      <4>1. "forget" \in EventName
        BY DEF EventName
      <4> QED
        BY <1>4, <3>3, <4>1
    <3>4. CASE s \in {"InitializingNoEffect", "Running", "Paused"} /\ queue' = queue
      BY <1>3, <3>4
    <3> QED
      BY <2>2, <3>1, <3>2, <3>3, <3>4
  <2>4. Ready(id)'
    <3>1. queue' = queue \/ \E name \in EventName : queue' = Append(queue, Event(name, j))
      BY <2>2 DEF EventName, Callback
    <3>2. task[id] # NoTask \/ (task'[id] = task[id] /\ j # id)
      BY <1>0, <1>2, <2>2
    <3> QED
      BY <1>3, <1>4, <3>1, <3>2
  <2>5. ASSUME OfOrder(id)' PROVE Follows(id)'
    <3>1. CASE j # id
      <4>1. task'[id] = task[id] /\ Calls(id)' = Calls(id)
        BY <1>0, <2>2, <2>3, <3>1
      <4> QED
        BY <1>0, <1>1, <2>5, <4>1 DEF Follows, SameStore
    <3>2. CASE j = id
      <4>1. task'[id] = s /\ Calls(id)' = Calls(id) \cup added
        BY <1>0, <2>2, <2>3, <3>2
      <4>2. IsHandled(id)' /\ "forget" \notin Calls(id)
        BY <1>0, <1>1, <2>1, <2>5, <3>2 DEF Follows, SameStore
      <4>3. CASE s = "Initializing" /\ added = {"start"}
        <5>1. Calls(id) \cap Callback = {}
          BY <1>1, <2>2, <2>5, <3>2, <4>3 DEF Follows
        <5> QED
          BY <4>1, <4>2, <4>3, <5>1 DEF Follows, ActionTerminal, NoTask
      <4>4. CASE s \in {"Pausing", "Resuming", "Canceling"} /\ "forget" \notin added
        BY <4>1, <4>2, <4>4 DEF Follows, ActionTerminal, NoTask
      <4>5. CASE s \in ActionTerminal /\ added = {"forget"}
        BY <4>1, <4>2, <4>5 DEF Follows, ActionTerminal, NoTask
      <4>6. CASE s \in {"InitializingNoEffect", "Running", "Paused"} /\ added = {}
        BY <4>1, <4>2, <4>6 DEF Follows, ActionTerminal, NoTask
      <4> QED
        BY <2>3, <4>3, <4>4, <4>5, <4>6
    <3> QED
      BY <3>1, <3>2
  <2> QED
    BY <2>4, <2>5
<1> QED
  BY <1>5, <1>6

\* The action event thread works off an event.
LEMMA FollowsWork ==
  ASSUME TypeOK, Line, [Next]_vars, ~handleValid, NEW id \in Id, Ready(id), OfOrder(id) => Follows(id),
         queue # <<>>, queue' = Tail(queue), Goes("action")',
         Skip \/ handlePrepareEvent \/ PrepareThrows \/ handleCallbackEvent \/ handleForgetEvent
  PROVE  Ready(id)' /\ (OfOrder(id)' => Follows(id)')
<1>0. /\ task' = task /\ task \in [Id -> TaskState] /\ told \in [Id -> Telling]
      /\ OfOrder(id)' => Follows(id)
  BY OfOrderBefore DEF Skip, handlePrepareEvent, PrepareThrows, handleCallbackEvent,
     handleForgetEvent,
     Handles, TypeOK
<1>1. /\ queue[1] = Head(queue) /\ Head(queue) \in Events /\ 1 \in DOMAIN queue
      /\ Calls(id)' \subseteq Calls(id)
      /\ \A name \in Calls(id) : name \in Calls(id)' \/ (Head(queue).id = id /\ Head(queue).name = name)
  <2>1. queue \in Seq(Events)
    BY DEF TypeOK
  <2>2. 1 \in DOMAIN queue
    BY <2>1, HeadAndTail
  <2> QED
    BY <2>2, FirstGone
<1>2. Settled(id)' => Ready(id)'
  BY DEF Ready
\* An event of another id.
<1>3. ASSUME Head(queue).id # id, SameStore(id), told'[id] = told[id]
      PROVE  Ready(id)' /\ (OfOrder(id)' => Follows(id)')
  <2>1. Ready(id)'
    BY <1>0, <1>3, ReadyWithoutFirst
  <2>2. Calls(id)' = Calls(id)
    BY <1>1, <1>3
  <2>3. Follows(id) => Follows(id)'
    BY <1>0, <1>3, <2>2 DEF Follows, SameStore
  <2> QED
    BY <1>0, <2>1, <2>3
<1>4. CASE Skip
  <2>1. ~IsHandled(Head(queue).id) /\ UNCHANGED <<store, told>>
    BY <1>4 DEF Skip
  <2>2. CASE Head(queue).id = id
    <3>1. ~IsHandled(id) /\ ~IsHandled(id)'
      BY <2>1, <2>2 DEF IsHandled
    <3>2. Follows(id) => Follows(id)'
      BY <1>0, <3>1 DEF Follows, TaskState, ActionState, ActionTerminal
    <3> QED
      BY <1>0, <1>2, <3>1, <3>2 DEF Settled
  <2>3. CASE Head(queue).id # id
    BY <1>3, <2>1, <2>3 DEF SameStore, IsHandled
  <2> QED
    BY <2>2, <2>3
<1>5. CASE handlePrepareEvent
  <2> DEFINE j == Head(queue).id
  <2>1. /\ j \in DOMAIN store /\ told' = told /\ Head(queue).name = "prepare"
        /\ store' = [store EXCEPT ![j].state = TRUE, ![j].callbacks = TRUE]
    BY <1>5 DEF handlePrepareEvent, Handles, IsHandled
  <2> HIDE DEF j
  <2>2. /\ DOMAIN store' = DOMAIN store
        /\ \A i \in DOMAIN store \ {j} : store'[i] = store[i]
        /\ store'[j].state /\ store'[j].callbacks
    BY <2>1, PrepareEffect
  <2>3. CASE j = id
    <3>1. Settled(id)'
      BY <2>2, <2>3 DEF Settled, Prepared
    <3>2. Calls(id) \ {"prepare"} \subseteq Calls(id)'
      BY <1>1, <2>1
    <3>3. IsHandled(id)' = IsHandled(id)
      BY <2>2 DEF IsHandled
    <3>4. Follows(id) => Follows(id)'
      BY <1>0, <1>1, <2>1, <3>2, <3>3 DEF Follows
    <3> QED
      BY <1>0, <1>2, <3>1, <3>4
  <2>4. CASE j # id
    <3>1. SameStore(id)
      BY <2>2, <2>4 DEF SameStore, IsHandled
    <3> QED
      BY <1>3, <2>1, <2>4, <3>1 DEF j
  <2> QED
    BY <2>3, <2>4
<1>6. CASE PrepareThrows
  BY <1>6 DEF PrepareThrows, Ends, Goes
<1>7. CASE handleCallbackEvent
  <2> DEFINE j == Head(queue).id
             name == Head(queue).name
  <2>1. /\ name \in Callback /\ store' = store
        /\ Prepared(j) /\ told' = [told EXCEPT ![j] = name]
    <3>1. ~(alive' = alive \ {"action"})
      BY DEF Goes
    <3> QED
      BY <1>7, <3>1 DEF handleCallbackEvent, Handles, Ends, Prepared
  <2> HIDE DEF j, name
  <2>2. SameStore(id)
    BY <2>1 DEF SameStore, IsHandled
  <2>3. CASE j = id
    <3>1. Settled(id)'
      BY <2>1, <2>2, <2>3, SettledStays DEF Settled
    <3>2. \A x \in Calls(id) : x \in Calls(id)' \/ x = name
      BY <1>1 DEF name
    <3>3. name \in Calls(id)
      BY <1>1, <2>3 DEF Calls, j, name
    <3>4. told'[id] = name
      BY <1>0, <2>1, <2>3
    <3>5. name # "forget"
      BY <2>1 DEF Callback
    <3>6. Follows(id) => Follows(id)'
      <4> SUFFICES ASSUME Follows(id)
                   PROVE  Follows(id)'
        OBVIOUS
      <4>1. IsHandled(id)' = IsHandled(id)
        BY <2>2 DEF SameStore
      <4>2. task[id] = "Initializing" => name = "start"
        BY <2>1, <3>3 DEF Follows
      <4> QED
        BY <1>0, <1>1, <3>2, <3>4, <3>5, <4>1, <4>2 DEF Follows
    <3> QED
      BY <1>0, <1>2, <3>1, <3>6
  <2>4. CASE j # id
    <3>1. told'[id] = told[id]
      BY <1>0, <2>1, <2>4
    <3> QED
      BY <1>3, <2>2, <2>4, <3>1 DEF j
  <2> QED
    BY <2>3, <2>4
<1>8. CASE handleForgetEvent
  <2>1. /\ Head(queue).name = "forget" /\ told' = told
        /\ store' = [i \in DOMAIN store \ {Head(queue).id} |-> store[i]]
    BY <1>8 DEF handleForgetEvent, Handles, Restrict
  <2>2. CASE Head(queue).id = id
    <3>1. ~IsHandled(id)'
      BY <2>1, <2>2 DEF IsHandled
    <3>2. "forget" \in Calls(id)
      BY <1>1, <2>1, <2>2 DEF Calls
    <3>3. Follows(id) => Follows(id)'
      BY <1>0, <3>1, <3>2 DEF Follows, TaskState, ActionState, ActionTerminal
    <3> QED
      BY <1>0, <1>2, <3>1, <3>3 DEF Settled
  <2>3. CASE Head(queue).id # id
    <3>1. SameStore(id)
      BY <2>1, <2>3 DEF SameStore, IsHandled
    <3> QED
      BY <1>3, <2>1, <2>3, <3>1
  <2> QED
    BY <2>2, <2>3
<1> QED
  BY <1>4, <1>5, <1>6, <1>7, <1>8

LEMMA ActionThreadFollowsNext ==
  ASSUME TypeOK, Line, Checked, Untouched, KeptWaits, ActionThreadFollows, [Next]_vars
  PROVE  ActionThreadFollows'
<1> SUFFICES ASSUME Goes("action")', NEW id \in Id, UsedOnce(id)'
             PROVE  Ready(id)' /\ (OfOrder(id)' => Follows(id)')
  BY DEF ActionThreadFollows
<1>1. Goes("action")
  BY AliveShrinks DEF Goes
<1>2. UsedOnce(id)
  BY SentStays
<1>3. Ready(id) /\ (OfOrder(id) => Follows(id))
  BY <1>1, <1>2 DEF ActionThreadFollows
<1>4. CASE handleValid
  BY <1>2, <1>3, <1>4, FollowsValid
<1>5. ASSUME ~handleValid, NEW j \in Id, Dismiss(j) \/ \E t \in ActionTransition : Moves(j, t)
      PROVE  Ready(id)' /\ (OfOrder(id)' => Follows(id)')
  BY <1>3, <1>5, FollowsMove
<1>6. CASE /\ ~handleValid
           /\ queue # <<>> /\ queue[1] = Head(queue) /\ queue' = Tail(queue)
           /\ Skip \/ handlePrepareEvent \/ PrepareThrows \/ handleCallbackEvent \/ handleForgetEvent
  BY <1>3, <1>6, FollowsWork
<1>7. CASE /\ ~handleValid /\ (\A j \in Id : ~Dismiss(j) /\ \A t \in ActionTransition : ~Moves(j, t))
           /\ queue' = queue
           /\ ~(Skip \/ handlePrepareEvent \/ PrepareThrows \/ handleCallbackEvent \/ handleForgetEvent)
  <2>1. UNCHANGED <<queue, task, told>> /\ (store' # store => ValidateAction)
    BY <1>7, ChangedBy
  <2>2. OfOrder(id)' => OfOrder(id)
    BY <1>7, OfOrderBefore
  <2>3. CASE SameStore(id)
    BY <1>3, <2>1, <2>2, <2>3, FollowsStays
  <2>4. CASE ~SameStore(id)
    <3>1. store' # store
      BY <2>4 DEF SameStore, IsHandled
    <3> DEFINE item == Head(validating.items)
    <3>2. store' = insert_or_assign(item.action.id, NewStore(item)) /\ ValidateAction
      BY <2>1, <3>1, ValidateEffect
    <3>3. id = item.action.id
      <4>1. id # item.action.id => SameStore(id)
        BY <3>2 DEF SameStore, IsHandled, insert_or_assign
      <4> QED
        BY <2>4, <4>1
    <3>4. PICK i \in DOMAIN sent[Len(sent)].items :
            /\ Len(sent) \in DOMAIN sent /\ Len(sent) \notin accepted
            /\ item = ItemAt(Len(sent), i)
      BY <3>2, NextItem
    <3>5. Len(sent) \notin Handled
      BY <3>4 DEF Handled
    <3>6. ~InBase(id)
      BY <1>2, <3>3, <3>4, <3>5, FreshItem
    <3>7. task[id] = NoTask /\ ~OfOrder(id) /\ \A k \in DOMAIN queue : queue[k].id # id
      BY <3>6, FreshId
    <3>8. Ready(id)'
      BY <2>1, <3>7 DEF Ready
    <3> QED
      BY <2>2, <3>7, <3>8
  <2> QED
    BY <2>3, <2>4
<1> QED
  BY <1>4, <1>5, <1>6, <1>7, QueueNext

-----------------------------------------------------------------------------
(* Without a fault no thread ends *)

LEMMA ThreadsLiveNext ==
  ASSUME TypeOK, Line, ActionThreadFollows, ThreadsLive, [Next]_vars
  PROVE  ThreadsLive'
<1> SUFFICES ASSUME faults' = 0, \A id \in Id : UsedOnce(id)'
             PROVE  alive' = Thread
  BY DEF ThreadsLive
<1>1. faults \in Nat
  BY DEF TypeOK
<1>2. ~Fault
  BY <1>1 DEF Fault
<1>3. faults = 0
  <2>1. faults' = faults \/ Fault \/ ValidationTimesOut \/ QueryTimesOut
    BY ChangedBy DEF QueryThrows, ValidateThrows, PrepareThrows
  <2>2. ValidationTimesOut => Fault \/ faults' = faults
    BY Zenon DEF ValidationTimesOut
  <2>3. QueryTimesOut => Fault \/ faults' = faults
    BY Zenon DEF QueryTimesOut
  <2> QED
    BY <1>2, <2>1, <2>2, <2>3
<1>4. \A id \in Id : UsedOnce(id)
  BY SentStays
<1>5. alive = Thread
  BY <1>3, <1>4 DEF ThreadsLive
<1>6. \A thread \in Thread : Goes(thread)
  BY <1>5 DEF Goes
<1>7. CASE alive' = alive
  BY <1>5, <1>7
<1>8. CASE QueryThrows \/ ValidateThrows \/ PrepareThrows
  BY <1>2, <1>8 DEF QueryThrows, ValidateThrows, PrepareThrows
<1>9. CASE ValidationTimesOut
  <2>1. Goes("validation") => Fault
    BY <1>9 DEF ValidationTimesOut
  <2> QED
    BY <1>2, <1>6, <2>1 DEF Thread
<1>10. CASE QueryTimesOut
  <2>1. Goes("query") => Fault
    BY <1>10 DEF QueryTimesOut
  <2> QED
    BY <1>2, <1>6, <2>1 DEF Thread
<1>11. CASE handleCallbackEvent
  <2>1. /\ queue # <<>> /\ Head(queue).name \in Callback /\ Head(queue).id \in DOMAIN store
        /\ Prepared(Head(queue).id) => alive' = alive
    BY <1>11 DEF handleCallbackEvent, Handles, IsHandled, Prepared
  <2>2. queue \in Seq(Events)
    BY DEF TypeOK
  <2>3. queue[1] = Head(queue) /\ 1 \in DOMAIN queue /\ Head(queue) \in Events
    BY <2>1, <2>2, HeadAndTail
  <2>4. Head(queue).id \in Id
    BY <2>3 DEF Events
  <2>5. Ready(Head(queue).id)
    BY <1>4, <1>6, <2>4 DEF ActionThreadFollows, Thread
  <2>6. \A j \in 1..1-1 : FALSE
    OBVIOUS
  <2>7. Settled(Head(queue).id)
    BY <2>1, <2>3, <2>5, <2>6 DEF Ready
  <2> QED
    BY <1>5, <2>1, <2>7 DEF Settled, IsHandled
<1> QED
  BY <1>7, <1>8, <1>9, <1>10, <1>11, ChangedBy

-----------------------------------------------------------------------------
(* The invariant *)

LEMMA InvInit == ASSUME Init PROVE Inv
<1>1. TypeOK /\ Line
  BY TypeInit, LineInit
<1>2. Checked /\ AcceptedSound /\ KeptWaits
  BY DEF Init, Nothing, Checked, AcceptedSound, KeptWaits
<1>3. DOMAIN queue = {} /\ DOMAIN store = {}
  BY DEF Init
<1>4. \A id \in Id : task[id] = NoTask /\ told[id] = "nothing" /\ id \notin known
  BY DEF Init
<1>5. Untouched
  BY <1>3, <1>4 DEF Untouched
<1>6. StoresSound
  BY <1>3 DEF StoresSound, Init
<1>7. \A id : ~OfOrder(id)
  BY DEF OfOrder, Handled, Init
<1>8. ActionThreadFollows
  BY <1>3, <1>4, <1>7 DEF ActionThreadFollows, Ready
<1>9. ThreadsLive
  BY DEF ThreadsLive, Init
<1> QED
  BY <1>1, <1>2, <1>5, <1>6, <1>8, <1>9 DEF Inv

LEMMA InvNext == ASSUME Inv, [Next]_vars PROVE Inv'
<1> USE DEF Inv
<1>1. TypeOK' /\ Line'
  BY TypeNext, LineNext
<1>2. Checked' /\ Untouched'
  BY CheckedNext, UntouchedNext
<1>3. AcceptedSound' /\ KeptWaits' /\ StoresSound'
  BY AcceptedSoundNext, KeptWaitsNext, StoresSoundNext
<1>4. ActionThreadFollows' /\ ThreadsLive'
  BY ActionThreadFollowsNext, ThreadsLiveNext
<1> QED
  BY <1>1, <1>2, <1>3, <1>4

LEMMA InvHolds == Spec => []Inv
<1>1. Init => Inv
  BY InvInit
<1>2. Inv /\ [Next]_vars => Inv'
  BY InvNext
<1> QED
  BY <1>1, <1>2, PTL DEF Spec

-----------------------------------------------------------------------------
(* The theorems *)

\* Every variable keeps its type: an error is of a known type, a store is of a declared
\* handler and of an action some message may hold.
THEOREM TypesHold == Spec => []TypeOK
  BY InvHolds, PTL DEF Inv

\* Only declared actions run: whatever ids other messages use, whatever of them is refused,
\* and wherever a thread ends, a handler is started only with the action and the parameters
\* it was asked to validate.
THEOREM OnlyDeclaredStart == Spec => []OnlyDeclaredActionsRun
<1>1. Inv => OnlyDeclaredActionsRun
  BY DEF Inv, StoresSound, Sound, OnlyDeclaredActionsRun
<1> QED
  BY <1>1, InvHolds, PTL

\* Items that differ have as many ids.
LEMMA DifferMeans ==
  ASSUME NEW items \in Seq(Items),
         \A i, j \in DOMAIN items : items[i].action.id = items[j].action.id => i = j
  PROVE  Cardinality(IdsOf(items)) = Len(items)
<1> DEFINE f == [i \in 1..Len(items) |-> items[i].action.id]
<1>1. DOMAIN items = 1..Len(items) /\ Len(items) \in Nat
  OBVIOUS
<1>2. f \in [1..Len(items) -> IdsOf(items)]
  BY <1>1 DEF IdsOf
<1>3. \A a, b \in 1..Len(items) : f[a] = f[b] => a = b
  BY <1>1
<1>4. \A t \in IdsOf(items) : \E s \in 1..Len(items) : f[s] = t
  BY <1>1 DEF IdsOf
<1>5. f \in Bijection(1..Len(items), IdsOf(items))
  <2> HIDE DEF f
  <2>1. DOMAIN f = 1..Len(items)
    BY <1>2
  <2> QED
    BY <1>2, <1>3, <1>4, <2>1 DEF Bijection, Injection, Surjection, IsInjective
<1>6. ExistsBijection(1..Len(items), IdsOf(items))
  BY <1>5 DEF ExistsBijection
<1> QED
  BY <1>1, <1>6, FS_CountingElements

\* An accepted message is valid: its actions, those of the horizon as well, are declared for
\* where they stand, and no id occurs twice in it.
THEOREM AcceptedAreValid == Spec => []AcceptedIsValid
<1>1. ASSUME Inv
      PROVE  AcceptedIsValid
  <2> SUFFICES ASSUME NEW n \in accepted
               PROVE  /\ \A i \in DOMAIN sent[n].items : DeclaredFor(sent[n].items[i])
                      /\ Cardinality(IdsOf(sent[n].items)) = Len(sent[n].items)
    BY DEF AcceptedIsValid
  <2>1. TypeOK /\ Line /\ AcceptedSound
    BY <1>1 DEF Inv
  <2>2. n \in DOMAIN sent
    BY <2>1 DEF Line, TypeOK
  <2>3. /\ sent[n].items \in Seq(Items)
        /\ \A i \in DOMAIN sent[n].items : ItemAt(n, i) \in Items
    BY <2>1, <2>2, SentAre
  <2>4. Differ(n) /\ \A i \in DOMAIN sent[n].items : Answer(ItemAt(n, i)) = {}
    BY <2>1 DEF AcceptedSound
  <2>5. \A i \in DOMAIN sent[n].items : DeclaredFor(sent[n].items[i])
    BY <2>3, <2>4, AnswerMeans DEF ItemAt
  <2>6. Cardinality(IdsOf(sent[n].items)) = Len(sent[n].items)
    BY <2>3, <2>4, DifferMeans DEF Differ, ItemAt
  <2> QED
    BY <2>5, <2>6
<1> QED
  BY <1>1, InvHolds, PTL

\* No message ends a thread: with ids used once and an AGV whose code is quick and throws
\* nothing, prepare has always set what a callback needs.
THEOREM ThreadsStayAlive == Spec => []ThreadsLive
<1>1. Inv => ThreadsLive
  BY DEF Inv
<1> QED
  BY <1>1, InvHolds, PTL

\* The AGV is where the scheduler is: with all events worked off, an initializing action of
\* an order has been started at the AGV, and no store is left of one that is over.
THEOREM AgvKeepsUp == Spec => []AgvFollows
<1>1. ASSUME Inv
      PROVE  AgvFollows
  <2> SUFFICES ASSUME queue = <<>>, Goes("action"), NEW id \in Id, OrderedOf(id), UsedOnce(id), id \in known
               PROVE  /\ task[id] = "Initializing" => told[id] = "start"
                      /\ task[id] \in ActionTerminal \cup {NoTask} => ~IsHandled(id)
    BY DEF AgvFollows
  <2>0. TypeOK /\ Line /\ Untouched /\ StoresSound /\ ActionThreadFollows
    BY <1>1 DEF Inv
  <2>1. Calls(id) = {}
    BY DEF Calls
  <2>2. PICK n \in Handled : \E i \in Released(n) : ItemAt(n, i).action.id = id
    BY <2>0 DEF Untouched, InBase
  <2>3. PICK i \in Released(n) : ItemAt(n, i).action.id = id
    BY <2>2
  <2>4. accepted \subseteq DOMAIN sent /\ Handled \subseteq accepted
    BY <2>0 DEF Line, TypeOK, Handled
  <2>5. n \in DOMAIN sent /\ i \in DOMAIN sent[n].items /\ ItemAt(n, i).released
    BY <2>3, <2>4 DEF Released
  <2>6. PICK k \in accepted : sent[k].kind = "order" /\ id \in IdsOf(sent[k].items)
    BY DEF OrderedOf
  <2>7. k = n
    <3>1. PICK j \in DOMAIN sent[k].items : ItemAt(k, j).action.id = id
      BY <2>6 DEF IdsOf, ItemAt
    <3> QED
      BY <2>3, <2>4, <2>5, <2>6, <3>1, OnePlace
  <2>8. Keep(ItemAt(n, i))
    BY <2>0, <2>5, <2>6, <2>7, SentAre DEF Keep
  <2>9. CASE ~IsControl(ItemAt(n, i).action)
    <3>1. OfOrder(id)
      BY <2>3, <2>8, <2>9 DEF OfOrder, Kept
    <3>2. Follows(id)
      BY <2>0, <3>1 DEF ActionThreadFollows
    <3> QED
      BY <2>1, <3>2 DEF Follows
  <2>10. CASE IsControl(ItemAt(n, i).action)
    <3>1. \A m \in DOMAIN sent : \A j \in DOMAIN sent[m].items :
            ItemAt(m, j).action.id = id => IsControl(ItemAt(m, j).action)
      BY <2>3, <2>5, <2>10, OnePlace
    <3>2. task[id] = NoTask
      BY <2>0, <2>4, <3>1 DEF Untouched, Released
    <3>3. ~IsHandled(id)
      BY <2>0, <3>1 DEF StoresSound, IsHandled
    <3> QED
      BY <3>2, <3>3 DEF NoTask
  <2> QED
    BY <2>9, <2>10
<1> QED
  BY <1>1, InvHolds, PTL
===============================================================================
