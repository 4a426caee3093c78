----------------------------- MODULE ApiCompat ------------------------------
(***************************************************************************)
(* The compatibility gate of the published API (infra/api-compat.ts): each *)
(* change to the routes changes the document generated from them; the gate *)
(* compares it with the committed one and with the one on the base branch, *)
(* and a change it lets through is merged and becomes the next base.       *)
(*                                                                         *)
(* A document is its operations with their parameters, its webhook events  *)
(* and its component schemas. A schema is an object; each property is a    *)
(* string, a number, an array of strings or a $ref, the strings possibly   *)
(* drawn from an enum, and so is the schema of a parameter. WebhookEvent   *)
(* is a oneOf with an alternative for each event type, which stands here   *)
(* for the fields that alternative has. Property schemas nest one level.   *)
(* Formats, bounds and prose are left out.                                 *)
(***************************************************************************)
EXTENDS Integers, FiniteSets, Functions

CONSTANTS
  Operations,  \* the operations a document may have: route and method
  Parameters,  \* the names of their parameters
  Codes,       \* the statuses they answer with
  Webhooks,    \* the types of the webhook events
  Fields,      \* the names of properties
  Documented,  \* those the first document has
  Enumerable,  \* the strings an enum may list
  Other,       \* a string no enum lists
  Edits,       \* the kinds of change made to the routes
  MaxEdits     \* bound on the changes

(* The component schemas: what a request carries, what a response carries,  *)
(* and what both may refer to.                                              *)
Schemas == {"CreateRun", "CancelResult", "Run"}

EditKinds == {"operation", "status", "parameter", "event", "payload", "field", "required", "type",
              "enum", "items"}

ASSUME ApiAssumption == Documented \subseteq Fields /\ Edits \subseteq EditKinds /\ MaxEdits \in Nat

VARIABLES
  onMain,     \* the document on the base branch, if it has one
  generated,  \* the document of the routes as they are
  committed,  \* doc/api/openapi.json
  verdict,    \* what the gate said of them
  edits

apiVars == <<onMain, generated, committed, verdict, edits>>

-----------------------------------------------------------------------------
(* Documents. A property: its type, and the enum of it or of its elements,  *)
(* empty for any string.                                                    *)
Properties == [type: {"string", "array"}, enum: SUBSET Enumerable]
              \cup {[type |-> t, enum |-> {}] : t \in {"number", "ref"}}

Text == [type |-> "string", enum |-> {}]
Ref == [type |-> "ref", enum |-> {}]

ParameterShapes == [required: BOOLEAN, schema: Properties]

(* A parameter that is new: one of GET /v1/webhooks/deliveries, its status. *)
NewParameter == [required |-> FALSE, schema |-> [type |-> "string", enum |-> Enumerable]]

(* A document with an operation that carries an enum, in a string and in    *)
(* the elements of an array, as CreateRunRequest.providers does.            *)
Original ==
  [operations |-> [o \in Operations |->
                     [parameters |-> [p \in Parameters |-> NewParameter], responses |-> Codes]],
   webhooks |-> [e \in Webhooks |-> Documented],
   schemas |->
     [CreateRun    |-> [properties |-> [f \in Documented |-> [type |-> "array", enum |-> Enumerable]],
                        required |-> {}],
      CancelResult |-> [properties |-> [f \in Documented |-> Ref], required |-> Documented],
      Run          |-> [properties |-> [f \in Documented |-> [type |-> "string", enum |-> Enumerable]],
                        required |-> {}]]]

(* collectRefs: the schemas a schema refers to.                             *)
collectRefs(doc, names) ==
  names \cup {s \in {"Run"} : \E n \in names : Ref \in Range(doc.schemas[n].properties)}

Requests(doc) == IF DOMAIN doc.operations = {} THEN {} ELSE collectRefs(doc, {"CreateRun"})

(* The webhook events refer to WebhookEvent, which refers to nothing.       *)
Responses(doc) == IF DOMAIN doc.operations = {} THEN {} ELSE collectRefs(doc, {"CancelResult"})

(* Variant: what a customer is sent is not told from what one sends.        *)
classifySchemasOneWay(doc) == [s \in Schemas |-> {"request"}]

(* classifySchemas: the directions each schema travels in; one nobody       *)
(* refers to counts as both.                                                *)
classifySchemas(doc) ==
  [s \in Schemas |->
     LET sides == {d \in {"request", "response"} :
                     s \in IF d = "request" THEN Requests(doc) ELSE Responses(doc)}
     IN  IF sides = {} THEN {"request", "response"} ELSE sides]

-----------------------------------------------------------------------------
(* compare: the breaking findings, each by its place.                       *)

(* The schemas of the parameters are not looked at.                         *)
compareOperation(o, before, after) ==
  {<<o, s>> : s \in before.responses \ after.responses}
  \cup {<<o, p>> : p \in {p \in DOMAIN after.parameters :
           /\ after.parameters[p].required
           /\ p \in DOMAIN before.parameters => ~before.parameters[p].required}}

comparePaths(before, after) ==
  {<<o>> : o \in DOMAIN before.operations \ DOMAIN after.operations}
  \cup UNION {compareOperation(o, before.operations[o], after.operations[o]) :
                o \in DOMAIN before.operations \cap DOMAIN after.operations}

(* Nor is what is under a oneOf.                                            *)
compareWebhooks(before, after) == {<<e>> : e \in DOMAIN before.webhooks \ DOMAIN after.webhooks}

(* One property against its successor. A $ref has no type, and what an      *)
(* array holds is not looked at.                                            *)
compareProperty(before, after, sides) ==
  \/ before.type # "ref" /\ before.type # after.type
  \/ /\ before.type # "array" /\ after.type # "array" /\ before.enum # {} /\ after.enum # {}
     /\ ~(before.enum \subseteq after.enum) /\ "request" \in sides

(* The properties of a schema at which its successor breaks somebody.       *)
compareSchema(before, after, sides) ==
  {f \in DOMAIN before.properties \ DOMAIN after.properties : "response" \in sides}
  \cup {f \in DOMAIN before.properties \cap DOMAIN after.properties :
          \/ "response" \in sides /\ f \in before.required \ after.required
          \/ "request" \in sides /\ f \in after.required \ before.required
          \/ compareProperty(before.properties[f], after.properties[f], sides)}
  \cup {f \in after.required \ DOMAIN before.properties : "request" \in sides}

compareSchemas(before, after) ==
  LET usage == classifySchemas(after)
  IN  UNION {{<<s, f>> : f \in compareSchema(before.schemas[s], after.schemas[s], usage[s])} :
               s \in Schemas}

compare(before, after) ==
  comparePaths(before, after) \cup compareWebhooks(before, after) \cup compareSchemas(before, after)

-----------------------------------------------------------------------------
(* The changes a commit makes to the routes.                                *)

Without(fn, x) == Restrict(fn, DOMAIN fn \ {x})

With(fn, x, v) == [y \in DOMAIN fn \cup {x} |-> IF y = x THEN v ELSE fn[y]]

(* A property changes its type, its enum or the enum of its elements.       *)
EditedProperties(leaf) ==
  {new \in Properties :
     \/ "type" \in Edits /\ leaf.type # "ref" /\ new.type \notin {leaf.type, "ref"} /\ new.enum = {}
     \/ "enum" \in Edits /\ leaf.type = "string" /\ new.type = "string"
          /\ leaf.enum # {} /\ new.enum # {}
     \/ "items" \in Edits /\ leaf.type = "array" /\ new.type = "array"
          /\ leaf.enum # {} /\ new.enum # {}}

(* A parameter comes, changes whether it is required, or changes its schema.*)
EditedParameters(op, p) ==
  IF p \notin DOMAIN op.parameters THEN {[NewParameter EXCEPT !.required = b] : b \in BOOLEAN}
  ELSE {[op.parameters[p] EXCEPT !.required = ~op.parameters[p].required]}
       \cup {[op.parameters[p] EXCEPT !.schema = new] : new \in EditedProperties(op.parameters[p].schema)}

(* An operation changes its parameters or its statuses.                     *)
EditedOperations(op) ==
  {[op EXCEPT !.responses = r] : r \in {r \in SUBSET Codes : "status" \in Edits}}
  \cup UNION {{[op EXCEPT !.parameters = Without(op.parameters, p)]}
              \cup {[op EXCEPT !.parameters = With(op.parameters, p, new)] : new \in EditedParameters(op, p)} :
                p \in {p \in Parameters : "parameter" \in Edits}}

(* An event type comes or goes, or its payload changes.                     *)
EditedWebhooks(events) ==
  UNION {{IF e \in DOMAIN events THEN Without(events, e) ELSE With(events, e, Documented) :
            x \in {x \in {e} : "event" \in Edits}}
         \cup {With(events, e, fields) : fields \in {fs \in SUBSET Fields : "payload" \in Edits /\ e \in DOMAIN events}} :
           e \in Webhooks}

(* A property that is added: a $ref comes back as it was, any other as text.*)
Added(s, f) ==
  IF f \in Documented /\ Original.schemas[s].properties[f] = Ref THEN Ref ELSE Text

EditedSchemas(s, schema) ==
  UNION {
    {[schema EXCEPT !.properties[f] = new] :
       new \in IF f \in DOMAIN schema.properties
                 THEN EditedProperties(schema.properties[f]) ELSE {}}
    \cup {[schema EXCEPT !.required = IF f \in @ THEN @ \ {f} ELSE @ \cup {f}] :
            x \in {x \in {f} : "required" \in Edits /\ f \in DOMAIN schema.properties}}
    \cup (IF "field" \notin Edits THEN {}
          ELSE IF f \in DOMAIN schema.properties
            THEN {[properties |-> Without(schema.properties, f), required |-> schema.required \ {f}]}
            ELSE {[properties |-> With(schema.properties, f, Added(s, f)), required |-> r] :
                    r \in {schema.required, schema.required \cup {f}}}) :
    f \in Fields}

Edited(doc) ==
  {[doc EXCEPT !.operations = IF o \in DOMAIN @ THEN Without(@, o)
                              ELSE With(@, o, Original.operations[o])] :
     o \in {o \in Operations : "operation" \in Edits}}
  \cup {[doc EXCEPT !.webhooks = es] : es \in EditedWebhooks(doc.webhooks)}
  \cup (UNION {{[doc EXCEPT !.operations[o] = op] : op \in EditedOperations(doc.operations[o])} :
                 o \in DOMAIN doc.operations})
  \cup UNION {{[doc EXCEPT !.schemas[s] = new] : new \in EditedSchemas(s, doc.schemas[s])} :
                s \in Schemas}

ChangeRoutes ==
  /\ edits < MaxEdits /\ edits' = edits + 1
  /\ generated' \in Edited(generated)
  /\ verdict' = "none"
  /\ UNCHANGED <<onMain, committed>>

(* bun run api:spec.                                                        *)
writeSpec ==
  /\ committed' = generated /\ verdict' = "none"
  /\ UNCHANGED <<onMain, generated, edits>>

(* bun run api:check: a stale file fails, a base without a document is the  *)
(* baseline, and a breaking change fails unless it is allowed.              *)
check ==
  /\ verdict = "none"
  /\ verdict' \in
       IF committed # generated THEN {"stale"}
       ELSE IF \A base \in onMain : compare(base, generated) = {} THEN {"passes"}
       ELSE {"breaking", "allowed"}
  /\ UNCHANGED <<onMain, generated, committed, edits>>

Merge ==
  /\ verdict \in {"passes", "allowed"}
  /\ onMain' = {committed} /\ verdict' = "none"
  /\ UNCHANGED <<generated, committed, edits>>

ApiInit ==
  /\ onMain \in {{}, {Original}}
  /\ generated = Original /\ committed = Original
  /\ verdict = "none" /\ edits = 0

ApiNext == ChangeRoutes \/ writeSpec \/ check \/ Merge

ApiSpec == ApiInit /\ [][ApiNext]_apiVars

-----------------------------------------------------------------------------
(* Types: what a document of the routes may be.                             *)
DocumentOK(doc) ==
  /\ DOMAIN doc.operations \subseteq Operations
  /\ DOMAIN doc.webhooks \subseteq Webhooks /\ Range(doc.webhooks) \subseteq SUBSET Fields
  /\ \A o \in DOMAIN doc.operations :
       /\ doc.operations[o].responses \subseteq Codes
       /\ DOMAIN doc.operations[o].parameters \subseteq Parameters
       /\ Range(doc.operations[o].parameters) \subseteq ParameterShapes
  /\ \A s \in Schemas :
       /\ DOMAIN doc.schemas[s].properties \subseteq Fields
       /\ Range(doc.schemas[s].properties) \subseteq Properties
       /\ doc.schemas[s].required \subseteq DOMAIN doc.schemas[s].properties

ApiTypeOK ==
  /\ \A doc \in onMain \cup {generated, committed} : DocumentOK(doc)
  /\ verdict \in {"none", "passes", "stale", "breaking", "allowed"} /\ edits \in 0..MaxEdits

-----------------------------------------------------------------------------
(* What breaking a caller means, whatever the gate does: values.            *)

Atoms == [type: {"string", "array"}, text: Enumerable \cup {Other}]
         \cup {[type |-> t, text |-> Other] : t \in {"number", "ref"}}

Objects == UNION {[present -> Atoms] : present \in SUBSET Fields}

AllowsValue(leaf, x) == x.type = leaf.type /\ (leaf.enum # {} => x.text \in leaf.enum)

Valid(schema, x) ==
  /\ schema.required \subseteq DOMAIN x
  /\ \A f \in DOMAIN x \cap DOMAIN schema.properties : AllowsValue(schema.properties[f], x[f])

(* What a caller of the old schema may send is refused by the new one.      *)
RequestNarrowed(old, new) ==
  \E x \in Objects :
    DOMAIN x \subseteq DOMAIN old.properties /\ Valid(old, x) /\ ~Valid(new, x)

(* What the new schema answers lacks what a reader of the old one counts on,*)
(* or has it in another type. A value new to an enum is one a reader must   *)
(* tolerate (doc/api/versioning.md:26); one that is gone is below.          *)
Unreadable(old, new) ==
  \/ ~(DOMAIN old.properties \subseteq DOMAIN new.properties)
  \/ \E x \in Objects :
       /\ DOMAIN x \subseteq DOMAIN new.properties /\ Valid(new, x)
       /\ \/ ~(old.required \subseteq DOMAIN x)
          \/ \E f \in DOMAIN x \cap DOMAIN old.properties : x[f].type # old.properties[f].type

(* Something a caller uses is gone, is demanded, or has another shape.      *)
BreaksShape(old, new) ==
  \/ ~(DOMAIN old.operations \subseteq DOMAIN new.operations)
  \/ ~(DOMAIN old.webhooks \subseteq DOMAIN new.webhooks)
  \/ \E o \in DOMAIN old.operations \cap DOMAIN new.operations :
       LET was == old.operations[o]
           now == new.operations[o]
       IN  \/ ~(was.responses \subseteq now.responses)
           \/ \E p \in DOMAIN now.parameters :
                now.parameters[p].required /\ ~(p \in DOMAIN was.parameters /\ was.parameters[p].required)
  \/ \E s \in Requests(old) \cap Requests(new) : RequestNarrowed(old.schemas[s], new.schemas[s])
  \/ \E s \in Responses(old) \cap Responses(new) : Unreadable(old.schemas[s], new.schemas[s])

(* A parameter refuses a value it took.                                     *)
ParameterNarrowed(old, new) ==
  \E o \in DOMAIN old.operations \cap DOMAIN new.operations :
    \E p \in DOMAIN old.operations[o].parameters \cap DOMAIN new.operations[o].parameters :
      \E x \in Atoms : /\ AllowsValue(old.operations[o].parameters[p].schema, x)
                       /\ ~AllowsValue(new.operations[o].parameters[p].schema, x)

(* An event that is still sent lacks a field.                               *)
PayloadCut(old, new) ==
  \E e \in DOMAIN old.webhooks \cap DOMAIN new.webhooks : ~(old.webhooks[e] \subseteq new.webhooks[e])

(* A value a response documented, as an error code is, does not come any    *)
(* more.                                                                    *)
ValueRemoved(old, new) ==
  \E s \in Responses(old) \cap Responses(new) :
    \E f \in DOMAIN old.schemas[s].properties \cap DOMAIN new.schemas[s].properties :
      LET was == old.schemas[s].properties[f]
          now == new.schemas[s].properties[f]
      IN  was.type = now.type /\ was.enum # {} /\ now.enum # {} /\ ~(was.enum \subseteq now.enum)

(* What doc/api/versioning.md:33-40 promises not to do without notice.      *)
Breaks(old, new) ==
  \/ BreaksShape(old, new)
  \/ ParameterNarrowed(old, new) \/ PayloadCut(old, new) \/ ValueRemoved(old, new)

-----------------------------------------------------------------------------
(* What the elements of an array may be has changed.                        *)
ElementsChanged(old, new) ==
  \E s \in Schemas : \E f \in DOMAIN old.schemas[s].properties \cap DOMAIN new.schemas[s].properties :
    LET was == old.schemas[s].properties[f]
        now == new.schemas[s].properties[f]
    IN  was.type = "array" /\ now.type = "array" /\ was # now

(* What the gate does not look at: a parameter that takes less, an event    *)
(* that carries less, a value that is gone from a response, an error code   *)
(* among them (infra/api-compat.ts:351-353 takes a narrower enum there for  *)
(* one that breaks nobody; doc/api/versioning.md:35 lists it), the elements *)
(* of an array.                                                             *)
Overlooked(old, new) ==
  ParameterNarrowed(old, new) \/ PayloadCut(old, new) \/ ValueRemoved(old, new) \/ ElementsChanged(old, new)

(* Of what breaks a caller of the published document the gate lets through  *)
(* only what it does not look at, and of what changes a shape only what the *)
(* elements of an array are, whatever number of commits and merges it took. *)
(* What it stops does change a shape (infra/api-compat.test.ts:12-13), or   *)
(* else a schema that one of the two documents does not refer to.           *)
GateIsExact ==
  /\ verdict = "passes" =>
       \A base \in onMain :
         /\ Breaks(base, generated) => Overlooked(base, generated)
         /\ BreaksShape(base, generated) => ElementsChanged(base, generated)
  /\ verdict \in {"breaking", "allowed"} =>
       \E base \in onMain :
         \/ BreaksShape(base, generated)
         \/ \E doc \in {base, generated} : \E s \in Schemas \ (Requests(doc) \cup Responses(doc)) :
              base.schemas[s] # generated.schemas[s]
=============================================================================
