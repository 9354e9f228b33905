------------------------------- MODULE Normalize -------------------------------
(***************************************************************************)
(* From an authored document to normalized steps: the closed vocabulary,   *)
(* the shape of every step kind, macro expansion, and the subflow links in *)
(* the order they are met (crates/pointlock-compiler/src/normalize.rs).    *)
(*                                                                         *)
(* A document is the parsed tree: scalars, texts (strings with ${{ }}      *)
(* islands), lists and mappings.  A text is the set of references its      *)
(* islands make and whether it is one full island; a reference is          *)
(* << root, name, field >>.  A step id is its sequence of `:` segments.    *)
(* An error anywhere refuses the document, so an operator here yields what *)
(* the code builds together with `ok`, and builds nothing when refused.    *)
(*                                                                         *)
(* Abstracted: spans and messages, numeric ranges and string grammars of   *)
(* scalars, the contents of schemas, selectors beyond the keys they use.   *)
(***************************************************************************)
EXTENDS NormalForm, FiniteSets

CONSTANT MaxMacroDepth   \* bound of nested macro expansions

Scalar(v) == [n |-> "scalar", v |-> v]
Text(refs) == [n |-> "text", refs |-> refs, full |-> TRUE]
Phrase(refs) == [n |-> "text", refs |-> refs, full |-> FALSE]
List(items) == [n |-> "list", items |-> items]
OrderedMap(keys, fields) == [n |-> "map", keys |-> keys, fields |-> fields]
Map(fields) ==
  OrderedMap(FoldSet(LAMBDA key, keys : Append(keys, key), << >>, DOMAIN fields), fields)

IsMap(node, keys) == node.n = "map" /\ DOMAIN node.fields \subseteq keys
IsFullList(node) == node.n = "list" /\ node.items # << >>
Has(node, key) == node.n = "map" /\ key \in DOMAIN node.fields
Get(node, key) == node.fields[key]
Opt(node, key, default) == IF Has(node, key) THEN Get(node, key).v ELSE default
Given(node, key, Good(_)) == Has(node, key) => Good(Get(node, key))

RECURSIVE Texts(_)
Texts(node) ==
  CASE node.n = "text" -> {node}
    [] node.n = "list" -> UNION { Texts(node.items[i]) : i \in DOMAIN node.items }
    [] node.n = "map"  -> UNION { Texts(node.fields[k]) : k \in DOMAIN node.fields }
    [] OTHER           -> { }
Refs(node) == UNION { t.refs : t \in Texts(node) }

(* A value is one expression or a pure literal; no islands in composites.  *)
IsValue(node) == node.n = "text" \/ Texts(node) = { }
AreValues(node) == node.n = "map" /\ \A k \in DOMAIN node.fields : IsValue(node.fields[k])

-----------------------------------------------------------------------------
(* Vocabulary.                                                             *)
MutatingVerbs == {"tap", "set_value", "clear"}
Verbs == MutatingVerbs \union {"wait_for", "find"}
Structural == {"call", "human", "if", "foreach", "let"}
Hooks == {"on_fail", "on_unknown", "on_error", "on_resume_drift"}
Dispositions == {"retry", "continue", "escalate", "abort", "repair"}
Wants == {"screenshot", "uiSnapshot"}
Channels == {"uiTree", "dom", "vision", "coordinate"}
TopKeys == {"flow", "provider", "params", "outputs", "steps", "handlers", "macros",
            "verdict_policy"}
Reserved == {"secrets", "protected"}

EveryStep == {"id", "preflight", "timeout_ms", "checkpoint"} \union Hooks
EveryAction == EveryStep \union {"effect", "idempotent", "expect", "retry"}

(* The keys a step may carry beside its head, by kind.                     *)
KeysBeside(kind) ==
  CASE kind = "verb"    -> EveryAction \union {"locate_via", "coordinate"}
    [] kind = "observe" -> EveryAction
    [] kind = "invoke"  -> EveryAction \union {"expect_schema"}
    [] kind = "assert"  -> EveryStep \union {"expect"}
    [] kind = "call"    -> EveryStep \union {"inputs"}
    [] kind = "if"      -> EveryStep \union {"then", "else"}
    [] kind = "macro"   -> {"id", "preflight", "expect_schema"}
    [] OTHER            -> EveryStep

StepKeys == UNION { KeysBeside(k) : k \in {"verb", "invoke", "call", "if"} }
ShadowForbidden ==
  Verbs \union ObserveHeads \union Structural \union StepKeys \union TopKeys
    \union Reserved \union Dispositions \union {"invoke"}

InferredEffect(verb) == IF verb \in MutatingVerbs THEN "mutating" ELSE "readonly"

-----------------------------------------------------------------------------
(* Values of the keys.                                                     *)
RetryGood(node) ==
  IsMap(node, {"max_attempts", "backoff_ms", "retry_on"}) /\ Cardinality(DOMAIN node.fields) = 3

(* A selector is static; what binding looks at are the keys it uses.       *)
SelectorGood(node) == node.n = "map" /\ node.fields # << >> /\ Texts(node) = { }
Selector(node) == DOMAIN node.fields

ChainGood(node) == IsFullList(node) /\ \A i \in DOMAIN node.items : node.items[i].v \in Channels
Chain(node) == [i \in DOMAIN node.items |-> node.items[i].v]
ChainOf(node, key) == IF Has(node, key) THEN Chain(Get(node, key)) ELSE None

PredicateKind(item) ==
  CASE Has(item, "expr")    -> "expr"
    [] Has(item, "element") -> "element"
    [] OTHER                -> "visual"

(* Exactly one predicate form, each with its own companions; `value` is    *)
(* the exact-text sugar.                                                   *)
ExpectItemGood(item) ==
  /\ item.n = "map"
  /\ Given(item, "expr", LAMBDA e : e.n = "text" /\ e.full)
  /\ Given(item, "element", SelectorGood)
  /\ Given(item, "verify_via", ChainGood)
  /\ CASE Has(item, "expr") -> IsMap(item, {"expr", "assert_id"})
       [] Has(item, "element") ->
            /\ Cardinality(DOMAIN item.fields \intersect {"state", "text", "value"}) = 1
            /\ IsMap(item, {"element", "state", "text", "value", "visual", "verify_via",
                            "assert_id"})
       [] Has(item, "visual") -> IsMap(item, {"visual", "region", "verify_via", "assert_id"})
       [] OTHER -> FALSE
ExpectGood(node) ==
  node.n = "list" /\ \A i \in DOMAIN node.items : ExpectItemGood(node.items[i])

Assertion(item) ==
  [ kind   |-> PredicateKind(item),
    refs   |-> Refs(item),
    id     |-> Opt(item, "assert_id", None),
    via    |-> ChainOf(item, "verify_via"),
    prompt |-> Has(item, "visual"),
    sel    |-> IF Has(item, "element") THEN Selector(Get(item, "element")) ELSE { } ]
Assertions(node, key) ==
  IF Has(node, key)
  THEN LET items == Get(node, key).items IN [i \in DOMAIN items |-> Assertion(items[i])]
  ELSE << >>

(* A human request: provideInput and its schema belong together; an        *)
(* escalation carries its own budget, a step may name it outside.          *)
HumanGood(node, budget) ==
  /\ IsMap(node, {"mode", "prompt", "presents", "decisions", "expect_schema",
                  "timeout_ms", "on_timeout"})
  /\ {"mode", "prompt"} \subseteq DOMAIN node.fields
  /\ Get(node, "mode").v \in {"confirm", "judge", "provideInput", "repairWorld"}
  /\ (Get(node, "mode").v = "provideInput") <=> Has(node, "expect_schema")
  /\ Given(node, "presents", LAMBDA p : p.n = "list" /\ \A i \in DOMAIN p.items : IsValue(p.items[i]))
  /\ Given(node, "decisions", IsFullList)
  /\ Opt(node, "on_timeout", "unknown") = "unknown"
  /\ Has(node, "timeout_ms") # budget
Human(node) ==
  [ mode      |-> Get(node, "mode").v,
    decisions |-> IF Has(node, "decisions")
                  THEN LET d == Get(node, "decisions").items IN [i \in DOMAIN d |-> d[i].v]
                  ELSE None,
    refs      |-> Refs(node) ]

(* A handler: one disposition, a trigger bound, classes only on errors.    *)
BindingGood(hook, node) ==
  LET heads == DOMAIN node.fields \intersect Dispositions
  IN  /\ IsMap(node, Dispositions \union {"max_triggers"}
                       \union (IF hook = "on_error" THEN {"error_classes"} ELSE { }))
      /\ Has(node, "max_triggers")
      /\ Given(node, "error_classes", IsFullList)
      /\ Cardinality(heads) = 1
      /\ Given(node, "retry", RetryGood)
      /\ Given(node, "continue", LAMBDA v : IsMap(v, { }))
      /\ Given(node, "abort", LAMBDA v : IsMap(v, { }))
      /\ Given(node, "escalate", LAMBDA v : HumanGood(v, FALSE))
      /\ Given(node, "repair", LAMBDA v : v.n = "scalar")
Bindings(node) == IF node.n = "list" THEN node.items ELSE << node >>
HandlersGood(node) ==
  \A hook \in Hooks \intersect DOMAIN node.fields :
    \A i \in DOMAIN Bindings(Get(node, hook)) : BindingGood(hook, Bindings(Get(node, hook))[i])

Handler(hook, node) ==
  LET action == CHOOSE d \in Dispositions : Has(node, d)
  IN  [ hook    |-> hook,
        action  |-> action,
        classes |-> IF Has(node, "error_classes")
                    THEN { c.v : c \in Range(Get(node, "error_classes").items) } ELSE { },
        human   |-> IF action = "escalate" THEN Human(Get(node, "escalate")) ELSE None,
        link    |-> IF action = "repair" THEN Get(node, "repair").v ELSE None ]
Handlers(node) ==
  LET OfHook(hook) == LET bs == Bindings(Get(node, hook))
                      IN  [i \in DOMAIN bs |-> Handler(hook, bs[i])]
  IN  FoldLeft(LAMBDA acc, key : IF key \in Hooks THEN acc \o OfHook(key) ELSE acc,
               << >>, node.keys)
HandlerLinks(handlers) ==
  LET repairs == SelectSeq(handlers, LAMBDA h : h.action = "repair")
  IN  [i \in DOMAIN repairs |-> repairs[i].link]

-----------------------------------------------------------------------------
(* Macros.                                                                 *)

(* The step mappings of a list, those of nested branches and loops included*)
RECURSIVE StepNodes(_)
StepNodes(node) ==
  IF node.n # "list" THEN { }
  ELSE UNION { LET s == node.items[i]
                   Under(key) == IF Has(s, key) THEN StepNodes(Get(s, key)) ELSE { }
                   Loop == IF Has(s, "foreach") /\ Has(Get(s, "foreach"), "steps")
                           THEN StepNodes(Get(Get(s, "foreach"), "steps")) ELSE { }
               IN  {s} \union Under("then") \union Under("else") \union Loop
             : i \in DOMAIN node.items }
BodyIds(body) == { Get(s, "id").v : s \in { t \in StepNodes(body) : Has(t, "id") } }

(* Ids inside a macro have no reference surface; the scan reads the body   *)
(* as written, before any argument is put into it.                         *)
CrossStepFree(body) ==
  \A r \in Refs(body) : r[1] = "steps" => << r[2] >> \notin BodyIds(body)

MacroGood(name, def) ==
  /\ name \notin ShadowForbidden
  /\ IsMap(def, {"params", "steps"})
  /\ Has(def, "steps") /\ IsFullList(Get(def, "steps"))
  /\ CrossStepFree(Get(def, "steps"))

MacroRefs(text) == { r \in text.refs : r[1] = "macro" }

(* A macro parameter stands alone as one full island.                      *)
SubstituteGood(node, args) ==
  \A t \in Texts(node) : MacroRefs(t) # { } =>
    t.full /\ \E p \in DOMAIN args : t.refs = {<< "macro", p, None >>}

RECURSIVE Substitute(_, _)
Substitute(node, args) ==
  CASE node.n = "text" /\ MacroRefs(node) # { } ->
         args[(CHOOSE r \in node.refs : TRUE)[2]]
    [] node.n = "list" ->
         [node EXCEPT !.items = [i \in DOMAIN node.items |-> Substitute(node.items[i], args)]]
    [] node.n = "map"  ->
         [node EXCEPT !.fields =
            [k \in DOMAIN node.fields |-> Substitute(node.fields[k], args)]]
    [] OTHER -> node

(* Every id of the expansion, arguments included, moves under the id of    *)
(* the call site.                                                          *)
RECURSIVE PrefixIds(_, _)
PrefixIds(node, site) ==
  LET Steps(list) == IF list.n # "list" THEN list
                     ELSE List([i \in DOMAIN list.items |-> PrefixIds(list.items[i], site)])
  IN  IF node.n # "map" THEN node
      ELSE [node EXCEPT !.fields = [k \in DOMAIN node.fields |->
             CASE k = "id" -> Scalar(site \o node.fields[k].v)
               [] k \in {"then", "else"} -> Steps(node.fields[k])
               [] k = "foreach" /\ Has(node.fields[k], "steps") ->
                    [node.fields[k] EXCEPT !.fields["steps"] = Steps(@)]
               [] OTHER -> node.fields[k]]]

(* What expansion of `name` at a site yields before it is normalized.      *)
ExpansionGood(name, args, env) ==
  LET def == env.macros[name]
      declared == IF Has(def, "params") THEN { p.v : p \in Range(Get(def, "params").items) }
                                        ELSE { }
      body == Get(def, "steps")
  IN  /\ ~Contains(env.inside, name)
      /\ Len(env.inside) < MaxMacroDepth
      /\ args.n = "map" /\ DOMAIN args.fields = declared
      /\ SubstituteGood(body, args.fields)
      /\ \A s \in StepNodes(Substitute(body, args.fields)) : Has(s, "id") => Len(Get(s, "id").v) = 1
Expansion(name, args, site, env) ==
  LET body == Substitute(Get(env.macros[name], "steps"), args.fields).items
  IN  [i \in DOMAIN body |-> PrefixIds(body[i], site)]

-----------------------------------------------------------------------------
(* Steps.                                                                  *)
Heads(s, env) ==
  DOMAIN s.fields \intersect
    (Verbs \union ObserveHeads \union Structural \union {"invoke"} \union DOMAIN env.macros)

KindOf(s, env) ==
  LET head == IF Heads(s, env) = { } THEN None ELSE CHOOSE h \in Heads(s, env) : TRUE
  IN  CASE head = None -> "assert"
        [] head \in Verbs -> "verb"
        [] head \in ObserveHeads -> "observe"
        [] head \in Structural \union {"invoke"} -> head
        [] OTHER -> "macro"

(* What every step must satisfy, whatever its kind.                        *)
StepGood(s, env) ==
  /\ s.n = "map"
  /\ Has(s, "id")
  /\ Cardinality(Heads(s, env)) <= 1
  /\ DOMAIN s.fields \ Heads(s, env) \subseteq KeysBeside(KindOf(s, env))
  /\ HandlersGood(s)
  /\ Given(s, "effect", LAMBDA v : v.v \in {"mutating", "readonly"})
  /\ Given(s, "retry", RetryGood)
  /\ Given(s, "expect", ExpectGood) /\ Given(s, "preflight", ExpectGood)
  /\ Given(s, "locate_via", ChainGood)

(* What a kind asks of its head, the steps inside it left aside.           *)
HeadGood(s, kind, head) ==
  LET node == Get(s, head)
      EffectAgrees == Opt(s, "effect", InferredEffect(head)) = InferredEffect(head)
  IN  CASE kind = "assert" -> Has(s, "expect") /\ Get(s, "expect").items # << >>
        [] kind = "verb" ->
             /\ EffectAgrees
             /\ IsMap(node, {"element"} \union (IF head = "set_value" THEN {"value"} ELSE { })
                                       \union (IF head = "wait_for" THEN {"state"} ELSE { }))
             /\ Has(node, "element") /\ SelectorGood(Get(node, "element"))
             /\ (head = "set_value" => Has(node, "value") /\ IsValue(Get(node, "value")))
             /\ (head = "wait_for" => Has(node, "state"))
        [] kind = "observe" ->
             /\ EffectAgrees
             /\ IF head = "screenshot" THEN IsMap(node, { })
                ELSE /\ IsFullList(node) /\ IsInjective(node.items)
                     /\ \A i \in DOMAIN node.items : node.items[i].v \in Wants
        [] kind = "invoke" ->
             IsMap(node, {"action", "args"}) /\ Has(node, "action") /\ Given(node, "args", AreValues)
        [] kind = "call" -> node.n = "scalar" /\ Given(s, "inputs", AreValues)
        [] kind = "human" -> HumanGood(node, Has(s, "timeout_ms"))
        [] kind = "if" -> /\ IsValue(node) /\ Has(s, "then") /\ IsFullList(Get(s, "then"))
                          /\ Given(s, "else", IsFullList)
        [] kind = "foreach" ->
             /\ IsMap(node, {"items", "as", "steps"}) /\ Cardinality(DOMAIN node.fields) = 3
             /\ IsValue(Get(node, "items")) /\ IsFullList(Get(node, "steps"))
        [] kind = "let" -> AreValues(node) /\ DOMAIN node.fields # { }

Refused == [ok |-> FALSE, steps |-> << >>, links |-> << >>]
Out(steps, links) == [ok |-> TRUE, steps |-> steps, links |-> links]
Nothing == Out(<< >>, << >>)
Both(a, b) == [ok |-> a.ok /\ b.ok, steps |-> a.steps \o b.steps, links |-> a.links \o b.links]

(* The refs of named values: the arguments of an action, the inputs of a   *)
(* call, the bindings of a let in document order.                          *)
NamedRefs(node) == [i \in DOMAIN node.keys |->
                     [name |-> node.keys[i], refs |-> Refs(node.fields[node.keys[i]])]]

(* The step without the steps inside it; a step of an expansion does not   *)
(* checkpoint unless it says so, observe and screenshot become invokes of  *)
(* the actions of their name.                                              *)
StepHere(s, kind, head, env) ==
  LET node == IF head = None THEN None ELSE Get(s, head)
  IN  [ id         |-> Get(s, "id").v,
        synth      |-> env.inside # << >>,
        kind       |-> IF kind \in {"verb", "observe", "invoke"} THEN "action" ELSE kind,
        head       |-> kind,
        action     |-> IF kind = "invoke" THEN Get(node, "action").v ELSE head,
        effect     |-> IF kind \in {"verb", "observe"} THEN InferredEffect(head)
                                                      ELSE Opt(s, "effect", None),
        sel        |-> IF kind = "verb" THEN Selector(Get(node, "element")) ELSE { },
        named      |-> CASE kind = "call" /\ Has(s, "inputs") -> NamedRefs(Get(s, "inputs"))
                         [] kind = "let" -> NamedRefs(node)
                         [] kind = "invoke" /\ Has(node, "args") -> NamedRefs(Get(node, "args"))
                         [] OTHER -> << >>,
        refs       |-> CASE kind \in {"if", "verb"} -> Refs(node)
                         [] kind = "foreach" -> Refs(Get(node, "items"))
                         [] OTHER -> { },
        narrowed   |-> Has(s, "expect_schema"),
        via        |-> ChainOf(s, "locate_via"),
        coordinate |-> Has(s, "coordinate"),
        pre        |-> Assertions(s, "preflight"),
        expect     |-> Assertions(s, "expect"),
        handlers   |-> Handlers(s),
        checkpoint |-> Opt(s, "checkpoint", env.inside = << >>),
        human      |-> IF kind = "human" THEN Human(node) ELSE None,
        link       |-> IF kind = "call" THEN node.v ELSE None,
        as         |-> IF kind = "foreach" THEN Get(node, "as").v ELSE None,
        then       |-> << >>, else |-> << >>, body |-> << >> ]

RECURSIVE NormalizeSteps(_, _), NormalizeStep(_, _)
NormalizeSteps(items, env) ==
  FoldLeft(LAMBDA acc, s : Both(acc, NormalizeStep(s, env)), Nothing, items)

(* The probes of a macro call site guard the first expanded step.          *)
MergePreflight(probes, out) ==
  IF out.steps = << >> THEN out
  ELSE [out EXCEPT !.steps[1].pre = probes \o @]

NormalizeStep(s, env) ==
  LET kind == KindOf(s, env)
      head == IF Heads(s, env) = { } THEN None ELSE CHOOSE h \in Heads(s, env) : TRUE
      here == StepHere(s, kind, head, env)
      Inside(node) == NormalizeSteps(node.items, env)
      linked == Out(<< >>, HandlerLinks(here.handlers) \o (IF kind = "call" THEN << here.link >>
                                                                           ELSE << >>))
      With(then, else, body) ==
        [ ok    |-> then.ok /\ else.ok /\ body.ok,
          steps |-> << [here EXCEPT !.then = then.steps, !.else = else.steps, !.body = body.steps] >>,
          links |-> linked.links \o then.links \o else.links \o body.links ]
      good == /\ StepGood(s, env)
              /\ IF kind = "macro" THEN ExpansionGood(head, Get(s, head), env)
                                   ELSE HeadGood(s, kind, head)
  IN  IF ~good THEN Refused
      ELSE CASE kind = "macro" ->
                  MergePreflight(Assertions(s, "preflight"),
                    NormalizeSteps(Expansion(head, Get(s, head), Get(s, "id").v, env),
                                   [env EXCEPT !.inside = Append(@, head)]))
             [] kind = "if" ->
                  With(Inside(Get(s, "then")),
                       IF Has(s, "else") THEN Inside(Get(s, "else")) ELSE Nothing, Nothing)
             [] kind = "foreach" -> With(Nothing, Nothing, Inside(Get(Get(s, "foreach"), "steps")))
             [] OTHER -> With(Nothing, Nothing, Nothing)

-----------------------------------------------------------------------------
(* Documents.                                                              *)
ParamsGood(node) ==
  node.n = "map" /\ \A p \in DOMAIN node.fields :
    /\ IsMap(node.fields[p], {"schema", "required", "default"})
    /\ Has(node.fields[p], "schema")
    /\ Texts(node.fields[p]) = { }
Params(doc) ==
  IF ~Has(doc, "params") THEN { }
  ELSE { [ name |-> p, required |-> Opt(Get(doc, "params").fields[p], "required", FALSE),
           default |-> Has(Get(doc, "params").fields[p], "default") ]
         : p \in DOMAIN Get(doc, "params").fields }

OutputsGood(node) ==
  node.n = "map" /\ \A o \in DOMAIN node.fields :
    /\ IsMap(node.fields[o], {"schema", "from"}) /\ Cardinality(DOMAIN node.fields[o].fields) = 2
    /\ IsValue(Get(node.fields[o], "from"))

DocumentGood(doc) ==
  /\ IsMap(doc, TopKeys)
  /\ {"flow", "provider", "steps"} \subseteq DOMAIN doc.fields
  /\ Get(doc, "provider").v = "devicerail"
  /\ Opt(doc, "verdict_policy", "standard") \in {"standard", "strict"}
  /\ Given(doc, "params", ParamsGood)
  /\ Given(doc, "outputs", OutputsGood)
  /\ Given(doc, "macros", LAMBDA ms : ms.n = "map" /\ \A m \in DOMAIN ms.fields : MacroGood(m, ms.fields[m]))
  /\ Given(doc, "handlers", LAMBDA hs : IsMap(hs, Hooks) /\ HandlersGood(hs))
  /\ IsFullList(Get(doc, "steps"))

Normalized(doc) ==
  IF ~DocumentGood(doc) THEN Refused
  ELSE LET env == [ macros |-> IF Has(doc, "macros") THEN Get(doc, "macros").fields ELSE << >>,
                    inside |-> << >> ]
           handlers == IF Has(doc, "handlers") THEN Handlers(Get(doc, "handlers")) ELSE << >>
           out == NormalizeSteps(Get(doc, "steps").items, env)
       IN  [ ok       |-> out.ok,
             flow     |-> Get(doc, "flow").v,
             params   |-> Params(doc),
             outputs  |-> IF Has(doc, "outputs") THEN Refs(Get(doc, "outputs")) ELSE { },
             handlers |-> handlers,
             steps    |-> out.steps,
             links    |-> HandlerLinks(handlers) \o out.links ]
=============================================================================
