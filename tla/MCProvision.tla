------------------------------ MODULE MCProvision ------------------------------
(***************************************************************************)
(* Small documents for Provision, in families: every kind of read from     *)
(* every place of one skeleton; bindings; macros; handlers and requests to *)
(* people; links between files; and forms that bind differently from       *)
(* lockfile to lockfile.  A file is named by what it holds.                *)
(***************************************************************************)
EXTENDS Provision

Id(x) == Scalar(<< x >>)
Named(x, step) == Map([id |-> Id(x)] @@ step)
Literal == Scalar("literal")
Lasting == [effect |-> Scalar("mutating")]

Driver(x) == [invoke |-> Map([action |-> Scalar("swipe")])] @@ Lasting
Narrow(x) == Driver(x) @@ [expect_schema |-> Scalar("schema")]
If(cond, then, else) == [if |-> cond, then |-> List(then), else |-> List(else)]
Loop(items, name, steps) ==
  [foreach |-> Map([items |-> items, as |-> Scalar(name), steps |-> List(steps)])]
LetAll(keys, values) == [let |-> OrderedMap(keys, values)]
LetOne(name) == LetAll(<< name >>, name :> Literal)
ExprItem(refs) == Map([expr |-> Text(refs)])
Checking(refs) == [expect |-> List(<< ExprItem(refs) >>)]
CallTo(file) == [call |-> Scalar(file)]

Document(flow, steps) ==
  Map([flow |-> Scalar(flow), provider |-> Scalar("devicerail"), steps |-> List(steps)])
Param(name) == name :> Map([schema |-> Scalar("schema")])
WithParam(doc) == Map(doc.fields @@ [params |-> Map(Param("p"))])

-----------------------------------------------------------------------------
(* Reads: the reader stands at a place of the skeleton                     *)
(*   a: invoke, narrowed; i: if p [b] [c]; d: foreach x in p [e]; f: assert*)
Targets ==
  { << "steps", x, "output" >> : x \in {"a", "b", "c", "e", "f", "i", "r", "z"} }
    \union { << "steps", "a", "field" >>, << "steps", "b", "field" >>,
             << "steps", "a", "verdict" >>, << "steps", "f", "verdict" >>,
             << "iter", "x", None >>, << "params", "p", None >>, << "params", "q", None >>,
             << "vars", "v", None >> }
Positions == {"args", "assertion", "preflight", "escalation", "outputs"}
Places == {"start", "then", "else", "body", "end"}

Asking(refs) ==
  Map([escalate |-> Map([mode |-> Scalar("judge"), prompt |-> Text(refs),
                         timeout_ms |-> Scalar(1)]), max_triggers |-> Scalar(1)])
Reader(position, ref) ==
  LET extra == CASE position = "args" ->
                      [invoke |-> Map([action |-> Scalar("swipe"),
                                       args |-> Map([by |-> Text({ref})])])]
                 [] position = "assertion" -> Checking({ref})
                 [] position = "preflight" -> [preflight |-> List(<< ExprItem({ref}) >>)]
                 [] position = "escalation" -> [on_fail |-> Asking({ref})]
                 [] OTHER -> << >>
  IN  Named("r", extra @@ Driver("r"))

Skeleton(place, reader) ==
  LET At(here) == IF here = place THEN << reader >> ELSE << >>
      p == Text({<< "params", "p", None >>})
  IN  At("start")
      \o << Named("a", Narrow("a")),
            Named("i", If(p, << Named("b", Driver("b")) >> \o At("then"),
                             << Named("c", Driver("c")) >> \o At("else"))),
            Named("d", Loop(p, "x", << Named("e", Driver("e")) >> \o At("body"))),
            Named("f", Checking({<< "params", "p", None >>})) >>
      \o At("end")

Reading(position, place, ref) ==
  LET doc == WithParam(Document("reading", Skeleton(place, Reader(position, ref))))
  IN  IF position # "outputs" THEN doc
      ELSE Map(doc.fields @@
               [outputs |-> Map([o |-> Map([schema |-> Scalar("schema"), from |-> Text({ref})])])])

Readings ==
  [ k \in {"read"} \X Positions \X Places \X Targets |-> Reading(k[2], k[3], k[4]) ]

(* Bindings: a let at one place of the skeleton, read at another.          *)
Binding(place, reader) ==
  LET steps == Skeleton(place, Named("l", LetOne("v")))
  IN  WithParam(Document("binding",
        steps \o (IF reader = "second"
                  THEN << Named("m", LetAll(<< "v" >>, "v" :> Literal)) >>
                  ELSE << Named("r", Checking({<< "vars", reader, None >>})) >>)))
Lets ==
  [ k \in {"bind"} \X Places \X {"v", "w", "second"} |-> Binding(k[2], k[3]) ]
    @@ (<< "bind", "own" >> :>
          Document("own", << Named("l", LetAll(<< "v", "w" >>,
            [v |-> Literal, w |-> Text({<< "vars", "v", None >>})])) >>))

-----------------------------------------------------------------------------
(* Macros: one that loops, used twice; nested; recursive; one that reads   *)
(* its own step; one whose argument carries the read.                      *)
MacroOf(steps) == Map([steps |-> List(steps), params |-> List(<< Scalar("t") >>)])
Use(name, t) == name :> Map([t |-> t])
WithMacros(doc, macros) == Map(doc.fields @@ [macros |-> Map(macros)])
TheArgument == Text({<< "macro", "t", None >>})

Looping == "looping" :> MacroOf(<< Named("k", Loop(TheArgument, "y", << Named("j", Driver("j")) >>)),
                                   Named("o", Driver("o")) >>)
Nesting(inner) == "nesting" :> MacroOf(<< Named("n", Use(inner, TheArgument)) >>)
SelfReading ==
  "selfish" :> MacroOf(<< Named("k", Driver("k")),
                          Named("o", Checking({<< "steps", "k", "output" >>, << "macro", "t", None >>})) >>)

Macros ==
  ( << "macro", "twice" >> :>
      WithMacros(Document("twice", << Named("q", Use("looping", Literal)),
                                      Named("s", Use("looping", Literal)) >>), Looping) )
  @@ ( << "macro", "nested" >> :>
      WithMacros(Document("nested", << Named("q", Use("nesting", Literal)) >>),
                 Looping @@ Nesting("looping")) )
  @@ ( << "macro", "recursive" >> :>
      WithMacros(Document("recursive", << Named("q", Use("nesting", Literal)) >>),
                 Nesting("nesting")) )
  @@ ( << "macro", "selfish" >> :>
      WithMacros(Document("selfish", << Named("q", Use("selfish", Literal)) >>), SelfReading) )
  @@ ( << "macro", "argument" >> :>
      WithMacros(Document("argument",
        << Named("a", Driver("a")),
           Named("q", Use("looping", Text({<< "steps", "a", "output" >>}))) >>), Looping) )

-----------------------------------------------------------------------------
(* Handlers of every disposition on hosts of every kind, and requests.     *)
Requests ==
  [ confirm |-> [mode |-> Scalar("confirm"), decisions |-> List(<< Scalar("yes"), Scalar("no") >>)],
    bare    |-> [mode |-> Scalar("confirm")],
    judge   |-> [mode |-> Scalar("judge")],
    foreign |-> [mode |-> Scalar("judge"), decisions |-> List(<< Scalar("maybe") >>)],
    input   |-> [mode |-> Scalar("provideInput"), expect_schema |-> Scalar("schema")],
    repair  |-> [mode |-> Scalar("repairWorld")] ]
Request(kind) == Requests[kind] @@ [prompt |-> Literal]
HumanStep(kind) == [human |-> Map(Request(kind)), timeout_ms |-> Scalar(1)]

Policy == Map([max_attempts |-> Scalar(2), backoff_ms |-> Scalar(1), retry_on |-> Scalar("any")])
Disposals ==
  [ retry |-> [retry |-> Policy], goOn |-> [continue |-> Map(<< >>)],
    abort |-> [abort |-> Map(<< >>)], repair |-> [repair |-> Scalar(<< "link", "leaf" >>)] ]
    @@ [ k \in DOMAIN Requests |->
           [escalate |-> Map(Request(k) @@ [timeout_ms |-> Scalar(1)])] ]
Handling(hook, disposal) == hook :> Map(Disposals[disposal] @@ [max_triggers |-> Scalar(1)])

Hosts ==
  [ action |-> Driver("h"), call |-> CallTo(<< "link", "leaf" >>), human |-> HumanStep("judge"),
    assert |-> Checking({<< "params", "p", None >>}) ]
HandledOn(host, hook, disposal) ==
  WithParam(Document("handled", << Named("h", Hosts[host] @@ Handling(hook, disposal)) >>))

Handled ==
  [ k \in {"handle"} \X (DOMAIN Hosts) \X {"on_fail", "on_resume_drift"} \X (DOMAIN Disposals) |->
      HandledOn(k[2], k[3], k[4]) ]
    @@ [ k \in {"ask"} \X (DOMAIN Requests) |-> Document("asked", << Named("h", HumanStep(k[2])) >>) ]
    @@ ( << "handle", "flow" >> :>
         LET doc == Document("whole", << Named("a", Driver("a")) >>)
         IN  Map(doc.fields @@ [handlers |-> Map(Handling("on_fail", "repair"))]) )

-----------------------------------------------------------------------------
(* Links: `of` is the flow id a file declares, `to` the files it calls.    *)
Calls(of, to) ==
  Document(of, << Named("a", Driver("a")) >>
               \o [i \in DOMAIN to |-> Named(<< "c1", "c2", "c3" >>[i], CallTo(<< "link", to[i] >>))])
Tap(x) == [tap |-> Map([element |-> Map([name |-> Literal])])]

Links ==
  LET Repairing(doc) ==
        Map([doc.fields EXCEPT !["steps"] =
          List(Append(@.items, Named("z", Driver("z") @@ Handling("on_fail", "repair"))))])
      file == [ leaf    |-> Calls("leaf", << >>),
                leafToo |-> Calls("leaf", << >>),
                other   |-> Document("leaf", << Named("b", Driver("b")) >>),
                needy   |-> Document("needy", << Named("t", Tap("t")) >>),
                broken  |-> Document("broken", << Named("b", [tap |-> Literal]) >>),
                asking  |-> Map(Document("asking", << Named("a", Driver("a")) >>).fields
                              @@ [params |-> Map("p" :> Map([schema |-> Literal, required |-> Scalar(TRUE)]))]),
                mid     |-> Calls("mid", << "leaf" >>),
                midToo  |-> Calls("mid2", << "other" >>),
                middle  |-> Calls("middle", << "mid" >>),
                long    |-> Calls("long", << "middle" >>),
                longer  |-> Calls("longer", << "long" >>),
                diamond |-> Calls("diamond", << "mid", "leaf", "leafToo" >>),
                clash   |-> Calls("clash", << "mid", "midToo" >>),
                clashing |-> Calls("clashing", << "leaf", "other" >>),
                self    |-> Calls("self", << "self" >>),
                ring    |-> Calls("ring", << "gnir" >>),
                gnir    |-> Calls("gnir", << "leaf", "ring" >>),
                lost    |-> Calls("lost", << "leaf", "nowhere" >>),
                failing |-> Calls("failing", << "broken", "leaf" >>),
                unasked |-> Calls("unasked", << "asking" >>),
                wanting |-> Calls("wanting", << "needy" >>),
                wantsWants |-> Calls("wantsWants", << "wanting", "needy" >>),
                detour  |-> Calls("detour", << "hop" >>),
                bypass  |-> Calls("bypass", << "mid", "detour" >>),
                hop     |-> Calls("hop", << "mid" >>),
                mending |-> Repairing(Calls("mending", << "other" >>)),
                mended  |-> Repairing(Calls("mended", << "mid" >>)) ]
  IN  [ k \in {"link"} \X (DOMAIN file) |-> file[k[2]] ]

-----------------------------------------------------------------------------
(* Bindings to a capability set.                                           *)
Vias == { << >>, << "dom" >>, << "uiTree" >>, << "uiTree", "coordinate" >>,
          << "coordinate", "uiTree" >>, << "vision" >> }
Sels == {{"css"}, {"role"}, {"css", "role"}}
Pick(sel) == Map([k \in sel |-> Literal])
Via(key, via) == IF via = << >> THEN << >> ELSE key :> List(Each(Scalar, via))
Point(given) == IF given THEN [coordinate |-> Literal] ELSE << >>

Tapping ==
  [ k \in {"tap"} \X Vias \X Sels \X BOOLEAN |->
      Document("tap", << Named("t", [tap |-> Map([element |-> Pick(k[3])])]
                                    @@ Via("locate_via", k[2]) @@ Point(k[4])) >>) ]
Verifying ==
  LET Item(via, sel, prompted) ==
        Map([element |-> Pick(sel), state |-> Literal] @@ Via("verify_via", via)
              @@ (IF prompted THEN [visual |-> Literal] ELSE << >>))
  IN  [ k \in {"verify"} \X {<< >>, << "dom" >>, << "uiTree", "vision" >>} \X Sels \X BOOLEAN |->
          Document("verify", << Named("t", [expect |-> List(<< Item(k[2], k[3], k[4]) >>)]) >>) ]
Others ==
  LET Invoking(action, more) == [invoke |-> Map([action |-> Scalar(action)] @@ more)]
      Looking == Map([visual |-> Literal])
      step == [ silent    |-> Invoking("swipe", << >>),
                unknown   |-> Invoking("fly", << >>) @@ Lasting,
                protected |-> Invoking("wipe", << >>) @@ Lasting,
                semantic  |-> Invoking("tapElement", [args |-> Map([target |-> Literal])]) @@ Lasting,
                unfit     |-> Invoking("tapElement", [args |-> Map([point |-> Literal])]) @@ Lasting,
                watch     |-> [observe |-> List(<< Scalar("uiSnapshot") >>)],
                shot      |-> [screenshot |-> Map(<< >>)],
                eyes      |-> [expect |-> List(<< Looking >>)],
                judged    |-> [expect |-> List(<< Looking >>)] @@ Handling("on_fail", "judge") ]
  IN  [ k \in {"form"} \X (DOMAIN step) |-> Document("form", << Named("t", step[k[2]]) >>) ]
Forms == Tapping @@ Verifying @@ Others

-----------------------------------------------------------------------------
Docs == Readings @@ Lets @@ Macros @@ Handled @@ Links @@ Forms
Files == DOMAIN Docs

(* Two files hold the same text.                                           *)
Written == [f \in Files |-> IF f = << "link", "leafToo" >> THEN << "link", "leaf" >> ELSE f]

World(support, platform) ==
  [ protocol |-> 5, support |-> InfraRequired \union support, platform |-> platform,
    actions |-> SemanticActions \union {"swipe", "tap", "wipe"}, protected |-> {"wipe"} ]
Everything == World(OfferedOptional, "android")
AllWorlds ==
  { Everything, World(OfferedOptional \ {Semantic}, "android"),
    World(OfferedOptional \ {VerdictRecord}, "android"), World(OfferedOptional, "web") }

TheLock == MakeLockfile(Everything, { })
Attested == { MakeLockfile(w, { }) : w \in AllWorlds }
Edited == [TheLock EXCEPT !.features = @ \union {"session.export.page.v1"}]
Outdated ==
  MakeLockfile([Everything EXCEPT !.protocol = 4], { })
AllLocks == Attested \union {Edited, Outdated}

CallSymmetry == Permutations(Call)

AllProjects ==
  { [root |-> f, lock |-> TheLock] : f \in Files }
    \union { [root |-> f, lock |-> l] : f \in DOMAIN Forms \union {<< "link", "wantsWants" >>},
                                       l \in AllLocks \union {None} }
=============================================================================
