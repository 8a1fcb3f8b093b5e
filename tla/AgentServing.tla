--------------------------- MODULE AgentServing ---------------------------
(***************************************************************************)
(* The tools of an agent from their registration to their call: the        *)
(* registry of swml::Service and agent::AgentBase, the skills that fill it *)
(* (AgentBase::add_skill and skills::SkillManager), the tokens that        *)
(* rendering puts on the web hooks of secure tools, and the /swaig handler *)
(* that checks them (security::SessionManager).                            *)
(*                                                                         *)
(* The platform keeps, for each call, the document that was rendered for   *)
(* it and calls the tools it was offered with the tokens it finds there.   *)
(* A name, a call id and a skill are model values; a token is the fields   *)
(* it joins with dots, and its signature is the secret and what was signed.*)
(***************************************************************************)
EXTENDS Naturals, Sequences, FiniteSets, SequencesExt

CONSTANTS
  Name,          \* names of tools
  Skill,         \* names in the skill registry
  SkillTool,     \* the tool each skill defines
  SkillMaps,     \* the DataMap functions each skill registers, a sequence
  Multi,         \* skills that support multiple instances
  Captures,      \* skills whose handlers use the skill object
  Instance,      \* skill objects, memory that is used again
  NoInstance,    \* a handler that uses no skill object
  Call,          \* call ids
  NoCall,        \* the empty call id
  Dotted,        \* names and call ids that contain a dot
  DataMap,       \* names of DataMap functions
  CopyTool,      \* tools the dynamic configuration callback may define
  TokenExpiry,   \* token_expiry_secs of the agent
  MaxTime,       \* bound on the clock
  Request        \* requests handled at the same time

ASSUME NamesAssumption ==
  /\ SkillTool \in [Skill -> Name] /\ CopyTool \subseteq Name
  /\ DataMap \subseteq Name /\ SkillMaps \in [Skill -> Seq(DataMap)]
  /\ Multi \subseteq Skill /\ Captures \subseteq Skill
ASSUME IdsAssumption == NoInstance \notin Instance /\ NoCall \notin Call
ASSUME TimeAssumption == TokenExpiry \in Nat /\ MaxTime \in Nat

VARIABLES
  tools,           \* tools_: name to [secure, self], self the skill captured
  tool_order_,     \* sequence of names
  datamap,         \* names in datamap_functions_
  agent_skills,    \* AgentBase::loaded_skills_, as a set
  manager_skills,  \* SkillManager::loaded_skills_: [name, instance]
  life,            \* what became of each skill object
  dynamic,         \* dynamic_config_callback_ is set
  now,             \* the clock, in seconds
  documents,       \* the document the platform has for each call
  runs             \* the handler each request is in

registry == <<tools, tool_order_, datamap>>
skills   == <<agent_skills, manager_skills, life>>
vars     == <<tools, tool_order_, datamap, agent_skills, manager_skills, life,
              dynamic, now, documents, runs>>

Tool     == [secure : BOOLEAN, self : Instance \union {NoInstance}]
NoRun    == [name |-> "", self |-> NoInstance]
Secrets  == {"agent", "copy", "before"}

Fields   == (Call \union {NoCall}) \X Name \X Nat
NoToken  == [fields |-> <<>>, signed |-> <<>>]
Tokens   == [fields : Fields, signed : Secrets \X Fields] \union {NoToken}

\* tokens: name to the token on its hook.  The rest is history: what rendered
\* the document, when, and which tools were secure then.
NoDocument == [tokens |-> <<>>, via |-> "nothing", at |-> 0, secure |-> {}]

\* Every variable has its type; tool_order_ names each tool once, and nothing
\* that is neither a tool nor a DataMap function; the manager owns distinct
\* objects that live.
TypeOK ==
  /\ DOMAIN tools \subseteq Name /\ tools \in [DOMAIN tools -> Tool]
  /\ tool_order_ \in Seq(Name) /\ IsInjective(tool_order_)
  /\ DOMAIN tools \subseteq ToSet(tool_order_)
  /\ ToSet(tool_order_) \subseteq DOMAIN tools \union datamap
  /\ datamap \subseteq DataMap
  /\ agent_skills \subseteq Skill
  /\ manager_skills \in Seq([name : Skill, instance : Instance])
  /\ \A i, j \in DOMAIN manager_skills :
       manager_skills[i].instance = manager_skills[j].instance => i = j
  /\ life \in [Instance -> {"free", "owned", "add_skill", "unloaded"}]
  /\ {e.instance : e \in ToSet(manager_skills)} = {i \in Instance : life[i] = "owned"}
  /\ dynamic \in BOOLEAN
  /\ now \in 0 .. MaxTime
  /\ \A c \in Call :
       /\ DOMAIN documents[c].tokens \subseteq Name
       /\ \A n \in DOMAIN documents[c].tokens : documents[c].tokens[n] \in Tokens
  /\ \A q \in Request : runs[q] = NoRun \/ runs[q].name \in Name

Init ==
  /\ tools = <<>>
  /\ tool_order_ = <<>>
  /\ datamap = {}
  /\ agent_skills = {}
  /\ manager_skills = <<>>
  /\ life = [i \in Instance |-> "free"]
  /\ dynamic = FALSE
  /\ now = 0
  /\ documents = [c \in Call |-> NoDocument]
  /\ runs = [q \in Request |-> NoRun]

-----------------------------------------------------------------------------
(* Variants: the same definitions with plausible mistakes *)

\* emplace instead of assignment: the first definition stays.
Define_KeepsFirst(n, secure, self) ==
  tools' = [m \in DOMAIN tools \union {n} |->
    IF m \in DOMAIN tools THEN tools[m] ELSE [secure |-> secure, self |-> self]]

\* remove_function forgets tool_order_.
RemoveFunction_KeepsOrder(n) ==
  /\ n \in DOMAIN tools
  /\ tools' = [m \in DOMAIN tools \ {n} |-> tools[m]]
  /\ UNCHANGED <<tool_order_, datamap, skills, dynamic, now, documents, runs>>

\* A token is refused in the second it expires in.
ValidateToken_Strict(t, n, c) ==
  /\ t # NoToken
  /\ {t.fields[1], t.fields[2]} \intersect Dotted = {}
  /\ t.fields[1] = c /\ t.fields[2] = n
  /\ t.fields[3] > now
  /\ t.signed = <<"agent", t.fields>>

-----------------------------------------------------------------------------
(* The registry *)

Listed(order, n) == IF Contains(order, n) THEN order ELSE Append(order, n)

\* One registration after the other.
ListedAll(order, names) ==
  LET after[k \in 0 .. Len(names)] ==
        IF k = 0 THEN order ELSE Listed(after[k - 1], names[k])
  IN  after[Len(names)]

\* std::remove and erase.
Without(order, n) ==
  LET kept[k \in 0 .. Len(order)] ==
        IF k = 0 THEN <<>>
        ELSE IF order[k] = n THEN kept[k - 1]
        ELSE Append(kept[k - 1], order[k])
  IN  kept[Len(order)]

\* define_tool: the last definition of a name wins; tool_order_ keeps the place
\* of the first.
Define(n, secure, self) ==
  tools' = [m \in DOMAIN tools \union {n} |->
    IF m = n THEN [secure |-> secure, self |-> self] ELSE tools[m]]

DefineTool(n, secure) ==
  /\ Define(n, secure, NoInstance)
  /\ tool_order_' = Listed(tool_order_, n)
  /\ UNCHANGED <<datamap, skills, dynamic, now, documents, runs>>

\* register_swaig_function, for a DataMap function the platform runs itself.
RegisterSwaigFunction(n) ==
  /\ n \in DataMap
  /\ datamap' = datamap \union {n}
  /\ tool_order_' = Listed(tool_order_, n)
  /\ UNCHANGED <<tools, skills, dynamic, now, documents, runs>>

RemoveFunction(n) ==
  /\ n \in DOMAIN tools
  /\ tools' = [m \in DOMAIN tools \ {n} |-> tools[m]]
  /\ tool_order_' = Without(tool_order_, n)
  /\ UNCHANGED <<datamap, skills, dynamic, now, documents, runs>>

-----------------------------------------------------------------------------
(* Skills *)

\* Memory nothing refers to, which a new skill object may get.
Free(i) ==
  /\ life[i] # "owned"
  /\ \A n \in DOMAIN tools : tools[n].self # i
  /\ \A q \in Request : runs[q].self # i

\* register_tools of a skill captures `this` (of those in the registry,
\* native_vector_search does, and a user's skill may) or copies what it needs.
SelfOf(s, i) == IF s \in Captures THEN i ELSE NoInstance

\* The tool of a skill object and its DataMap functions, in this order.
Install(s, i) ==
  /\ Define(SkillTool[s], TRUE, SelfOf(s, i))
  /\ datamap' = datamap \union ToSet(SkillMaps[s])
  /\ tool_order_' = ListedAll(tool_order_, <<SkillTool[s]>> \o SkillMaps[s])

\* add_skill keeps the object in a local variable: it is gone when add_skill
\* returns, and the tools that captured it stay.  The name is listed before the
\* skill is created or set up, and whether or not that works.
AddSkill(s) ==
  /\ agent_skills' = agent_skills \union {s}
  /\ \/ UNCHANGED <<registry, life>>
     \/ \E i \in Instance :
          /\ Free(i)
          /\ Install(s, i)
          /\ life' = [life EXCEPT ![i] = "add_skill"]
  /\ UNCHANGED <<manager_skills, dynamic, now, documents, runs>>

RemoveSkill(s) ==
  /\ agent_skills' = agent_skills \ {s}
  /\ UNCHANGED <<registry, manager_skills, life, dynamic, now, documents, runs>>

IsLoaded(s) == \E e \in ToSet(manager_skills) : e.name = s

\* load_skill, when the skill is known, its environment is there and its setup
\* works; else nothing is registered.
LoadSkill(s) ==
  /\ s \in Multi \/ ~IsLoaded(s)
  /\ \E i \in Instance :
       /\ Free(i)
       /\ Install(s, i)
       /\ life' = [life EXCEPT ![i] = "owned"]
       /\ manager_skills' = Append(manager_skills, [name |-> s, instance |-> i])
  /\ UNCHANGED <<agent_skills, dynamic, now, documents, runs>>

\* unload_skill: the first entry with the name, and its object.
UnloadSkill(s) ==
  /\ IsLoaded(s)
  /\ LET at == SelectInSeq(manager_skills, LAMBDA e : e.name = s)
     IN  /\ manager_skills' = RemoveAt(manager_skills, at)
         /\ life' = [life EXCEPT ![manager_skills[at].instance] = "unloaded"]
  /\ UNCHANGED <<registry, agent_skills, dynamic, now, documents, runs>>

-----------------------------------------------------------------------------
(* Tokens *)

\* create_token.
CreateToken(n, call_id, secret) ==
  LET fields == <<call_id, n, now + TokenExpiry>>
  IN  [fields |-> fields, signed |-> <<secret, fields>>]

\* validate_token, which splits at the dots and expects as many fields as were
\* joined.
ValidateToken(t, n, c) ==
  /\ t # NoToken
  /\ t.fields[1] \notin Dotted /\ t.fields[2] \notin Dotted
  /\ t.fields[2] = n
  /\ t.fields[3] >= now
  /\ t.signed = <<"agent", t.fields>>
  /\ t.fields[1] = c

-----------------------------------------------------------------------------
(* Rendering *)

\* build_swaig_functions, by the agent or by a copy of it with a secret of its
\* own; secure says of each tool there is whether it is.
Render(c, call_id, secret, secure) ==
  documents' = [documents EXCEPT ![c] =
    [tokens |-> [n \in DOMAIN secure |->
                   IF secure[n] /\ call_id # NoCall
                     THEN CreateToken(n, call_id, secret) ELSE NoToken],
     via |-> IF call_id = NoCall THEN "route" ELSE secret,
     at |-> now,
     secure |-> {n \in DOMAIN secure : secure[n]}]]

\* render_swml_for_request, with the copy the callback configures if there is
\* a callback.
RenderForRequest(c, call_id) ==
  LET own == [n \in DOMAIN tools |-> tools[n].secure]
  IN  /\ IF dynamic
           THEN \E extra \in SUBSET CopyTool :
                  Render(c, call_id, "copy",
                         [n \in DOMAIN own \union extra |-> n \in extra \/ own[n]])
           ELSE Render(c, call_id, "agent", own)
      /\ UNCHANGED <<registry, skills, dynamic, now, runs>>

\* The route of a served agent hands the path over without its query, so the
\* call id never arrives.
HandleSwmlRequest(c) == RenderForRequest(c, NoCall)

\* handle_request with the whole URL, for a host that is not httplib.
HandleRequest(c) == RenderForRequest(c, c)

SetDynamicConfigCallback ==
  /\ ~dynamic
  /\ dynamic' = TRUE
  /\ UNCHANGED <<registry, skills, now, documents, runs>>

-----------------------------------------------------------------------------
(* /swaig *)

\* What handle_swaig_request does with a call of n for c.
Outcome(n, c) ==
  IF n \notin DOMAIN tools THEN "404"
  ELSE IF tools[n].secure /\ ~ValidateToken(documents[c].tokens[n], n, c) THEN "403"
  ELSE "run"

HandleSwaigRequest(q, n, c) ==
  /\ runs[q] = NoRun
  /\ n \in DOMAIN documents[c].tokens
  /\ Outcome(n, c) = "run"
  /\ runs' = [runs EXCEPT ![q] = [name |-> n, self |-> tools[n].self]]
  /\ UNCHANGED <<registry, skills, dynamic, now, documents>>

HandlerReturns(q) ==
  /\ runs[q] # NoRun
  /\ runs' = [runs EXCEPT ![q] = NoRun]
  /\ UNCHANGED <<registry, skills, dynamic, now, documents>>

-----------------------------------------------------------------------------
(* Time and restarts *)

Tick ==
  /\ now < MaxTime
  /\ now' = now + 1
  /\ UNCHANGED <<registry, skills, dynamic, documents, runs>>

\* The process starts again, with a new secret.  The platform has what it has.
Outlive(t) ==
  IF t # NoToken /\ t.signed[1] = "agent"
    THEN [t EXCEPT !.signed = <<"before", t.fields>>] ELSE t
Restart ==
  /\ documents' = [c \in Call |->
       LET d == documents[c]
       IN  [tokens |-> [n \in DOMAIN d.tokens |-> Outlive(d.tokens[n])],
            via    |-> IF d.via = "agent" THEN "before" ELSE d.via,
            at     |-> d.at,
            secure |-> d.secure]]
  /\ tools' = <<>> /\ tool_order_' = <<>> /\ datamap' = {}
  /\ agent_skills' = {} /\ manager_skills' = <<>>
  /\ life' = [i \in Instance |-> "free"]
  /\ dynamic' = FALSE
  /\ runs' = [q \in Request |-> NoRun]
  /\ UNCHANGED now

-----------------------------------------------------------------------------
Next ==
  \/ \E n \in Name :
       \/ \E secure \in BOOLEAN : DefineTool(n, secure)
       \/ RegisterSwaigFunction(n) \/ RemoveFunction(n)
  \/ \E s \in Skill : AddSkill(s) \/ RemoveSkill(s) \/ LoadSkill(s) \/ UnloadSkill(s)
  \/ \E c \in Call : HandleSwmlRequest(c) \/ HandleRequest(c)
  \/ SetDynamicConfigCallback
  \/ \E q \in Request : \E n \in Name, c \in Call : HandleSwaigRequest(q, n, c)
  \/ \E q \in Request : HandlerReturns(q)
  \/ Tick \/ Restart

Spec == Init /\ [][Next]_vars
-----------------------------------------------------------------------------
(* Properties *)

\* The token of a rendered document is the one /swaig accepts, until the second
\* it expires in and for as long as the tool is registered, whatever else is
\* defined, removed, loaded or rendered in between.  What stands in the way is
\* one of: the route of a served agent, a copy with a secret of its own, a
\* restart, a dot in a name or call id, and a tool that has become secure since.
RefusalHasReason ==
  \A c \in Call : \A n \in DOMAIN documents[c].tokens :
    Outcome(n, c) = "403" =>
      \/ documents[c].via # "agent"
      \/ now > documents[c].at + TokenExpiry
      \/ {n, c} \intersect Dotted # {}
      \/ n \notin documents[c].secure

\* A tool of a skill the manager holds runs on an object that lives, however
\* often the skill was unloaded and loaded again, if no other skill defines a
\* tool of that name; only add_skill can have put another handler in its place.
\* (Of two skills with one tool name the last loaded has the tool, and unloading
\* it leaves the other without.)
LoadedSkillServes ==
  \A s \in Skill \ Multi :
    IsLoaded(s) /\ SkillTool[s] \in DOMAIN tools
      /\ (\A r \in Skill \ {s} : SkillTool[r] # SkillTool[s]) =>
        LET self == tools[SkillTool[s]].self
        IN  self # NoInstance => life[self] \in {"owned", "add_skill"}

\* tests/test_agent.cpp:744: "The token the RENDER puts on the wire must be the
\* token the VALIDATOR accepts. [...] every secure tool would 403 in production
\* while the render looked correct."
RenderedTokenValidates ==
  \A c \in Call : \A n \in documents[c].secure \ Dotted :
    documents[c].via # "before" /\ now <= documents[c].at + TokenExpiry
      => Outcome(n, c) # "403"

\* docs/agent_guide.md:354: "This stateless design lets tokens remain valid
\* across server restarts".
TokensSurviveRestart ==
  \A c \in Call : \A n \in documents[c].secure \ Dotted :
    documents[c].via = "before" /\ now <= documents[c].at + TokenExpiry
      => Outcome(n, c) # "403"

\* docs/skills_system.md:155-156 shows add_skill("native_vector_search", ...) as
\* the way to search a remote index, and line 137 the tool it provides.
SkillToolRunsLive ==
  \A q \in Request : runs[q].self # NoInstance => life[runs[q].self] = "owned"
=============================================================================
