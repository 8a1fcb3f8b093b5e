------------------------- MODULE AgentServingProofs -------------------------
(***************************************************************************)
(* The invariants of AgentServing for any tools, skills, objects, calls,   *)
(* lifetime and clock.                                                     *)
(*                                                                         *)
(* RefusalHasReason: what /swaig answers depends on two things that change *)
(* apart, the registry and the documents rendered from it.  Promise says   *)
(* what the documents promise; the registry may be anything.               *)
(*                                                                         *)
(* TypeOK and LoadedSkillServes: that a loaded skill serves is no fact of  *)
(* one step, because unload_skill leaves the tools of the object it        *)
(* destroys.  ToolsOfSkills says whose tool an owned object may have, and  *)
(* OneEntry that a second entry of the skill cannot keep it loaded.  What  *)
(* tool_order_ holds after a skill, or after std::remove, is an induction  *)
(* along a sequence, by its least counterexample.                          *)
(***************************************************************************)
EXTENDS AgentServing, SequenceTheorems, WellFoundedInduction, TLAPS

(* The documents *)

\* A document is a record of its four parts.
IsDocument(d) ==
  /\ d = [tokens |-> d.tokens, via |-> d.via, at |-> d.at, secure |-> d.secure]
  /\ d.at \in Nat

\* A document the agent rendered for a call carries, on each tool that was
\* secure then, the token of that tool, that call and that moment.
Keeps(c, d) ==
  \A n \in DOMAIN d.tokens :
    d.via = "agent" /\ n \in d.secure =>
      LET fields == <<c, n, d.at + TokenExpiry>>
      IN  d.tokens[n] = [fields |-> fields, signed |-> <<"agent", fields>>]

\* Every document is one, and keeps its promise.
Promise ==
  /\ now \in Nat
  /\ documents = [c \in Call |-> documents[c]]
  /\ \A c \in Call : IsDocument(documents[c]) /\ Keeps(c, documents[c])

-----------------------------------------------------------------------------
\* Rendering for a call replaces the document of that call alone, by one that
\* keeps the promise: with the agent's secret only for the call it is for.
LEMMA RenderKeepsPromise ==
  ASSUME Promise, NEW c \in Call, NEW call_id, NEW secret, NEW secure,
         Render(c, call_id, secret, secure),
         call_id \in {c, NoCall}, secret \in {"agent", "copy"}, now' = now
  PROVE  Promise'
<1> DEFINE new == [tokens |-> [n \in DOMAIN secure |->
                      IF secure[n] /\ call_id # NoCall
                        THEN CreateToken(n, call_id, secret) ELSE NoToken],
                   via |-> IF call_id = NoCall THEN "route" ELSE secret,
                   at |-> now,
                   secure |-> {n \in DOMAIN secure : secure[n]}]
<1>1. documents' = [documents EXCEPT ![c] = new]
  BY DEF Render
<1>2. IsDocument(new)
  BY DEF Promise, IsDocument
<1>3. Keeps(c, new)
  <2> SUFFICES ASSUME NEW n \in DOMAIN new.tokens,
                      new.via = "agent", n \in new.secure
               PROVE  LET fields == <<c, n, new.at + TokenExpiry>>
                      IN  new.tokens[n] = [fields |-> fields,
                                           signed |-> <<"agent", fields>>]
    BY DEF Keeps
  <2>1. call_id = c /\ call_id # NoCall /\ secret = "agent"
    OBVIOUS
  <2>2. secure[n]
    OBVIOUS
  <2> QED
    BY <2>1, <2>2 DEF CreateToken
<1> HIDE DEF new
<1>4. documents' = [d \in Call |-> documents'[d]]
  BY <1>1 DEF Promise
<1>5. ASSUME NEW d \in Call
      PROVE  documents'[d] = IF d = c THEN new ELSE documents[d]
  BY <1>1 DEF Promise
<1> QED
  BY <1>2, <1>3, <1>4, <1>5 DEF Promise, IsDocument, Keeps

\* After a restart no document counts as the agent's.
LEMMA RestartKeepsPromise ==
  ASSUME Promise, Restart PROVE Promise'
<1> DEFINE new(d) ==
             [tokens |-> [n \in DOMAIN d.tokens |-> Outlive(d.tokens[n])],
              via    |-> IF d.via = "agent" THEN "before" ELSE d.via,
              at     |-> d.at,
              secure |-> d.secure]
<1>1. documents' = [c \in Call |-> new(documents[c])] /\ now' = now
  BY DEF Restart
<1>2. ASSUME NEW d, IsDocument(d)
      PROVE  IsDocument(new(d)) /\ new(d).via # "agent"
  BY <1>2 DEF IsDocument
<1> HIDE DEF new
<1>3. documents' = [c \in Call |-> documents'[c]]
  BY <1>1
<1>4. ASSUME NEW c \in Call
      PROVE  IsDocument(documents'[c]) /\ documents'[c].via # "agent"
  BY <1>1, <1>2 DEF Promise
<1> QED
  BY <1>1, <1>3, <1>4 DEF Promise, IsDocument, Keeps

-----------------------------------------------------------------------------
\* The documents keep their promise, whatever is defined, removed, loaded,
\* rendered or restarted.
THEOREM PromiseIsKept == Spec => []Promise
<1>1. Init => Promise
  BY DEF Init, Promise, IsDocument, Keeps, NoDocument
<1>2. Promise /\ [Next]_vars => Promise'
  <2> SUFFICES ASSUME Promise, [Next]_vars PROVE Promise'
    OBVIOUS
  <2>1. ASSUME UNCHANGED <<now, documents>> PROVE Promise'
    BY <2>1 DEF Promise, IsDocument, Keeps
  <2>2. ASSUME NEW c \in Call, NEW call_id \in {c, NoCall},
               RenderForRequest(c, call_id)
        PROVE  Promise'
    <3> DEFINE own == [n \in DOMAIN tools |-> tools[n].secure]
    <3>1. now' = now
      BY <2>2 DEF RenderForRequest
    <3>2. \E secret \in {"agent", "copy"} : \E secure :
            Render(c, call_id, secret, secure)
      BY <2>2 DEF RenderForRequest
    <3> QED
      BY <3>1, <3>2, RenderKeepsPromise
  <2>3. CASE \E c \in Call : HandleSwmlRequest(c) \/ HandleRequest(c)
    BY <2>2, <2>3 DEF HandleSwmlRequest, HandleRequest
  <2>4. CASE Tick
    BY <2>4 DEF Tick, Promise, IsDocument, Keeps
  <2>5. CASE Restart
    BY <2>5, RestartKeepsPromise
  <2>6. CASE \E n \in Name :
               \/ \E secure \in BOOLEAN : DefineTool(n, secure)
               \/ RegisterSwaigFunction(n) \/ RemoveFunction(n)
    BY <2>1, <2>6 DEF DefineTool, RegisterSwaigFunction, RemoveFunction
  <2>7. CASE \E s \in Skill :
               \/ AddSkill(s) \/ RemoveSkill(s)
               \/ LoadSkill(s) \/ UnloadSkill(s)
    BY <2>1, <2>7 DEF AddSkill, RemoveSkill, LoadSkill, UnloadSkill
  <2>8. CASE SetDynamicConfigCallback
    BY <2>1, <2>8 DEF SetDynamicConfigCallback
  <2>9. CASE \E q \in Request :
               \/ HandlerReturns(q)
               \/ \E n \in Name, c \in Call : HandleSwaigRequest(q, n, c)
    BY <2>1, <2>9 DEF HandlerReturns, HandleSwaigRequest
  <2>10. CASE UNCHANGED vars
    BY <2>1, <2>10 DEF vars
  <2> QED
    BY <2>3, <2>4, <2>5, <2>6, <2>7, <2>8, <2>9, <2>10 DEF Next
<1> QED
  BY <1>1, <1>2, PTL DEF Spec

-----------------------------------------------------------------------------
\* A secure tool is refused to the call its document was rendered for only for
\* one of the reasons listed, at any moment and in any registry.
THEOREM RefusalIsExplained == Spec => []RefusalHasReason
<1>1. Promise => RefusalHasReason
  <2> SUFFICES ASSUME Promise, NEW c \in Call,
                      NEW n \in DOMAIN documents[c].tokens,
                      Outcome(n, c) = "403", documents[c].via = "agent",
                      ~(now > documents[c].at + TokenExpiry),
                      {n, c} \intersect Dotted = {}, n \in documents[c].secure
               PROVE  FALSE
    BY DEF RefusalHasReason
  <2> DEFINE fields == <<c, n, documents[c].at + TokenExpiry>>
             t == documents[c].tokens[n]
  <2>1. t = [fields |-> fields, signed |-> <<"agent", fields>>]
    BY DEF Promise, Keeps
  <2>2. t.fields = fields /\ t.signed = <<"agent", t.fields>>
    BY <2>1
  <2>3. /\ t.fields[1] = c /\ t.fields[2] = n
        /\ t.fields[3] = documents[c].at + TokenExpiry
    BY <2>2
  <2>4. t # NoToken
    <3>1. Len(t.fields) = 3
      BY <2>2
    <3>2. ASSUME t = NoToken PROVE Len(t.fields) = 0
      BY <3>2 DEF NoToken
    <3> HIDE DEF t
    <3> QED
      BY <3>1, <3>2, 3 # 0
  <2>5. t.fields[3] >= now
    BY <2>3, TimeAssumption DEF Promise, IsDocument
  <2> HIDE DEF t, fields
  <2>6. ValidateToken(t, n, c)
    BY <2>2, <2>3, <2>4, <2>5 DEF ValidateToken
  <2> QED
    BY <2>6 DEF Outcome, t
<1> QED
  BY <1>1, PromiseIsKept, PTL

-----------------------------------------------------------------------------
(* Recursion and sequences *)

\* A set of naturals that is not empty has a least element.
LEMMA NatLeast ==
  ASSUME NEW T \in SUBSET Nat, T # {}
  PROVE  \E x \in T : \A y \in T : x <= y
<1> DEFINE R == OpToRel(<, Nat)
<1>1. IsWellFoundedOn(R, Nat)
  BY NatLessThanWellFounded
<1>2. \A x, y \in Nat : <<x, y>> \in R <=> x < y
  BY DEF OpToRel
<1> HIDE DEF R
<1>3. PICK x \in T : \A y \in T : ~(<<y, x>> \in R)
  BY <1>1, WFMin
<1>4. \A y \in T : ~(y < x)
  BY <1>2, <1>3
<1> HIDE <1>2, <1>3
<1> QED
  BY <1>4

\* ... so a set of naturals with 0 and the successors of its elements below m
\* has them all: induction, with no operator to instantiate.
LEMMA IntervalInduction ==
  ASSUME NEW m \in Nat, NEW G, 0 \in G, \A k \in 1..m : k - 1 \in G => k \in G
  PROVE  \A k \in 0..m : k \in G
<1> DEFINE T == (0..m) \ G
<1>1. ASSUME T # {} PROVE FALSE
  <2>1. PICK x \in T : \A y \in T : x <= y
    <3>1. T \in SUBSET Nat
      OBVIOUS
    <3> HIDE DEF T
    <3> QED
      BY <1>1, <3>1, NatLeast
  <2>2. x - 1 \notin T /\ x \in 1..m
    BY <2>1
  <2> QED
    BY <2>1, <2>2
<1> QED
  BY <1>1

\* f goes from base to elements of S, by one step after the other.
Steps(f, m, S, base, step) ==
  /\ f \in [0..m -> S] /\ f[0] = base
  /\ \A k \in 1..m : f[k] = step[k][f[k - 1]]

\* Recursion along an interval defines a function: one up to k - 1 is extended
\* to k.
LEMMA RecursionExists ==
  ASSUME NEW m \in Nat, NEW S, NEW base \in S, NEW step \in [1..m -> [S -> S]]
  PROVE  \E f : Steps(f, m, S, base, step)
<1> DEFINE G == {k \in 0..m : \E f : Steps(f, k, S, base, step)}
<1>1. 0 \in G
  <2> DEFINE g == [n \in 0..0 |-> base]
  <2>1. Steps(g, 0, S, base, step)
    BY DEF Steps
  <2> HIDE DEF g
  <2> QED
    BY <2>1
<1>2. ASSUME NEW k \in 1..m, k - 1 \in G PROVE k \in G
  <2>1. PICK f : Steps(f, k - 1, S, base, step)
    BY <1>2
  <2>2. /\ f \in [0..k - 1 -> S] /\ f[0] = base
        /\ \A j \in 1..k - 1 : f[j] = step[j][f[j - 1]]
    BY <2>1 DEF Steps
  <2>3. f[k - 1] \in S /\ step[k][f[k - 1]] \in S
    BY <2>2
  <2> DEFINE g == [n \in 0..k |-> IF n = k THEN step[k][f[k - 1]] ELSE f[n]]
  <2>4. g \in [0..k -> S] /\ g[0] = base
    BY <2>2, <2>3
  <2>5. ASSUME NEW j \in 1..k PROVE g[j] = step[j][g[j - 1]]
    <3>1. g[j - 1] = f[j - 1]
      OBVIOUS
    <3>2. CASE j = k
      BY <3>1, <3>2
    <3>3. CASE j # k
      <4>1. j \in 1..k - 1 /\ g[j] = f[j]
        BY <3>3
      <4> QED
        BY <2>2, <3>1, <4>1
    <3> QED
      BY <3>2, <3>3
  <2> HIDE DEF g
  <2>6. Steps(g, k, S, base, step)
    BY <2>4, <2>5 DEF Steps
  <2> QED
    BY <2>6
<1>3. m \in G
  <2> HIDE DEF G
  <2>1. \A k \in 0..m : k \in G
    BY <1>1, <1>2, IntervalInduction
  <2> QED
    BY <2>1
<1> QED
  BY <1>3

\* A name that is listed once more.
LEMMA AppendNew ==
  ASSUME NEW order \in Seq(Name), IsInjective(order), NEW n \in Name,
         n \notin ToSet(order)
  PROVE  /\ Append(order, n) \in Seq(Name) /\ IsInjective(Append(order, n))
         /\ ToSet(Append(order, n)) = ToSet(order) \union {n}
<1> DEFINE new == Append(order, n)
<1>1. /\ Len(order) \in Nat /\ DOMAIN order = 1..Len(order)
      /\ new \in Seq(Name) /\ DOMAIN new = 1..Len(order) + 1
      /\ \A i \in 1..Len(order) : new[i] = order[i]
      /\ new[Len(order) + 1] = n
  OBVIOUS
<1> HIDE DEF new
<1>2. \A i \in 1..Len(order) : order[i] # n
  BY <1>1 DEF ToSet
<1>3. IsInjective(new)
  BY <1>1, <1>2 DEF IsInjective
<1>4. ToSet(new) = ToSet(order) \union {n}
  <2>1. ASSUME NEW x \in ToSet(new) PROVE x \in ToSet(order) \union {n}
    BY <1>1 DEF ToSet
  <2>2. ASSUME NEW x \in ToSet(order) \union {n} PROVE x \in ToSet(new)
    BY <1>1 DEF ToSet
  <2> QED
    BY <2>1, <2>2
<1> QED
  BY <1>1, <1>3, <1>4 DEF new

\* define_tool lists a name once, however often it is defined.
LEMMA ListedKeeps ==
  ASSUME NEW order \in Seq(Name), IsInjective(order), NEW n \in Name
  PROVE  /\ Listed(order, n) \in Seq(Name) /\ IsInjective(Listed(order, n))
         /\ ToSet(Listed(order, n)) = ToSet(order) \union {n}
<1>1. Contains(order, n) <=> n \in ToSet(order)
  <2>1. DOMAIN order = 1..Len(order)
    OBVIOUS
  <2> QED
    BY <2>1 DEF Contains, ToSet
<1>2. CASE Contains(order, n)
  BY <1>1, <1>2 DEF Listed
<1>3. CASE ~Contains(order, n)
  BY <1>1, <1>3, AppendNew DEF Listed
<1> QED
  BY <1>2, <1>3

\* add_skill and load_skill list their names one after the other: by induction
\* over the names.
LEMMA ListedAllKeeps ==
  ASSUME NEW order \in Seq(Name), IsInjective(order), NEW names \in Seq(Name)
  PROVE  /\ ListedAll(order, names) \in Seq(Name)
         /\ IsInjective(ListedAll(order, names))
         /\ ToSet(ListedAll(order, names)) = ToSet(order) \union ToSet(names)
<1> DEFINE m == Len(names)
           Eq(f) == f = [k \in 0..m |-> IF k = 0 THEN order
                                        ELSE Listed(f[k - 1], names[k])]
           after == CHOOSE f : Eq(f)
           S == {o \in Seq(Name) : IsInjective(o)}
           step == [k \in 1..m |-> [o \in S |-> Listed(o, names[k])]]
           Upto(k) == {names[i] : i \in 1..k}
           G == {k \in 0..m : /\ after[k] \in S
                              /\ ToSet(after[k]) = ToSet(order) \union Upto(k)}
<1>1. m \in Nat /\ DOMAIN names = 1..m /\ \A k \in 1..m : names[k] \in Name
  OBVIOUS
<1>2. ListedAll(order, names) = after[m]
  BY DEF ListedAll
<1>3. \A o \in S, n \in Name :
        Listed(o, n) \in S /\ ToSet(Listed(o, n)) = ToSet(o) \union {n}
  BY ListedKeeps
<1>4. Eq(after)
  <2>1. step \in [1..m -> [S -> S]]
    <3> HIDE DEF S
    <3> QED
      BY <1>1, <1>3
  <2>2. PICK f : Steps(f, m, S, order, step)
    <3>1. order \in S
      OBVIOUS
    <3> HIDE DEF m, step, S
    <3>2. m \in Nat
      BY <1>1
    <3> QED
      BY <2>1, <3>1, <3>2, RecursionExists
  <2>3. /\ f \in [0..m -> S]
        /\ \A k \in 0..m : f[k] = IF k = 0 THEN order ELSE step[k][f[k - 1]]
    <3> HIDE DEF m, step, S
    <3> QED
      BY <1>1, <2>2 DEF Steps
  <2>4. \A k \in 1..m : step[k][f[k - 1]] = Listed(f[k - 1], names[k])
    <3> HIDE DEF S, m
    <3>1. \A k \in 1..m : k - 1 \in 0..m /\ f[k - 1] \in S
      <4>1. \A k \in 1..m : k - 1 \in 0..m
        BY <1>1
      <4> HIDE DEF step
      <4> QED
        BY <2>3, <4>1
    <3> QED
      BY <3>1
  <2>5. Eq(f)
    <3> HIDE DEF S, step, m
    <3>1. f = [k \in 0..m |-> f[k]]
      BY <2>3
    <3>2. \A k \in 0..m : k = 0 \/ k \in 1..m
      BY <1>1
    <3> QED
      BY <2>3, <2>4, <3>1, <3>2
  <2> HIDE DEF Eq
  <2> QED
    BY <2>5
<1> HIDE DEF after, m, S
<1>5. \A k \in 0..m :
        after[k] = IF k = 0 THEN order ELSE Listed(after[k - 1], names[k])
  BY <1>4
<1>6. 0 \in G
  <2>1. after[0] = order /\ order \in S /\ Upto(0) = {}
    BY <1>1, <1>5 DEF S
  <2> QED
    BY <1>1, <2>1
<1>7. ASSUME NEW k \in 1..m, k - 1 \in G PROVE k \in G
  <2>1. after[k - 1] \in S /\ names[k] \in Name /\ k \in 0..m
    BY <1>1, <1>7
  <2>2. after[k] = Listed(after[k - 1], names[k])
    BY <1>5, <2>1
  <2>3. Upto(k) = Upto(k - 1) \union {names[k]}
    BY <1>1
  <2> HIDE DEF Upto
  <2> QED
    BY <1>3, <1>7, <2>1, <2>2, <2>3
<1>8. m \in G
  <2> HIDE DEF G
  <2>1. \A k \in 0..m : k \in G
    BY <1>1, <1>6, <1>7, IntervalInduction
  <2> QED
    BY <1>1, <2>1
<1>9. ToSet(names) = Upto(m)
  BY <1>1 DEF ToSet
<1> QED
  BY <1>2, <1>8, <1>9 DEF S

\* std::remove takes every occurrence of a name out and keeps the others in
\* their order: by induction over the positions.
LEMMA WithoutKeeps ==
  ASSUME NEW order \in Seq(Name), IsInjective(order), NEW n \in Name
  PROVE  /\ Without(order, n) \in Seq(Name)
         /\ IsInjective(Without(order, n))
         /\ ToSet(Without(order, n)) = ToSet(order) \ {n}
<1> DEFINE m == Len(order)
           none == <<>>
           Kept(o, x) == IF x = n THEN o ELSE Append(o, x)
           Eq(f) == f = [k \in 0..m |-> IF k = 0 THEN none
                                        ELSE Kept(f[k - 1], order[k])]
           kept == CHOOSE f : Eq(f)
           S == Seq(Name)
           step == [k \in 1..m |-> [o \in S |-> Kept(o, order[k])]]
           Upto(k) == {order[i] : i \in 1..k}
           G == {k \in 0..m : /\ kept[k] \in S /\ IsInjective(kept[k])
                              /\ ToSet(kept[k]) = Upto(k) \ {n}}
<1>1. m \in Nat /\ DOMAIN order = 1..m /\ \A k \in 1..m : order[k] \in Name
  OBVIOUS
<1>2. Without(order, n) = kept[m]
  BY DEF Without
<1>3. Eq(kept)
  <2>1. step \in [1..m -> [S -> S]]
    <3>1. \A x \in Name : \A o \in S : Kept(o, x) \in S
      OBVIOUS
    <3> HIDE DEF S, Kept, m
    <3> QED
      BY <1>1, <3>1
  <2>2. PICK f : Steps(f, m, S, none, step)
    <3>1. none \in S
      OBVIOUS
    <3> HIDE DEF none, m, step, S
    <3>2. m \in Nat
      BY <1>1
    <3> QED
      BY <2>1, <3>1, <3>2, RecursionExists
  <2>3. /\ f \in [0..m -> S]
        /\ \A k \in 0..m : f[k] = IF k = 0 THEN none ELSE step[k][f[k - 1]]
    <3> HIDE DEF none, m, step, S
    <3> QED
      BY <1>1, <2>2 DEF Steps
  <2>4. \A k \in 1..m :
          step[k][f[k - 1]] = Kept(f[k - 1], order[k])
    <3> HIDE DEF none, S, m, Kept
    <3>1. \A k \in 1..m : k - 1 \in 0..m /\ f[k - 1] \in S
      <4>1. \A k \in 1..m : k - 1 \in 0..m
        BY <1>1
      <4> HIDE DEF step
      <4> QED
        BY <2>3, <4>1
    <3> QED
      BY <3>1
  <2>5. Eq(f)
    <3> HIDE DEF none, S, step, m, Kept
    <3>1. f = [k \in 0..m |-> f[k]]
      BY <2>3
    <3>2. \A k \in 0..m : k = 0 \/ k \in 1..m
      BY <1>1
    <3> QED
      BY <2>3, <2>4, <3>1, <3>2
  <2> HIDE DEF Eq
  <2> QED
    BY <2>5
<1> HIDE DEF kept, m, Kept
<1>4. \A k \in 0..m :
        kept[k] = IF k = 0 THEN <<>> ELSE Kept(kept[k - 1], order[k])
  BY <1>3
<1>5. 0 \in G
  <2>1. kept[0] = <<>> /\ Upto(0) = {}
    BY <1>1, <1>4
  <2>2. <<>> \in S /\ IsInjective(<<>>) /\ ToSet(<<>>) = {}
    <3>1. <<>> \in S /\ DOMAIN <<>> = {}
      OBVIOUS
    <3> QED
      BY <3>1, Zenon DEF IsInjective, ToSet
  <2> HIDE DEF S, Upto
  <2> QED
    BY <1>1, <2>1, <2>2
<1>6. ASSUME NEW k \in 1..m, k - 1 \in G PROVE k \in G
  <2>1. /\ kept[k - 1] \in S /\ IsInjective(kept[k - 1])
        /\ ToSet(kept[k - 1]) = Upto(k - 1) \ {n}
        /\ order[k] \in Name /\ k \in 0..m
    BY <1>1, <1>6
  <2>2. Upto(k) = Upto(k - 1) \union {order[k]}
    BY <1>1
  <2>3. order[k] \notin Upto(k - 1)
    BY <1>1 DEF IsInjective
  <2> HIDE DEF Upto
  <2>4. CASE order[k] = n
    <3>1. kept[k] = kept[k - 1]
      <4>1. kept[k] = Kept(kept[k - 1], order[k])
        BY <1>1, <1>4, <2>1
      <4> QED
        BY <2>4, <4>1 DEF Kept
    <3> QED
      BY <2>1, <2>2, <2>4, <3>1
  <2>5. CASE order[k] # n
    <3>1. kept[k] = Append(kept[k - 1], order[k])
      <4>1. kept[k] = Kept(kept[k - 1], order[k])
        BY <1>1, <1>4, <2>1
      <4> QED
        BY <2>5, <4>1 DEF Kept
    <3>2. order[k] \notin ToSet(kept[k - 1])
      BY <2>1, <2>3
    <3>3. /\ kept[k] \in S /\ IsInjective(kept[k])
          /\ ToSet(kept[k]) = ToSet(kept[k - 1]) \union {order[k]}
      BY <2>1, <3>1, <3>2, AppendNew
    <3> QED
      BY <2>1, <2>2, <2>5, <3>3
  <2> QED
    BY <2>4, <2>5
<1>7. m \in G
  <2> HIDE DEF G
  <2>1. \A k \in 0..m : k \in G
    BY <1>1, <1>5, <1>6, IntervalInduction
  <2> QED
    BY <1>1, <2>1
<1>8. ToSet(order) = Upto(m)
  BY <1>1 DEF ToSet
<1> QED
  BY <1>2, <1>7, <1>8

-----------------------------------------------------------------------------
(* The registry and the skills *)

\* The parts of TypeOK: the registry, the skills, and what the platform and the
\* requests have.
RegistryOK ==
  /\ DOMAIN tools \subseteq Name /\ tools \in [DOMAIN tools -> Tool]
  /\ tool_order_ \in Seq(Name) /\ IsInjective(tool_order_)
  /\ DOMAIN tools \subseteq ToSet(tool_order_)
  /\ ToSet(tool_order_) \subseteq DOMAIN tools \union datamap
  /\ datamap \subseteq DataMap

\* An entry of SkillManager::loaded_skills_.
Entry == [name : Skill, instance : Instance]

\* The manager's objects are distinct, and are those that are owned.
ManagerOK ==
  /\ manager_skills \in Seq(Entry)
  /\ \A i, j \in DOMAIN manager_skills :
       manager_skills[i].instance = manager_skills[j].instance => i = j
  /\ life \in [Instance -> {"free", "owned", "add_skill", "unloaded"}]
  /\ \A x \in Instance :
       life[x] = "owned" <=>
         \E i \in DOMAIN manager_skills : manager_skills[i].instance = x

\* A document has a token or none on each of its hooks.
DocumentOK(d) ==
  /\ DOMAIN d.tokens \subseteq Name
  /\ \A n \in DOMAIN d.tokens : d.tokens[n] \in Tokens

\* What rendering, the clock and the requests change.
ServingOK ==
  /\ dynamic \in BOOLEAN
  /\ now \in 0 .. MaxTime
  /\ \A c \in Call : DocumentOK(documents[c])
  /\ runs = [q \in Request |-> runs[q]]
  /\ \A q \in Request : runs[q] = NoRun \/ runs[q].name \in Name

\* An object that owns what it captured is in the manager, under the skill that
\* defined the tool.
ToolsOfSkills ==
  \A n \in DOMAIN tools : tools[n].self # NoInstance =>
    /\ life[tools[n].self] # "free"
    /\ life[tools[n].self] = "owned" =>
         \E i \in DOMAIN manager_skills :
           /\ manager_skills[i].instance = tools[n].self
           /\ SkillTool[manager_skills[i].name] = n

\* The manager holds a skill once, unless it supports multiple instances.
OneEntry ==
  \A i, j \in DOMAIN manager_skills :
    /\ manager_skills[i].name = manager_skills[j].name
    /\ manager_skills[i].name \notin Multi
    => i = j

\* The inductive invariant.
AgentInv ==
  /\ RegistryOK /\ agent_skills \subseteq Skill /\ ManagerOK /\ ServingOK
  /\ ToolsOfSkills /\ OneEntry /\ LoadedSkillServes

\* The positions of the manager's sequence.
LEMMA EntriesAre ==
  ASSUME manager_skills \in Seq(Entry)
  PROVE  /\ DOMAIN manager_skills = 1..Len(manager_skills)
         /\ Len(manager_skills) \in Nat
         /\ \A i \in DOMAIN manager_skills :
              /\ manager_skills[i] \in Entry
              /\ manager_skills[i].name \in Skill
              /\ manager_skills[i].instance \in Instance
<1>1. /\ DOMAIN manager_skills = 1..Len(manager_skills)
      /\ Len(manager_skills) \in Nat
      /\ \A i \in DOMAIN manager_skills : manager_skills[i] \in Entry
  OBVIOUS
<1> QED
  BY <1>1 DEF Entry

\* The manager's entries and the objects it owns, said of the positions.
LEMMA ManagerOwns ==
  ASSUME manager_skills \in Seq(Entry)
  PROVE  ({e.instance : e \in ToSet(manager_skills)}
            = {i \in Instance : life[i] = "owned"})
         <=> \A x \in Instance :
               life[x] = "owned" <=>
                 \E i \in DOMAIN manager_skills :
                   manager_skills[i].instance = x
<1>1. \A i \in DOMAIN manager_skills : manager_skills[i].instance \in Instance
  BY EntriesAre
<1>2. {e.instance : e \in ToSet(manager_skills)}
        = {manager_skills[i].instance : i \in DOMAIN manager_skills}
  BY DEF ToSet
<1> QED
  BY <1>1, <1>2

\* The parts give the whole.
LEMMA InvHasTypes == AgentInv => TypeOK
<1> SUFFICES ASSUME AgentInv PROVE TypeOK
  OBVIOUS
<1>1. manager_skills \in Seq([name : Skill, instance : Instance])
  BY DEF AgentInv, ManagerOK, Entry
<1>2. {e.instance : e \in ToSet(manager_skills)}
        = {i \in Instance : life[i] = "owned"}
  BY ManagerOwns DEF AgentInv, ManagerOK
<1> QED
  BY <1>1, <1>2
  DEF AgentInv, TypeOK, RegistryOK, ManagerOK, ServingOK, DocumentOK

-----------------------------------------------------------------------------
\* Names of DataMap functions are names of tools.
LEMMA SkillsAndTools ==
  /\ \A s \in Skill : SkillTool[s] \in Name /\ SkillMaps[s] \in Seq(DataMap)
  /\ \A s \in Skill : SkillMaps[s] \in Seq(Name)
  /\ DataMap \subseteq Name
<1>1. DataMap \subseteq Name
  BY NamesAssumption DEF NamesAssumption
<1>2. Seq(DataMap) \subseteq Seq(Name)
  BY <1>1
<1> QED
  BY <1>1, <1>2, NamesAssumption DEF NamesAssumption

\* tool_order_ stays in step with the tools: define_tool ...
LEMMA DefineToolKeeps ==
  ASSUME RegistryOK, NEW n \in Name, NEW secure \in BOOLEAN,
         DefineTool(n, secure)
  PROVE  RegistryOK'
<1>1. /\ tool_order_' \in Seq(Name) /\ IsInjective(tool_order_')
      /\ ToSet(tool_order_') = ToSet(tool_order_) \union {n}
  BY ListedKeeps DEF DefineTool, RegistryOK
<1>2. /\ DOMAIN tools' = DOMAIN tools \union {n}
      /\ tools' \in [DOMAIN tools' -> Tool]
  BY DEF DefineTool, Define, RegistryOK, Tool
<1> QED
  BY <1>1, <1>2 DEF RegistryOK, DefineTool

\* ... register_swaig_function ...
LEMMA RegisterKeeps ==
  ASSUME RegistryOK, NEW n \in Name, RegisterSwaigFunction(n)
  PROVE  RegistryOK'
<1>1. /\ tool_order_' \in Seq(Name) /\ IsInjective(tool_order_')
      /\ ToSet(tool_order_') = ToSet(tool_order_) \union {n}
  BY ListedKeeps DEF RegisterSwaigFunction, RegistryOK
<1> QED
  BY <1>1 DEF RegistryOK, RegisterSwaigFunction

\* ... and remove_function.
LEMMA RemoveFunctionKeeps ==
  ASSUME RegistryOK, NEW n \in Name, RemoveFunction(n)
  PROVE  RegistryOK'
<1>1. /\ tool_order_' \in Seq(Name) /\ IsInjective(tool_order_')
      /\ ToSet(tool_order_') = ToSet(tool_order_) \ {n}
  BY WithoutKeeps DEF RemoveFunction, RegistryOK
<1>2. /\ DOMAIN tools' = DOMAIN tools \ {n}
      /\ tools' \in [DOMAIN tools' -> Tool]
  BY DEF RemoveFunction, RegistryOK
<1> QED
  BY <1>1, <1>2 DEF RegistryOK, RemoveFunction

\* A skill defines one tool and registers any number of DataMap functions.
LEMMA InstallKeeps ==
  ASSUME RegistryOK, NEW s \in Skill, NEW i \in Instance, Install(s, i)
  PROVE  /\ RegistryOK'
         /\ DOMAIN tools' = DOMAIN tools \union {SkillTool[s]}
         /\ tools'[SkillTool[s]].self = SelfOf(s, i)
         /\ \A n \in DOMAIN tools \ {SkillTool[s]} : tools'[n] = tools[n]
<1> DEFINE names == <<SkillTool[s]>> \o SkillMaps[s]
<1>1. SkillTool[s] \in Name /\ SkillMaps[s] \in Seq(DataMap)
      /\ SkillMaps[s] \in Seq(Name) /\ DataMap \subseteq Name
  BY SkillsAndTools
<1>2. /\ names \in Seq(Name)
      /\ ToSet(names) = {SkillTool[s]} \union ToSet(SkillMaps[s])
  <2>1. /\ <<SkillTool[s]>> \in Seq(Name) /\ Len(<<SkillTool[s]>>) = 1
        /\ <<SkillTool[s]>>[1] = SkillTool[s]
    BY <1>1
  <2>2. /\ names \in Seq(Name) /\ Len(names) = 1 + Len(SkillMaps[s])
        /\ DOMAIN names = 1..Len(names)
        /\ DOMAIN SkillMaps[s] = 1..Len(SkillMaps[s])
        /\ Len(SkillMaps[s]) \in Nat
    BY <1>1, <2>1
  <2>3. /\ names[1] = SkillTool[s]
        /\ \A k \in 1..Len(SkillMaps[s]) : names[k + 1] = SkillMaps[s][k]
    BY <1>1, <2>1
  <2> HIDE DEF names
  <2>4. ASSUME NEW x \in ToSet(names)
        PROVE  x \in {SkillTool[s]} \union ToSet(SkillMaps[s])
    <3>1. PICK k \in DOMAIN names : x = names[k]
      BY DEF ToSet
    <3>2. CASE k = 1
      BY <2>3, <3>1, <3>2
    <3>3. CASE k # 1
      <4>1. k - 1 \in DOMAIN SkillMaps[s] /\ (k - 1) + 1 = k
        BY <2>2, <3>1, <3>3
      <4> QED
        BY <2>2, <2>3, <3>1, <4>1 DEF ToSet
    <3> QED
      BY <3>2, <3>3
  <2>5. ASSUME NEW x \in {SkillTool[s]} \union ToSet(SkillMaps[s])
        PROVE  x \in ToSet(names)
    <3>1. CASE x = SkillTool[s]
      BY <2>2, <2>3, <3>1 DEF ToSet
    <3>2. CASE x \in ToSet(SkillMaps[s])
      <4>1. PICK k \in DOMAIN SkillMaps[s] : x = SkillMaps[s][k]
        BY <3>2 DEF ToSet
      <4>2. k + 1 \in DOMAIN names /\ names[k + 1] = x
        BY <2>2, <2>3, <4>1
      <4> QED
        BY <4>2 DEF ToSet
    <3> QED
      BY <3>1, <3>2
  <2> QED
    BY <2>2, <2>4, <2>5
<1>3. /\ tool_order_' \in Seq(Name) /\ IsInjective(tool_order_')
      /\ ToSet(tool_order_') = ToSet(tool_order_) \union ToSet(names)
  <2> HIDE DEF names
  <2>1. tool_order_' = ListedAll(tool_order_, names)
    BY DEF Install, names
  <2> QED
    BY <1>2, <2>1, ListedAllKeeps DEF RegistryOK
<1>4. /\ datamap' = datamap \union ToSet(SkillMaps[s])
      /\ ToSet(SkillMaps[s]) \subseteq DataMap
  BY <1>1 DEF Install, ToSet
<1>5. /\ DOMAIN tools' = DOMAIN tools \union {SkillTool[s]}
      /\ tools' \in [DOMAIN tools' -> Tool]
      /\ tools'[SkillTool[s]].self = SelfOf(s, i)
      /\ \A n \in DOMAIN tools \ {SkillTool[s]} : tools'[n] = tools[n]
  BY DEF Install, Define, RegistryOK, Tool, SelfOf
<1> HIDE DEF names
<1> QED
  BY <1>1, <1>2, <1>3, <1>4, <1>5 DEF RegistryOK
-----------------------------------------------------------------------------
\* SelectInSeq finds the first entry of a skill that is loaded.
LEMMA FirstEntry ==
  ASSUME manager_skills \in Seq(Entry), NEW s, IsLoaded(s)
  PROVE  LET at == SelectInSeq(manager_skills, LAMBDA e : e.name = s)
         IN  at \in DOMAIN manager_skills /\ manager_skills[at].name = s
<1> DEFINE I == {i \in 1..Len(manager_skills) : manager_skills[i].name = s}
<1>1. I \in SUBSET Nat /\ I # {}
  BY EntriesAre DEF IsLoaded, ToSet
<1>2. PICK x \in I : \A y \in I : x <= y
  <2> HIDE DEF I
  <2> QED
    BY <1>1, NatLeast
<1>3. Min(I) \in I
  <2> HIDE DEF I
  <2> QED
    BY <1>2 DEF Min
<1>4. SelectInSeq(manager_skills, LAMBDA e : e.name = s) = Min(I)
  <2>1. SelectInSeq(manager_skills, LAMBDA e : e.name = s)
          = IF I # {} THEN Min(I) ELSE 0
    BY DEF SelectInSeq
  <2> HIDE DEF I
  <2> QED
    BY <1>1, <2>1
<1> QED
  BY <1>3, <1>4, EntriesAre

\* erase leaves the other entries, each once.
LEMMA RemoveAtKeeps ==
  ASSUME NEW S, NEW q \in Seq(S), NEW at \in DOMAIN q
  PROVE  LET new == RemoveAt(q, at)
         IN  /\ new \in Seq(S)
             /\ \A i \in DOMAIN new :
                  \/ i < at /\ i \in DOMAIN q /\ new[i] = q[i]
                  \/ i >= at /\ i + 1 \in DOMAIN q /\ new[i] = q[i + 1]
             /\ \A j \in DOMAIN q :
                  \/ j < at /\ j \in DOMAIN new /\ new[j] = q[j]
                  \/ j = at
                  \/ j > at /\ j - 1 \in DOMAIN new /\ new[j - 1] = q[j]
<1> DEFINE front == SubSeq(q, 1, at - 1)
           back == SubSeq(q, at + 1, Len(q))
           new == front \o back
<1>1. /\ Len(q) \in Nat /\ DOMAIN q = 1..Len(q) /\ at \in 1..Len(q)
      /\ \A i \in 1..Len(q) : q[i] \in S
  OBVIOUS
<1>2. /\ front \in Seq(S) /\ Len(front) = at - 1
      /\ \A i \in 1..at - 1 : front[i] = q[i]
  <2>1. /\ 1 \in Int /\ at - 1 \in Int /\ \A i \in 1..at - 1 : q[i] \in S
        /\ (at - 1) - 1 + 1 = at - 1 /\ \A i \in 1..at - 1 : 1 + i - 1 = i
        /\ at - 1 >= 0 /\ (1 > at - 1 => at - 1 = 0)
    BY <1>1
  <2> QED
    BY <2>1, SubSeqProperties
<1>3. /\ back \in Seq(S) /\ Len(back) = Len(q) - at
      /\ \A i \in 1..Len(q) - at : back[i] = q[at + i]
  <2>1. /\ at + 1 \in Int /\ Len(q) \in Int
        /\ \A i \in at + 1..Len(q) : q[i] \in S
        /\ Len(q) - (at + 1) + 1 = Len(q) - at
        /\ \A i \in 1..Len(q) - at : (at + 1) + i - 1 = at + i
        /\ at + 1 > Len(q) => Len(q) - at = 0
    BY <1>1
  <2> QED
    BY <2>1, SubSeqProperties
<1> HIDE DEF front, back
<1>4. /\ new \in Seq(S) /\ DOMAIN new = 1..Len(q) - 1
      /\ \A i \in 1..at - 1 : new[i] = q[i]
      /\ \A i \in at..Len(q) - 1 : new[i] = q[i + 1]
  <2>1. /\ new \in Seq(S) /\ Len(new) = (at - 1) + (Len(q) - at)
        /\ \A i \in 1..(at - 1) + (Len(q) - at) :
             new[i] = IF i <= at - 1 THEN front[i] ELSE back[i - (at - 1)]
    <3>1. front \in Seq(S) /\ back \in Seq(S)
      BY <1>2, <1>3
    <3>2. /\ new \in Seq(S) /\ Len(new) = Len(front) + Len(back)
          /\ \A i \in 1..Len(front) + Len(back) :
               new[i] = IF i <= Len(front) THEN front[i]
                        ELSE back[i - Len(front)]
      BY <3>1, ConcatProperties
    <3> HIDE DEF new
    <3> QED
      BY <1>2, <1>3, <3>2
  <2> HIDE DEF new
  <2>2. (at - 1) + (Len(q) - at) = Len(q) - 1
    BY <1>1
  <2>3. DOMAIN new = 1..Len(q) - 1
    BY <2>1, <2>2
  <2>4. ASSUME NEW i \in 1..at - 1 PROVE new[i] = q[i]
    <3>1. i \in 1..(at - 1) + (Len(q) - at) /\ i <= at - 1
      BY <1>1
    <3> QED
      BY <1>2, <2>1, <3>1
  <2>5. ASSUME NEW i \in at..Len(q) - 1 PROVE new[i] = q[i + 1]
    <3>1. /\ i \in 1..(at - 1) + (Len(q) - at) /\ ~(i <= at - 1)
          /\ i - (at - 1) \in 1..Len(q) - at /\ at + (i - (at - 1)) = i + 1
      BY <1>1
    <3> QED
      BY <1>3, <2>1, <3>1
  <2> QED
    BY <2>1, <2>3, <2>4, <2>5
<1>5. RemoveAt(q, at) = new
  BY DEF RemoveAt, front, back
<1> HIDE DEF new
<1>6. ASSUME NEW i \in DOMAIN new
      PROVE  \/ i < at /\ i \in DOMAIN q /\ new[i] = q[i]
             \/ i >= at /\ i + 1 \in DOMAIN q /\ new[i] = q[i + 1]
  <2>1. \/ i \in 1..at - 1 /\ i < at /\ i \in DOMAIN q
        \/ i \in at..Len(q) - 1 /\ i >= at /\ i + 1 \in DOMAIN q
    BY <1>1, <1>4
  <2> QED
    BY <1>4, <2>1
<1>7. ASSUME NEW j \in DOMAIN q
      PROVE  \/ j < at /\ j \in DOMAIN new /\ new[j] = q[j]
             \/ j = at
             \/ j > at /\ j - 1 \in DOMAIN new /\ new[j - 1] = q[j]
  <2>1. \/ j \in 1..at - 1 /\ j < at /\ j \in DOMAIN new
        \/ j = at
        \/ /\ j - 1 \in at..Len(q) - 1 /\ j > at
           /\ j - 1 \in DOMAIN new /\ (j - 1) + 1 = j
    BY <1>1, <1>4
  <2> QED
    BY <1>4, <2>1
<1> QED
  BY <1>4, <1>5, <1>6, <1>7

-----------------------------------------------------------------------------
\* A step that leaves the skills alone, and every tool that stays its object.
LEMMA SkillsStay ==
  ASSUME ManagerOK, ToolsOfSkills, OneEntry, LoadedSkillServes,
         UNCHANGED <<manager_skills, life>>,
         \A n \in DOMAIN tools' :
           \/ tools'[n].self = NoInstance
           \/ n \in DOMAIN tools /\ tools'[n] = tools[n]
  PROVE  ManagerOK' /\ ToolsOfSkills' /\ OneEntry' /\ LoadedSkillServes'
<1>1. ManagerOK' /\ OneEntry'
  BY DEF ManagerOK, OneEntry
<1>2. ToolsOfSkills'
  BY DEF ToolsOfSkills
<1>3. LoadedSkillServes'
  BY DEF LoadedSkillServes, IsLoaded
<1> QED
  BY <1>1, <1>2, <1>3

\* The object add_skill installs is its own: it was free.
LEMMA AddSkillKeeps ==
  ASSUME RegistryOK, ManagerOK, ToolsOfSkills, OneEntry, LoadedSkillServes,
         NEW s \in Skill, NEW x \in Instance, Free(x), Install(s, x),
         life' = [life EXCEPT ![x] = "add_skill"], UNCHANGED manager_skills
  PROVE  ManagerOK' /\ ToolsOfSkills' /\ OneEntry' /\ LoadedSkillServes'
<1>1. /\ DOMAIN tools' = DOMAIN tools \union {SkillTool[s]}
      /\ tools'[SkillTool[s]].self \in {x, NoInstance}
      /\ \A n \in DOMAIN tools \ {SkillTool[s]} : tools'[n] = tools[n]
  BY InstallKeeps DEF SelfOf
<1>2. \A n \in DOMAIN tools : tools[n].self # x
  BY DEF Free
<1>3. /\ life[x] # "owned" /\ life'[x] = "add_skill"
      /\ \A y : y # x => life'[y] = life[y]
      /\ life' \in [Instance -> {"free", "owned", "add_skill", "unloaded"}]
  BY DEF ManagerOK, Free
<1>4. ManagerOK' /\ OneEntry'
  BY <1>3 DEF ManagerOK, OneEntry
<1>5. ToolsOfSkills'
  BY <1>1, <1>2, <1>3 DEF ToolsOfSkills
<1>6. LoadedSkillServes'
  BY <1>1, <1>2, <1>3 DEF LoadedSkillServes, IsLoaded
<1> QED
  BY <1>4, <1>5, <1>6

\* load_skill adds an entry for an object that was free.
LEMMA LoadSkillKeeps ==
  ASSUME RegistryOK, ManagerOK, ToolsOfSkills, OneEntry, LoadedSkillServes,
         NEW s \in Skill, s \in Multi \/ ~IsLoaded(s),
         NEW x \in Instance, Free(x), Install(s, x),
         life' = [life EXCEPT ![x] = "owned"],
         manager_skills' = Append(manager_skills, [name |-> s, instance |-> x])
  PROVE  ManagerOK' /\ ToolsOfSkills' /\ OneEntry' /\ LoadedSkillServes'
<1> DEFINE m == Len(manager_skills)
           e == [name |-> s, instance |-> x]
<1>1. /\ DOMAIN tools' = DOMAIN tools \union {SkillTool[s]}
      /\ tools'[SkillTool[s]].self \in {x, NoInstance}
      /\ \A n \in DOMAIN tools \ {SkillTool[s]} : tools'[n] = tools[n]
  BY InstallKeeps DEF SelfOf
<1>2. \A n \in DOMAIN tools : tools[n].self # x
  BY DEF Free
<1>3. /\ life[x] # "owned" /\ life'[x] = "owned"
      /\ \A y : y # x => life'[y] = life[y]
      /\ life' \in [Instance -> {"free", "owned", "add_skill", "unloaded"}]
  BY DEF ManagerOK, Free
<1>4. /\ m \in Nat /\ DOMAIN manager_skills = 1..m
      /\ \A i \in 1..m : /\ manager_skills[i].instance \in Instance
                         /\ manager_skills[i].instance # x
                         /\ manager_skills[i].name = s => s \in Multi
  <2>1. /\ m \in Nat /\ DOMAIN manager_skills = 1..m
        /\ \A i \in 1..m : manager_skills[i].instance \in Instance
    BY EntriesAre DEF ManagerOK
  <2> QED
    BY <1>3, <2>1 DEF ManagerOK, IsLoaded, ToSet
<1>5. /\ manager_skills' \in Seq(Entry) /\ DOMAIN manager_skills' = 1..m + 1
      /\ \A i \in 1..m : manager_skills'[i] = manager_skills[i]
      /\ manager_skills'[m + 1].name = s /\ manager_skills'[m + 1].instance = x
  <2>1. e \in Entry /\ e.name = s /\ e.instance = x
    BY DEF Entry
  <2>2. /\ manager_skills \in Seq(Entry)
        /\ manager_skills' = Append(manager_skills, e)
    BY DEF ManagerOK
  <2> HIDE DEF e
  <2> QED
    BY <2>1, <2>2
<1> HIDE DEF m, e
<1>6. ManagerOK'
  <2>1. ASSUME NEW i \in 1..m + 1, NEW j \in 1..m + 1,
               manager_skills'[i].instance = manager_skills'[j].instance
        PROVE  i = j
    BY <1>4, <1>5, <2>1 DEF ManagerOK
  <2>2. ASSUME NEW y \in Instance
        PROVE  life'[y] = "owned" <=>
                 \E i \in 1..m + 1 : manager_skills'[i].instance = y
    <3>1. CASE y = x
      BY <1>3, <1>4, <1>5, <3>1
    <3>2. CASE y # x
      BY <1>3, <1>4, <1>5, <3>2 DEF ManagerOK
    <3> QED
      BY <3>1, <3>2
  <2> QED
    BY <1>3, <1>5, <2>1, <2>2 DEF ManagerOK
<1>7. OneEntry'
  BY <1>4, <1>5 DEF OneEntry
<1>8. ToolsOfSkills'
  <2> SUFFICES ASSUME NEW n \in DOMAIN tools', tools'[n].self # NoInstance
               PROVE  /\ life'[tools'[n].self] # "free"
                      /\ life'[tools'[n].self] = "owned" =>
                           \E i \in 1..m + 1 :
                             /\ manager_skills'[i].instance = tools'[n].self
                             /\ SkillTool[manager_skills'[i].name] = n
    BY <1>5 DEF ToolsOfSkills
  <2>1. CASE n = SkillTool[s]
    <3>1. tools'[n].self = x
      BY <1>1, <2>1
    <3>2. m + 1 \in 1..m + 1
      BY <1>4
    <3> QED
      BY <1>3, <1>5, <2>1, <3>1, <3>2
  <2>2. CASE n # SkillTool[s]
    <3>1. n \in DOMAIN tools /\ tools'[n] = tools[n] /\ tools[n].self # x
      BY <1>1, <1>2, <2>2
    <3>2. /\ life[tools[n].self] # "free"
          /\ life[tools[n].self] = "owned" =>
               \E i \in 1..m : /\ manager_skills[i].instance = tools[n].self
                               /\ SkillTool[manager_skills[i].name] = n
      BY <1>4, <3>1 DEF ToolsOfSkills
    <3>3. life'[tools'[n].self] = life[tools[n].self]
      BY <1>3, <3>1
    <3>4. CASE life[tools[n].self] = "owned"
      <4>1. PICK i \in 1..m : /\ manager_skills[i].instance = tools[n].self
                              /\ SkillTool[manager_skills[i].name] = n
        BY <3>2, <3>4
      <4>2. i \in 1..m + 1 /\ manager_skills'[i] = manager_skills[i]
        BY <1>4, <1>5
      <4> QED
        BY <3>1, <3>2, <3>3, <4>1, <4>2
    <3> QED
      BY <3>2, <3>3, <3>4
  <2> QED
    BY <2>1, <2>2
<1>9. LoadedSkillServes'
  <2> SUFFICES ASSUME NEW t \in Skill \ Multi, IsLoaded(t)',
                      SkillTool[t] \in DOMAIN tools',
                      \A r \in Skill \ {t} : SkillTool[r] # SkillTool[t],
                      tools'[SkillTool[t]].self # NoInstance
               PROVE  life'[tools'[SkillTool[t]].self]
                        \in {"owned", "add_skill"}
    BY DEF LoadedSkillServes
  <2>1. CASE SkillTool[t] = SkillTool[s]
    BY <1>1, <1>3, <2>1
  <2>2. CASE SkillTool[t] # SkillTool[s]
    <3>1. IsLoaded(t)
      BY <1>4, <1>5, <2>2 DEF IsLoaded, ToSet
    <3>2. /\ SkillTool[t] \in DOMAIN tools
          /\ tools'[SkillTool[t]] = tools[SkillTool[t]]
          /\ tools[SkillTool[t]].self # x
      BY <1>1, <1>2, <2>2
    <3> QED
      BY <1>3, <3>1, <3>2 DEF LoadedSkillServes
  <2> QED
    BY <2>1, <2>2
<1> QED
  BY <1>6, <1>7, <1>8, <1>9
\* unload_skill: the object that is unloaded served the tool of that skill
\* alone.
LEMMA UnloadSkillKeeps ==
  ASSUME ManagerOK, ToolsOfSkills, OneEntry, LoadedSkillServes,
         NEW s \in Skill, UnloadSkill(s)
  PROVE  ManagerOK' /\ ToolsOfSkills' /\ OneEntry' /\ LoadedSkillServes'
<1> DEFINE at == SelectInSeq(manager_skills, LAMBDA e : e.name = s)
           x == manager_skills[at].instance
           new == RemoveAt(manager_skills, at)
<1>1. /\ manager_skills' = new /\ life' = [life EXCEPT ![x] = "unloaded"]
      /\ tools' = tools
  BY DEF UnloadSkill, registry
<1>2. at \in DOMAIN manager_skills /\ manager_skills[at].name = s
  BY FirstEntry DEF UnloadSkill, ManagerOK
<1> HIDE DEF at
<1>3. /\ DOMAIN manager_skills \subseteq Int
      /\ \A i \in DOMAIN manager_skills :
           /\ manager_skills[i].name \in Skill
           /\ manager_skills[i].instance \in Instance
  BY EntriesAre DEF ManagerOK
<1>4. /\ new \in Seq(Entry) /\ DOMAIN new \subseteq Int
      /\ \A i \in DOMAIN new :
           \/ i < at /\ i \in DOMAIN manager_skills /\ new[i] = manager_skills[i]
           \/ /\ i >= at /\ i + 1 \in DOMAIN manager_skills
              /\ new[i] = manager_skills[i + 1]
      /\ \A j \in DOMAIN manager_skills :
           \/ j < at /\ j \in DOMAIN new /\ new[j] = manager_skills[j]
           \/ j = at
           \/ j > at /\ j - 1 \in DOMAIN new /\ new[j - 1] = manager_skills[j]
  <2>1. manager_skills \in Seq(Entry)
    BY DEF ManagerOK
  <2>2. /\ new \in Seq(Entry)
        /\ \A i \in DOMAIN new :
             \/ i < at /\ i \in DOMAIN manager_skills /\ new[i] = manager_skills[i]
             \/ /\ i >= at /\ i + 1 \in DOMAIN manager_skills
                /\ new[i] = manager_skills[i + 1]
        /\ \A j \in DOMAIN manager_skills :
             \/ j < at /\ j \in DOMAIN new /\ new[j] = manager_skills[j]
             \/ j = at
             \/ j > at /\ j - 1 \in DOMAIN new /\ new[j - 1] = manager_skills[j]
    BY <1>2, <2>1, RemoveAtKeeps
  <2> HIDE DEF new
  <2>3. DOMAIN new \subseteq Int
    BY <2>2
  <2> QED
    BY <2>2, <2>3
<1> HIDE DEF new
<1>5. /\ x \in Instance /\ life[x] = "owned" /\ life'[x] = "unloaded"
      /\ \A y : y # x => life'[y] = life[y]
      /\ life' \in [Instance -> {"free", "owned", "add_skill", "unloaded"}]
  BY <1>1, <1>2, <1>3 DEF ManagerOK
\* Every position of the new sequence is that of another entry than at, and
\* different positions are those of different entries.
<1>6. \A i \in DOMAIN new : \E j \in DOMAIN manager_skills \ {at} :
        new[i] = manager_skills[j]
  BY <1>2, <1>3, <1>4
<1>7. \A j \in DOMAIN manager_skills \ {at} : \E i \in DOMAIN new :
        new[i] = manager_skills[j]
  BY <1>2, <1>3, <1>4
<1>8. ASSUME NEW i \in DOMAIN new, NEW k \in DOMAIN new,
             \A a, b \in DOMAIN manager_skills :
               manager_skills[a] = new[i] /\ manager_skills[b] = new[k]
                 => a = b
      PROVE  i = k
  BY <1>2, <1>3, <1>4, <1>8
<1>9. ManagerOK'
  <2>1. ASSUME NEW i \in DOMAIN new, NEW k \in DOMAIN new,
               new[i].instance = new[k].instance
        PROVE  i = k
    BY <1>8, <2>1 DEF ManagerOK
  <2>2. ASSUME NEW y \in Instance
        PROVE  life'[y] = "owned" <=> \E i \in DOMAIN new : new[i].instance = y
    <3>1. CASE y = x
      <4>1. ASSUME NEW i \in DOMAIN new, new[i].instance = y PROVE FALSE
        BY <1>2, <1>6, <3>1, <4>1 DEF ManagerOK
      <4> QED
        BY <1>5, <3>1, <4>1
    <3>2. CASE y # x
      <4>1. life'[y] = "owned" <=>
              \E j \in DOMAIN manager_skills : manager_skills[j].instance = y
        BY <1>5, <3>2 DEF ManagerOK
      <4> QED
        BY <1>6, <1>7, <3>2, <4>1
    <3> QED
      BY <3>1, <3>2
  <2> QED
    BY <1>1, <1>4, <1>5, <2>1, <2>2 DEF ManagerOK
<1>10. OneEntry'
  <2>1. ASSUME NEW i \in DOMAIN new, NEW k \in DOMAIN new,
               new[i].name = new[k].name, new[i].name \notin Multi
        PROVE  i = k
    BY <1>8, <2>1 DEF OneEntry
  <2> QED
    BY <1>1, <2>1 DEF OneEntry
<1>11. ToolsOfSkills'
  <2> SUFFICES ASSUME NEW n \in DOMAIN tools, tools[n].self # NoInstance
               PROVE  /\ life'[tools[n].self] # "free"
                      /\ life'[tools[n].self] = "owned" =>
                           \E i \in DOMAIN new :
                             /\ new[i].instance = tools[n].self
                             /\ SkillTool[new[i].name] = n
    BY <1>1 DEF ToolsOfSkills
  <2>1. CASE tools[n].self = x
    BY <1>5, <2>1
  <2>2. CASE tools[n].self # x
    <3>1. life'[tools[n].self] = life[tools[n].self]
      BY <1>5, <2>2
    <3>2. ASSUME life[tools[n].self] = "owned"
          PROVE  \E i \in DOMAIN new : /\ new[i].instance = tools[n].self
                                       /\ SkillTool[new[i].name] = n
      <4>1. PICK j \in DOMAIN manager_skills :
                   /\ manager_skills[j].instance = tools[n].self
                   /\ SkillTool[manager_skills[j].name] = n
        BY <3>2 DEF ToolsOfSkills
      <4>2. PICK i \in DOMAIN new : new[i] = manager_skills[j]
        BY <1>7, <2>2, <4>1
      <4> QED
        BY <4>1, <4>2
    <3> QED
      BY <3>1, <3>2 DEF ToolsOfSkills
  <2> QED
    BY <2>1, <2>2
<1>12. LoadedSkillServes'
  <2> SUFFICES ASSUME NEW t \in Skill \ Multi, IsLoaded(t)',
                      SkillTool[t] \in DOMAIN tools,
                      \A r \in Skill \ {t} : SkillTool[r] # SkillTool[t],
                      tools[SkillTool[t]].self # NoInstance
               PROVE  life'[tools[SkillTool[t]].self]
                        \in {"owned", "add_skill"}
    BY <1>1 DEF LoadedSkillServes
  <2>1. PICK j \in DOMAIN manager_skills \ {at} : manager_skills[j].name = t
    BY <1>1, <1>6 DEF IsLoaded, ToSet
  <2>2. IsLoaded(t)
    BY <2>1 DEF IsLoaded, ToSet
  <2>3. life[tools[SkillTool[t]].self] \in {"owned", "add_skill"}
    BY <2>2 DEF LoadedSkillServes
  <2>4. ASSUME tools[SkillTool[t]].self = x PROVE FALSE
    <3>1. PICK i \in DOMAIN manager_skills :
                 /\ manager_skills[i].instance = x
                 /\ SkillTool[manager_skills[i].name] = SkillTool[t]
      BY <1>5, <2>4 DEF ToolsOfSkills
    <3>2. i = at /\ manager_skills[i].name = t
      BY <1>2, <1>3, <3>1 DEF ManagerOK
    <3> QED
      BY <1>2, <2>1, <3>2 DEF OneEntry
  <2> QED
    BY <1>5, <2>3, <2>4
<1> QED
  BY <1>9, <1>10, <1>11, <1>12

-----------------------------------------------------------------------------
(* What the platform has *)

\* create_token makes a token, whatever the secret.
LEMMA TokensAre ==
  ASSUME ServingOK, NEW n \in Name, NEW call_id \in Call \union {NoCall},
         NEW secret \in Secrets
  PROVE  CreateToken(n, call_id, secret) \in Tokens
<1> DEFINE fields == <<call_id, n, now + TokenExpiry>>
<1>1. now + TokenExpiry \in Nat
  BY TimeAssumption DEF ServingOK
<1>2. fields \in Fields
  BY <1>1 DEF Fields
<1> HIDE DEF fields
<1>3. [fields |-> fields, signed |-> <<secret, fields>>]
        \in [fields : Fields, signed : Secrets \X Fields]
  BY <1>2
<1> QED
  BY <1>3 DEF CreateToken, Tokens, fields

\* Rendering puts a token or none on the hook of each tool.
LEMMA RenderKeepsTypes ==
  ASSUME ServingOK, Promise, NEW c \in Call, NEW call_id \in {c, NoCall},
         NEW secret \in {"agent", "copy"}, NEW secure,
         DOMAIN secure \subseteq Name, Render(c, call_id, secret, secure)
  PROVE  \A d \in Call : DocumentOK(documents'[d])
<1> DEFINE new == [tokens |-> [n \in DOMAIN secure |->
                      IF secure[n] /\ call_id # NoCall
                        THEN CreateToken(n, call_id, secret) ELSE NoToken],
                   via |-> IF call_id = NoCall THEN "route" ELSE secret,
                   at |-> now,
                   secure |-> {n \in DOMAIN secure : secure[n]}]
<1>1. documents' = [documents EXCEPT ![c] = new]
  BY DEF Render
<1>2. DocumentOK(new)
  <2>1. ASSUME NEW n \in DOMAIN secure PROVE new.tokens[n] \in Tokens
    <3>1. n \in Name /\ secret \in Secrets /\ call_id \in Call \union {NoCall}
      BY DEF Secrets
    <3>2. CreateToken(n, call_id, secret) \in Tokens /\ NoToken \in Tokens
      BY <3>1, TokensAre DEF Tokens
    <3> QED
      BY <3>2
  <2> QED
    BY <2>1 DEF DocumentOK
<1> HIDE DEF new
<1>3. ASSUME NEW d \in Call
      PROVE  documents'[d] = IF d = c THEN new ELSE documents[d]
  BY <1>1 DEF Promise
<1> QED
  BY <1>2, <1>3 DEF ServingOK

\* A restart turns the agent's tokens into tokens of the secret before.
LEMMA OutliveKeepsTypes ==
  ASSUME NEW t \in Tokens PROVE Outlive(t) \in Tokens
<1>1. CASE t # NoToken /\ t.signed[1] = "agent"
  <2>1. t = [fields |-> t.fields, signed |-> t.signed] /\ t.fields \in Fields
    BY <1>1 DEF Tokens
  <2>2. Outlive(t) = [fields |-> t.fields, signed |-> <<"before", t.fields>>]
    BY <1>1, <2>1 DEF Outlive
  <2>3. <<"before", t.fields>> \in Secrets \X Fields
    BY <2>1 DEF Secrets
  <2> QED
    BY <2>1, <2>2, <2>3 DEF Tokens
<1>2. CASE ~(t # NoToken /\ t.signed[1] = "agent")
  BY <1>2 DEF Outlive
<1> QED
  BY <1>1, <1>2

\* A restart begins with nothing registered or loaded.
LEMMA RestartKeeps ==
  ASSUME AgentInv, Restart PROVE AgentInv'
<1>2. ServingOK'
  <2>1. ASSUME NEW c \in Call PROVE DocumentOK(documents'[c])
    <3> DEFINE d == documents[c]
    <3>1. DocumentOK(d)
      BY DEF AgentInv, ServingOK
    <3>2. documents'[c].tokens =
            [n \in DOMAIN d.tokens |-> Outlive(d.tokens[n])]
      BY DEF Restart
    <3> HIDE DEF d
    <3> QED
      BY <3>1, <3>2, OutliveKeepsTypes DEF DocumentOK
  <2> QED
    BY <2>1 DEF Restart, AgentInv, ServingOK
<1>3. /\ tools' = <<>> /\ tool_order_' = <<>> /\ datamap' = {}
      /\ agent_skills' = {} /\ manager_skills' = <<>>
      /\ life' = [i \in Instance |-> "free"]
  BY DEF Restart
<1>4. DOMAIN <<>> = {} /\ <<>> \in Seq(Name) /\ <<>> \in Seq(Entry)
  OBVIOUS
<1>5. RegistryOK'
  BY <1>3, <1>4 DEF RegistryOK, IsInjective, ToSet
<1>6. ManagerOK' /\ OneEntry'
  BY <1>3, <1>4 DEF ManagerOK, OneEntry
<1>7. ToolsOfSkills' /\ LoadedSkillServes'
  BY <1>3, <1>4 DEF ToolsOfSkills, LoadedSkillServes
<1> QED
  BY <1>2, <1>3, <1>5, <1>6, <1>7 DEF AgentInv

-----------------------------------------------------------------------------
\* What the skills keep, if an object is installed or unloaded or neither is.
LEMMA SkillStepKeeps ==
  ASSUME AgentInv, NEW s \in Skill,
         AddSkill(s) \/ RemoveSkill(s) \/ LoadSkill(s) \/ UnloadSkill(s)
  PROVE  AgentInv'
<1> USE DEF AgentInv
<1>1. ServingOK' /\ agent_skills' \subseteq Skill
  BY DEF ServingOK, AddSkill, RemoveSkill, LoadSkill, UnloadSkill
<1>2. ASSUME UNCHANGED <<registry, manager_skills, life>> PROVE AgentInv'
  <2>1. RegistryOK'
    BY <1>2 DEF registry, RegistryOK
  <2>2. ManagerOK' /\ ToolsOfSkills' /\ OneEntry' /\ LoadedSkillServes'
    BY <1>2, SkillsStay DEF registry
  <2> QED
    BY <1>1, <2>1, <2>2
<1>3. CASE RemoveSkill(s)
  BY <1>2, <1>3 DEF RemoveSkill
<1>4. CASE AddSkill(s)
  <2>1. CASE UNCHANGED <<registry, life>>
    BY <1>2, <1>4, <2>1 DEF AddSkill
  <2>2. ASSUME NEW x \in Instance, Free(x), Install(s, x),
               life' = [life EXCEPT ![x] = "add_skill"]
        PROVE  AgentInv'
    BY <1>1, <1>4, <2>2, InstallKeeps, AddSkillKeeps DEF AddSkill
  <2> QED
    BY <1>4, <2>1, <2>2 DEF AddSkill
<1>5. CASE LoadSkill(s)
  BY <1>1, <1>5, InstallKeeps, LoadSkillKeeps DEF LoadSkill
<1>6. CASE UnloadSkill(s)
  <2>1. RegistryOK'
    BY <1>6 DEF UnloadSkill, registry, RegistryOK
  <2> QED
    BY <1>1, <1>6, <2>1, UnloadSkillKeeps
<1> QED
  BY <1>3, <1>4, <1>5, <1>6

\* A tool that is defined uses no skill object, and one that is removed is
\* gone.
LEMMA RegistryStepKeeps ==
  ASSUME AgentInv, NEW n \in Name,
         \/ \E secure \in BOOLEAN : DefineTool(n, secure)
         \/ RegisterSwaigFunction(n) \/ RemoveFunction(n)
  PROVE  AgentInv'
<1> USE DEF AgentInv
<1>1. ServingOK' /\ agent_skills' \subseteq Skill
  BY DEF ServingOK, DefineTool, RegisterSwaigFunction, RemoveFunction, skills
<1>2. RegistryOK'
  BY DefineToolKeeps, RegisterKeeps, RemoveFunctionKeeps
<1>3. /\ UNCHANGED <<manager_skills, life>>
      /\ \A m \in DOMAIN tools' :
           \/ tools'[m].self = NoInstance
           \/ m \in DOMAIN tools /\ tools'[m] = tools[m]
  BY DEF DefineTool, Define, RegisterSwaigFunction, RemoveFunction, skills
<1> QED
  BY <1>1, <1>2, <1>3, SkillsStay

\* Requests, the clock and the callback leave the registry and the skills
\* alone.
LEMMA ServingStepKeeps ==
  ASSUME AgentInv, UNCHANGED <<registry, skills>>, ServingOK' PROVE AgentInv'
<1> USE DEF AgentInv
<1>1. UNCHANGED <<tools, tool_order_, datamap, agent_skills, manager_skills,
                  life>>
  BY DEF registry, skills
<1>2. RegistryOK' /\ agent_skills' \subseteq Skill
  BY <1>1 DEF RegistryOK
<1>3. ManagerOK' /\ ToolsOfSkills' /\ OneEntry' /\ LoadedSkillServes'
  BY <1>1, SkillsStay
<1> QED
  BY <1>2, <1>3

\* Rendering, with a configured copy or without one.
LEMMA RenderingKeeps ==
  ASSUME AgentInv, Promise, NEW c \in Call, NEW call_id \in {c, NoCall},
         RenderForRequest(c, call_id)
  PROVE  AgentInv'
<1> DEFINE own == [n \in DOMAIN tools |-> tools[n].secure]
<1>1. UNCHANGED <<registry, skills, dynamic, now, runs>>
  BY DEF RenderForRequest
<1>2. \E secret \in {"agent", "copy"} : \E secure :
        DOMAIN secure \subseteq Name /\ Render(c, call_id, secret, secure)
  <2>1. DOMAIN own \subseteq Name /\ CopyTool \subseteq Name
    BY NamesAssumption DEF AgentInv, RegistryOK, NamesAssumption
  <2>2. CASE dynamic
    <3>1. PICK extra \in SUBSET CopyTool :
            Render(c, call_id, "copy",
                   [n \in DOMAIN own \union extra |-> n \in extra \/ own[n]])
      BY <2>2 DEF RenderForRequest
    <3> DEFINE all == [n \in DOMAIN own \union extra |-> n \in extra \/ own[n]]
    <3>2. DOMAIN all \subseteq Name
      BY <2>1
    <3>3. Render(c, call_id, "copy", all)
      BY <3>1
    <3> HIDE DEF all
    <3> QED
      BY <3>2, <3>3
  <2>3. CASE ~dynamic
    <3>1. Render(c, call_id, "agent", own)
      BY <2>3 DEF RenderForRequest
    <3> HIDE DEF own
    <3> QED
      BY <2>1, <3>1
  <2> QED
    BY <2>2, <2>3
<1>3. \A d \in Call : DocumentOK(documents'[d])
  BY <1>2, RenderKeepsTypes DEF AgentInv
<1>4. ServingOK'
  BY <1>1, <1>3 DEF AgentInv, ServingOK
<1> QED
  BY <1>1, <1>4, ServingStepKeeps

-----------------------------------------------------------------------------
\* The registry, the manager and the objects they share stay in step.
THEOREM AgentInductive == Spec => []AgentInv
<1>1. Init => AgentInv
  <2> SUFFICES ASSUME Init PROVE AgentInv
    OBVIOUS
  <2>1. DOMAIN <<>> = {} /\ <<>> \in Seq(Name) /\ <<>> \in Seq(Entry)
    OBVIOUS
  <2>2. RegistryOK /\ ManagerOK /\ OneEntry
    BY <2>1 DEF Init, RegistryOK, ManagerOK, OneEntry, IsInjective, ToSet
  <2>3. ToolsOfSkills /\ LoadedSkillServes
    BY <2>1 DEF Init, ToolsOfSkills, LoadedSkillServes
  <2>4. ServingOK
    <3>1. DocumentOK(NoDocument)
      BY <2>1 DEF DocumentOK, NoDocument
    <3>2. dynamic \in BOOLEAN
      BY Zenon DEF Init
    <3>3. now \in 0 .. MaxTime
      <4>1. now = 0
        BY DEF Init
      <4> QED
        BY <4>1, TimeAssumption DEF TimeAssumption
    <3>4. \A c \in Call : DocumentOK(documents[c])
      BY <3>1 DEF Init
    <3>5. /\ runs = [q \in Request |-> runs[q]]
          /\ \A q \in Request : runs[q] = NoRun
      BY DEF Init
    <3> QED
      BY <3>2, <3>3, <3>4, <3>5 DEF ServingOK
  <2> QED
    BY <2>2, <2>3, <2>4 DEF Init, AgentInv
<1>2. AgentInv /\ Promise /\ [Next]_vars => AgentInv'
  <2> SUFFICES ASSUME AgentInv, Promise, [Next]_vars PROVE AgentInv'
    OBVIOUS
  <2>1. ASSUME NEW c \in Call, HandleSwmlRequest(c) \/ HandleRequest(c)
        PROVE  AgentInv'
    BY <2>1, RenderingKeeps DEF HandleSwmlRequest, HandleRequest
  <2>2. CASE SetDynamicConfigCallback
    BY <2>2, ServingStepKeeps DEF SetDynamicConfigCallback, AgentInv, ServingOK
  <2>3. ASSUME NEW q \in Request, NEW n \in Name, NEW c \in Call,
               HandleSwaigRequest(q, n, c)
        PROVE  AgentInv'
    <3>1. ServingOK'
      BY <2>3 DEF HandleSwaigRequest, AgentInv, ServingOK
    <3> QED
      BY <2>3, <3>1, ServingStepKeeps DEF HandleSwaigRequest
  <2>4. ASSUME NEW q \in Request, HandlerReturns(q) PROVE AgentInv'
    BY <2>4, ServingStepKeeps DEF HandlerReturns, AgentInv, ServingOK
  <2>5. CASE Tick
    BY <2>5, ServingStepKeeps, TimeAssumption DEF Tick, AgentInv, ServingOK
  <2>6. CASE UNCHANGED vars
    <3>1. UNCHANGED <<registry, skills>> /\ ServingOK'
      BY <2>6 DEF vars, registry, skills, AgentInv, ServingOK
    <3> QED
      BY <3>1, ServingStepKeeps
  <2> QED
    BY <2>1, <2>2, <2>3, <2>4, <2>5, <2>6,
       SkillStepKeeps, RegistryStepKeeps, RestartKeeps DEF Next
<1> QED
  BY <1>1, <1>2, PromiseIsKept, PTL DEF Spec

\* Every variable has its type, and tool_order_ lists each tool once and
\* nothing else but DataMap functions, whatever is defined, registered, removed,
\* loaded and unloaded in any order.
THEOREM TypeCorrect == Spec => []TypeOK
  BY AgentInductive, InvHasTypes, PTL

\* A loaded skill whose tool no other skill defines runs on an object that
\* lives, for any number of skills and objects.
THEOREM LoadedSkillsServe == Spec => []LoadedSkillServes
  BY AgentInductive, PTL DEF AgentInv
=============================================================================
