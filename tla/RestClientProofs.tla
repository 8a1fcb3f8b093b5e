-------------------------- MODULE RestClientProofs --------------------------
(***************************************************************************)
(* Safety of the retry loop for every list of pages, set of statuses and   *)
(* number of retries, and of the walk for every way the pages are linked.  *)
(*                                                                         *)
(* The loop: IInv counts the attempts that are over.  The walk: WalkInv    *)
(* counts the visits of each page by what the iterator itself keeps (the   *)
(* links it followed and the page it asks for), and with them the items.   *)
(* That the visited pages are all those the links lead to is an induction  *)
(* along the list, by its least counterexample.                            *)
(***************************************************************************)
EXTENDS RestClient, FiniteSetTheorems, WellFoundedInduction, TLAPS

\* How many attempts of the request in hand are over.
Over == IF phase = "send" THEN attempt - 1 ELSE attempt

\* The loop goes round only while there are retries left.
AttemptsLeft ==
  /\ phase = "check" => attempt <= Retries
  /\ phase = "send"  => attempt >= 1

\* Each attempt that is over was carried out, unanswered or refused at most once.
PostCounted ==
  op = "post" => executed <= Over /\ silent <= Over /\ throttled <= Over

\* While a POST is under way, everything carried out was paid for by a silence.
PostPaid == op = "post" => executed <= silent

\* The late attempt is over, and no other can start.
LateIsOver == late > 0 => abort /\ phase # "send"

IInv ==
  /\ TypeOK
  /\ AttemptsLeft /\ PostCounted /\ PostPaid /\ LateIsOver
  /\ PostRepeatedOnlyUnanswered /\ AbortStopsRequests

\* The initial states satisfy the strengthening.
LEMMA InitIInv == Init => IInv
  <1> SUFFICES ASSUME Init PROVE IInv
    OBVIOUS
  <1>1. TypeOK
    <2>1. link \in [Page -> Page \union {NoPage}] /\ bare \subseteq Page
      BY DEF Init
    <2>2. /\ items \in Seq(Page) /\ index_ \in 0..Len(items)
          /\ fetched \in Seq(Page)
      BY DEF Init
    <2>3. params_ \in Page /\ seen_next_ \subseteq Page
      BY PagesAssumption DEF Init
    <2>4. /\ attempt \in 0..Retries + 1 /\ executed \in 0..Retries + 1
          /\ silent \in 0..Retries + 1 /\ throttled \in 0..Retries + 1
      BY OptionsAssumption DEF Init
    <2> QED BY <2>1, <2>2, <2>3, <2>4 DEF Init, TypeOK
  <1>2. AttemptsLeft /\ PostCounted /\ PostPaid
    BY OptionsAssumption DEF Init, AttemptsLeft, PostCounted, PostPaid, Over
  <1>3. LateIsOver /\ PostRepeatedOnlyUnanswered /\ AbortStopsRequests
    BY DEF Init, LateIsOver, PostRepeatedOnlyUnanswered, AbortStopsRequests
  <1> QED BY <1>1, <1>2, <1>3 DEF IInv

\* What the end of an attempt does to the counters of a POST.
LEMMA CountPostBounds ==
  ASSUME IInv, phase = "send",
         NEW carried, NEW lost, NEW refused,
         CountPost(carried, lost, refused)
  PROVE  /\ executed' \in 0..Retries + 1 /\ silent' \in 0..Retries + 1
         /\ throttled' \in 0..Retries + 1
         /\ op = "post" => /\ executed' <= attempt /\ silent' <= attempt
                           /\ throttled' <= attempt
                           /\ executed' <= 1 + silent'
                           /\ (carried => lost) => executed' <= silent'
         /\ op # "post" => UNCHANGED post
  <1>1. CASE op = "post"
    BY <1>1, OptionsAssumption
    DEF IInv, TypeOK, AttemptsLeft, PostCounted, PostPaid, Over, CountPost
  <1>2. CASE op # "post"
    BY <1>2 DEF IInv, TypeOK, CountPost, post
  <1> QED BY <1>1, <1>2

\* A late attempt leaves LateIsOver and AbortStopsRequests true when its phase ends.
LEMMA CountLateBounds ==
  ASSUME IInv, phase = "send", phase' # "send", abort' = abort, CountLate
  PROVE  late' \in Nat /\ LateIsOver' /\ AbortStopsRequests'
  BY DEF IInv, TypeOK, LateIsOver, AbortStopsRequests, CountLate

\* The user's calls and the other thread keep the invariant.
LEMMA CallsKeepIInv ==
  ASSUME IInv, Post \/ TakeItem \/ CallFetches \/ RaiseAbort
  PROVE  IInv'
  <1> USE OptionsAssumption
      DEF IInv, TypeOK, AttemptsLeft, PostCounted, PostPaid, Over, LateIsOver,
          PostRepeatedOnlyUnanswered, AbortStopsRequests,
          server, loop, iterator, post
  <1>1. CASE Post
    BY <1>1 DEF Post, BeginRequest
  <1>2. CASE TakeItem
    BY <1>2 DEF TakeItem, HasItem
  <1>3. CASE CallFetches
    BY <1>3 DEF CallFetches, BeginRequest
  <1>4. CASE RaiseAbort
    BY <1>4 DEF RaiseAbort
  <1> QED BY <1>1, <1>2, <1>3, <1>4

\* The head of the loop: the only step that makes an attempt looks at the signal.
LEMMA StartKeepsIInv ==
  ASSUME IInv, StartAttempt
  PROVE  IInv'
  <1> USE OptionsAssumption
      DEF IInv, TypeOK, AttemptsLeft, PostCounted, PostPaid, Over, LateIsOver,
          PostRepeatedOnlyUnanswered, AbortStopsRequests, StartAttempt,
          server, iterator, post
  <1>1. CASE abort
    BY <1>1 DEF Return
  <1>2. CASE ~abort
    BY <1>2
  <1> QED BY <1>1, <1>2

LEMMA BoundBySuccessor == \A a, b \in Nat : a <= b => a <= 1 + b
  OBVIOUS

\* Going round the loop keeps the invariant, if a POST is carried out only
\* where its answer is lost.
LEMMA AgainKeepsIInv ==
  ASSUME IInv, phase = "send", attempt <= Retries, Again, CountLate,
         NEW carried, NEW lost, NEW refused,
         CountPost(carried, lost, refused), op = "post" => (carried => lost),
         UNCHANGED <<server, abort, iterator, fetched, hollow>>
  PROVE  IInv'
  <1>1. /\ executed' \in 0..Retries + 1 /\ silent' \in 0..Retries + 1
        /\ throttled' \in 0..Retries + 1
        /\ op = "post" => /\ executed' <= attempt /\ silent' <= attempt
                          /\ throttled' <= attempt /\ executed' <= silent'
        /\ op # "post" => UNCHANGED post
    BY CountPostBounds
  <1>2. late' \in Nat /\ LateIsOver' /\ AbortStopsRequests'
    BY CountLateBounds DEF Again
  <1>3. TypeOK'
    BY <1>1, <1>2, OptionsAssumption DEF IInv, TypeOK, Again, server, iterator
  <1>4. AttemptsLeft' /\ PostCounted' /\ PostPaid'
    BY <1>1 DEF AttemptsLeft, PostCounted, PostPaid, Over, Again
  <1>5. PostRepeatedOnlyUnanswered'
    <2>1. CASE op = "post"
      <3>1. executed' <= silent' /\ executed' \in Nat /\ silent' \in Nat
        BY <1>1, <2>1, OptionsAssumption
      <3>2. executed' <= 1 + silent'
        BY <3>1, BoundBySuccessor
      <3> QED BY <3>2 DEF PostRepeatedOnlyUnanswered
    <2>2. CASE op # "post"
      BY <1>1, <2>2 DEF IInv, PostRepeatedOnlyUnanswered, post
    <2> QED BY <2>1, <2>2
  <1> QED BY <1>2, <1>3, <1>4, <1>5 DEF IInv

\* An attempt without an answer, or one the loop goes round for.
LEMMA RetryKeepsIInv ==
  ASSUME IInv, AttemptUnanswered \/ \E status \in Status : AttemptRetried(status)
  PROVE  IInv'
  <1>1. CASE AttemptUnanswered
    <2>1. phase = "send" /\ abort' = abort /\ CountLate
      BY <1>1 DEF AttemptUnanswered
    <2>2. PICK carried \in BOOLEAN : CountPost(carried, TRUE, FALSE)
      BY <1>1 DEF AttemptUnanswered
    <2>3. CASE Exhausted
      <3>1. Return
        BY <1>1, <2>3 DEF AttemptUnanswered
      <3>2. late' \in Nat /\ LateIsOver' /\ AbortStopsRequests'
        BY <2>1, <3>1, CountLateBounds DEF Return
      <3>3. /\ executed' \in 0..Retries + 1 /\ silent' \in 0..Retries + 1
            /\ throttled' \in 0..Retries + 1
            /\ op = "post" => executed' <= 1 + silent'
            /\ op # "post" => UNCHANGED post
        BY <2>1, <2>2, CountPostBounds
      <3>4. TypeOK'
        BY <1>1, <3>1, <3>2, <3>3, OptionsAssumption
        DEF AttemptUnanswered, Return, IInv, TypeOK, server, iterator
      <3>5. AttemptsLeft' /\ PostCounted' /\ PostPaid'
        BY <3>1 DEF Return, AttemptsLeft, PostCounted, PostPaid
      <3>6. PostRepeatedOnlyUnanswered'
        BY <3>3 DEF IInv, PostRepeatedOnlyUnanswered, post
      <3> QED BY <3>2, <3>4, <3>5, <3>6 DEF IInv
    <2>4. CASE ~Exhausted
      <3>1. Again /\ attempt <= Retries
        BY <1>1, <2>4, OptionsAssumption DEF AttemptUnanswered, Exhausted,
             IInv, TypeOK
      <3>2. UNCHANGED <<server, abort, iterator, fetched, hollow>>
        BY <1>1 DEF AttemptUnanswered
      <3> QED
        BY <1>1, <2>1, <2>2, <3>1, <3>2, AgainKeepsIInv
    <2> QED BY <2>3, <2>4
  <1>2. ASSUME NEW status \in Status, AttemptRetried(status)
        PROVE  IInv'
    <2>1. /\ phase = "send" /\ abort' = abort /\ CountLate /\ Again
          /\ CountPost(status \notin Throttles, FALSE, status \in Throttles)
      BY <1>2 DEF AttemptRetried
    <2>2. attempt <= Retries
      BY <1>2, OptionsAssumption DEF AttemptRetried, Exhausted, IInv, TypeOK
    <2>3. op = "post" => ~(status \notin Throttles)
      BY <1>2 DEF AttemptRetried, StatusIsRetryable, Method
    <2> QED
      BY <1>2, <2>1, <2>2, <2>3, AgainKeepsIInv DEF AttemptRetried
  <1> QED BY <1>1, <1>2

\* What fetch_next makes of the iterator has its type, whatever it is given.
LEMMA FetchNextType ==
  ASSUME IInv, NEW contents \in Seq(Page), NEW next \in Page \union {NoPage},
         FetchNext(contents, next)
  PROVE  /\ items' \in Seq(Page) /\ Len(items') >= Len(items)
         /\ params_' \in Page /\ seen_next_' \subseteq Page /\ done_' \in BOOLEAN
  <1>1. items' \in Seq(Page) /\ Len(items') = Len(items) + Len(contents)
    BY DEF IInv, TypeOK, FetchNext
  <1>2. params_' \in Page /\ seen_next_' \subseteq Page /\ done_' \in BOOLEAN
    BY DEF IInv, TypeOK, FetchNext
  <1> QED BY <1>1, <1>2 DEF IInv, TypeOK

\* An answer that is handled ends the request or begins the next page's.
LEMMA AnswerKeepsIInv ==
  ASSUME IInv, NEW status \in Status, NEW body \in {"json", "text", "empty"},
         AttemptAnswered(status, body)
  PROVE  IInv'
  <1> DEFINE outcome == Outcome(status, body)
             contents == IF outcome = "document" THEN ItemsOf(params_) ELSE <<>>
             next     == IF outcome = "document" THEN link[params_] ELSE NoPage
  <1>1. /\ phase = "send" /\ abort' = abort /\ CountLate /\ UNCHANGED server
        /\ CountPost(status \notin Throttles, FALSE, status \in Throttles)
    BY DEF AttemptAnswered
  <1>2. /\ executed' \in 0..Retries + 1 /\ silent' \in 0..Retries + 1
        /\ throttled' \in 0..Retries + 1
        /\ op = "post" => executed' <= 1 + silent'
        /\ op # "post" => UNCHANGED post
    BY <1>1, CountPostBounds
  <1>3. PostRepeatedOnlyUnanswered'
    BY <1>2 DEF IInv, PostRepeatedOnlyUnanswered, post
  <1>4. CASE op = "post" \/ outcome = "error"
    <2>1. Return /\ UNCHANGED <<iterator, fetched, hollow>>
      BY <1>4 DEF AttemptAnswered
    <2>2. late' \in Nat /\ LateIsOver' /\ AbortStopsRequests'
      BY <1>1, <2>1, CountLateBounds DEF Return
    <2>3. TypeOK'
      BY <1>1, <1>2, <2>1, <2>2, OptionsAssumption
      DEF IInv, TypeOK, Return, server, iterator
    <2>4. AttemptsLeft' /\ PostCounted' /\ PostPaid'
      BY <2>1 DEF Return, AttemptsLeft, PostCounted, PostPaid
    <2> QED BY <1>3, <2>2, <2>3, <2>4 DEF IInv
  <1>5. CASE ~(op = "post" \/ outcome = "error")
    <2>1. /\ FetchNext(contents, next) /\ ContinueIteration
          /\ fetched' = Append(fetched, params_)
          /\ hollow' = (hollow \/ outcome = "hollow")
      BY <1>5 DEF AttemptAnswered
    <2>2. contents \in Seq(Page) /\ next \in Page \union {NoPage}
      BY DEF IInv, TypeOK, ItemsOf
    <2>3. /\ items' \in Seq(Page) /\ Len(items') >= Len(items)
          /\ params_' \in Page /\ seen_next_' \subseteq Page /\ done_' \in BOOLEAN
      BY <2>1, <2>2, FetchNextType
    <2>4. /\ index_' \in 0..Len(items')
          /\ \/ op' = "none" /\ phase' = "idle" /\ attempt' = 0
             \/ op' = op /\ phase' = "check" /\ attempt' = 0
      <3>1. Len(items) \in Nat /\ Len(items') \in Nat /\ index_ \in 0..Len(items)
        BY <2>3 DEF IInv, TypeOK
      <3> QED BY <2>1, <2>3, <3>1 DEF ContinueIteration, Return, BeginRequest
    <2>5. late' \in Nat /\ LateIsOver' /\ AbortStopsRequests'
      BY <1>1, <2>4, CountLateBounds
    <2>6. fetched' \in Seq(Page) /\ hollow' \in BOOLEAN
      BY <2>1 DEF IInv, TypeOK
    <2>7. op \in {"has_next", "next"}
      BY <1>1, <1>5 DEF IInv, TypeOK
    <2>8. TypeOK'
      BY <1>1, <1>2, <2>3, <2>4, <2>5, <2>6, <2>7, OptionsAssumption
      DEF IInv, TypeOK, server
    <2>9. AttemptsLeft' /\ PostCounted' /\ PostPaid'
      BY <2>4, <2>7, OptionsAssumption DEF AttemptsLeft, PostCounted, PostPaid
    <2> QED BY <1>3, <2>5, <2>8, <2>9 DEF IInv
  <1> QED BY <1>4, <1>5

-----------------------------------------------------------------------------
\* The strengthening is an inductive invariant.
THEOREM Inductive == Spec => []IInv
  <1>1. Init => IInv
    BY InitIInv
  <1>2. IInv /\ [Next]_vars => IInv'
    <2> SUFFICES ASSUME IInv, [Next]_vars PROVE IInv'
      OBVIOUS
    <2>1. CASE Post \/ TakeItem \/ CallFetches \/ RaiseAbort
      BY <2>1, CallsKeepIInv
    <2>2. CASE StartAttempt
      BY <2>2, StartKeepsIInv
    <2>3. CASE AttemptUnanswered \/ \E status \in Status : AttemptRetried(status)
      BY <2>3, RetryKeepsIInv
    <2>4. CASE \E status \in Status, body \in {"json", "text", "empty"} :
                 AttemptAnswered(status, body)
      BY <2>4, AnswerKeepsIInv
    <2>5. CASE UNCHANGED vars
      BY <2>5
      DEF vars, IInv, TypeOK, AttemptsLeft, PostCounted, PostPaid, Over, LateIsOver,
          PostRepeatedOnlyUnanswered, AbortStopsRequests
    <2> QED BY <2>1, <2>2, <2>3, <2>4, <2>5 DEF Next
  <1> QED BY <1>1, <1>2, PTL DEF Spec

\* Every variable keeps its type; request() makes at most Retries + 1 attempts.
THEOREM TypeCorrect == Spec => []TypeOK
  BY Inductive, PTL DEF IInv

\* A POST is carried out again only after an attempt that went unanswered.
THEOREM PostsArePaid == Spec => []PostRepeatedOnlyUnanswered
  BY Inductive, PTL DEF IInv

\* At most one attempt is sent after the abort signal is raised.
THEOREM AbortsStop == Spec => []AbortStopsRequests
  BY Inductive, PTL DEF IInv

-----------------------------------------------------------------------------
(* Induction, and the recursive definition of walk *)

\* Every nonempty set of naturals has a least element ...
LEMMA NatLeast ==
  ASSUME NEW T \in SUBSET Nat, T # {}
  PROVE  \E x \in T : \A y \in T : x <= y
<1> DEFINE R == OpToRel(<, Nat)
<1>1. IsWellFoundedOn(R, Nat)
  BY NatLessThanWellFounded
<1>2. \A x, y \in Nat : <<x, y>> \in R <=> x < y
  BY DEF OpToRel
<1> HIDE DEF R
<1>3. PICK x \in T : \A y \in T : ~(<<y, x>> \in R)
  BY <1>1, WFMin
<1>4. \A y \in T : ~(y < x)
  BY <1>2, <1>3
<1> HIDE <1>2, <1>3
<1> QED
  BY <1>4

\* ... so a set of naturals with 0 and the successors of its elements below m
\* has them all: induction, with no operator to instantiate.
LEMMA IntervalInduction ==
  ASSUME NEW m \in Nat, NEW G, 0 \in G, \A k \in 1..m : k - 1 \in G => k \in G
  PROVE  \A k \in 0..m : k \in G
<1> DEFINE T == (0..m) \ G
<1>1. ASSUME T # {} PROVE FALSE
  <2>1. PICK x \in T : \A y \in T : x <= y
    <3>1. T \in SUBSET Nat
      OBVIOUS
    <3> HIDE DEF T
    <3> QED
      BY <1>1, <3>1, NatLeast
  <2>2. x - 1 \notin T /\ x \in 1..m
    BY <2>1
  <2> QED
    BY <2>1, <2>2
<1> QED
  BY <1>1

\* f is the walk along the links, up to its k-th page.
FollowsLinks(f, k) ==
  /\ DOMAIN f = 0..k
  /\ f = [n \in 0..k |->
            IF n = 0 THEN FirstPage
            ELSE IF f[n - 1] = NoPage THEN NoPage ELSE link[f[n - 1]]]

\* The recursive definition of walk defines a function: the walk up to one page
\* is extended to the next.
LEMMA WalkFollowsLinks == FollowsLinks(walk, Cardinality(Page))
<1> DEFINE K == Cardinality(Page)
           G == {k \in 0..K : \E f : FollowsLinks(f, k)}
<1>1. K \in Nat
  BY PagesAssumption, FS_CardinalityType
<1>2. 0 \in G
  <2> DEFINE g == [n \in 0..0 |-> FirstPage]
  <2>1. FollowsLinks(g, 0)
    BY DEF FollowsLinks
  <2> QED
    BY <1>1, <2>1
<1>3. ASSUME NEW m \in 1..K, m - 1 \in G PROVE m \in G
  <2>1. PICK f : FollowsLinks(f, m - 1)
    BY <1>3
  <2> DEFINE g == [n \in 0..m |->
                     IF n < m THEN f[n]
                     ELSE IF f[m - 1] = NoPage THEN NoPage ELSE link[f[m - 1]]]
  <2>2. ASSUME NEW n \in 0..m
        PROVE  g[n] = IF n = 0 THEN FirstPage
                      ELSE IF g[n - 1] = NoPage THEN NoPage ELSE link[g[n - 1]]
    <3>1. n > 0 => g[n - 1] = f[n - 1]
      BY <1>1
    <3>2. CASE n < m
      <4>1. n \in 0..m - 1
        BY <3>2, <1>1
      <4>2. f[n] = IF n = 0 THEN FirstPage
                   ELSE IF f[n - 1] = NoPage THEN NoPage ELSE link[f[n - 1]]
        BY <2>1, <4>1 DEF FollowsLinks
      <4>3. g[n] = f[n]
        BY <3>2
      <4> HIDE DEF g
      <4> QED
        BY <3>1, <4>1, <4>2, <4>3
    <3>3. CASE n = m
      BY <3>1, <3>3, <1>1
    <3> QED
      BY <3>2, <3>3, <1>1
  <2>3. g = [n \in 0..m |-> g[n]] /\ DOMAIN g = 0..m
    OBVIOUS
  <2> HIDE DEF g
  <2>4. FollowsLinks(g, m)
    BY <2>2, <2>3 DEF FollowsLinks
  <2> QED
    BY <1>1, <2>4
<1> HIDE DEF G
<1>4. K \in G
  BY <1>1, <1>2, <1>3, IntervalInduction
<1> QED
  BY <1>4 DEF G, FollowsLinks, walk

\* A set of pages closed under links, with the first one, holds the walk.
LEMMA WalkStaysInside ==
  ASSUME NEW V, FirstPage \in V, \A p \in V : link[p] = NoPage \/ link[p] \in V
  PROVE  \A n \in 0..Cardinality(Page) : walk[n] \in V \union {NoPage}
<1> DEFINE K == Cardinality(Page)
           G == {n \in 0..K : walk[n] \in V \union {NoPage}}
<1>1. K \in Nat
  BY PagesAssumption, FS_CardinalityType
<1>2. \A n \in 0..K :
        walk[n] = IF n = 0 THEN FirstPage
                  ELSE IF walk[n - 1] = NoPage THEN NoPage ELSE link[walk[n - 1]]
  <2> DEFINE w == walk
  <2>1. FollowsLinks(w, K)
    BY WalkFollowsLinks
  <2> HIDE DEF w
  <2>2. \A n \in 0..K :
          w[n] = IF n = 0 THEN FirstPage
                 ELSE IF w[n - 1] = NoPage THEN NoPage ELSE link[w[n - 1]]
    BY <2>1 DEF FollowsLinks
  <2> QED
    BY <2>2 DEF w
<1>3. 0 \in G
  BY <1>1, <1>2
<1>4. ASSUME NEW n \in 1..K, n - 1 \in G PROVE n \in G
  BY <1>1, <1>2, <1>4
<1>5. \A n \in 0..K : n \in G
  <2> HIDE DEF G
  <2> QED
    BY <1>1, <1>3, <1>4, IntervalInduction
<1> QED
  BY <1>5

\* One more item counts one more for its own page.
LEMMA OneMoreItem ==
  ASSUME items \in Seq(Page), NEW q \in Page, items' = items \o <<q>>, NEW p
  PROVE  /\ Occurrences(p) \in Nat
         /\ Occurrences(p)' = Occurrences(p) + (IF p = q THEN 1 ELSE 0)
<1> DEFINE S == {i \in DOMAIN items : items[i] = p}
           U == {i \in DOMAIN items' : items'[i] = p}
           n == Len(items)
<1>1. n \in Nat /\ DOMAIN items = 1..n
  OBVIOUS
<1>2. /\ DOMAIN items' = 1..n + 1
      /\ items'[n + 1] = q
      /\ \A i \in 1..n : items'[i] = items[i]
  OBVIOUS
<1>3. IsFiniteSet(S) /\ Cardinality(S) \in Nat
  <2>1. IsFiniteSet(1..n)
    BY <1>1, FS_Interval
  <2>2. S \in SUBSET (1..n)
    BY <1>1
  <2> HIDE DEF S
  <2> QED
    BY <2>1, <2>2, FS_Subset, FS_CardinalityType
<1>4. n + 1 \notin S
  BY <1>1
<1>5. U = IF p = q THEN S \cup {n + 1} ELSE S
  <2> HIDE DEF n
  <2> QED
    BY <1>1, <1>2
<1>6. Occurrences(p) = Cardinality(S) /\ Occurrences(p)' = Cardinality(U)
  BY DEF Occurrences
<1> HIDE DEF S, U, n
<1>7. Cardinality(S \cup {n + 1}) = Cardinality(S) + 1
  BY <1>3, <1>4, FS_AddElement
<1> QED
  BY <1>3, <1>5, <1>6, <1>7

-----------------------------------------------------------------------------
(* The iterator *)

\* Each answer applied followed a link it had not seen, or was the last.
OneFetchPerLink ==
  Len(fetched) = Cardinality(seen_next_) + (IF done_ THEN 1 ELSE 0)

\* The iterator starts at the first page; after that the page it asks for is
\* one whose link it followed, and who asks is not at the end.
IteratorPlace ==
  /\ fetched = <<>> => params_ = FirstPage /\ seen_next_ = {} /\ ~done_ /\ items = <<>>
  /\ fetched # <<>> /\ ~done_ => params_ \in seen_next_
  /\ op \in {"has_next", "next"} => ~done_

\* How often the answer for a page was applied: as the first one, and for the
\* link that led to it.
Followed == {p \in seen_next_ : done_ \/ p # params_}
Visits(p) == (IF p = FirstPage /\ fetched # <<>> THEN 1 ELSE 0)
             + (IF p \in Followed THEN 1 ELSE 0)

\* Without a hollow answer the links of the visited pages were all followed,
\* and their items are all there.
LinksFollowed ==
  ~hollow => \A p \in Page :
    Visits(p) > 0 => link[p] = NoPage \/ link[p] \in seen_next_
ItemsCounted ==
  ~hollow => \A p \in Page :
    Occurrences(p) = IF p \in bare THEN 0 ELSE Visits(p)

WalkInv == OneFetchPerLink /\ IteratorPlace /\ LinksFollowed /\ ItemsCounted

\* The links followed are to different pages, finitely many.
LEMMA SeenIsFinite ==
  ASSUME TypeOK
  PROVE  IsFiniteSet(seen_next_) /\ Cardinality(seen_next_) \in Nat
         /\ Cardinality(seen_next_) <= Cardinality(Page)
         /\ Cardinality(Page) \in Nat
  BY PagesAssumption, FS_Subset, FS_CardinalityType DEF TypeOK

\* A new iterator has visited nothing.
LEMMA InitWalk == ASSUME Init PROVE WalkInv
<1>1. OneFetchPerLink
  BY FS_EmptySet DEF Init, OneFetchPerLink
<1>2. IteratorPlace
  BY DEF Init, IteratorPlace
<1>3. LinksFollowed
  BY DEF Init, LinksFollowed, Visits, Followed
<1>4. ItemsCounted
  <2> SUFFICES ASSUME NEW p \in Page PROVE Occurrences(p) = 0 /\ Visits(p) = 0
    BY DEF ItemsCounted
  <2>1. {i \in DOMAIN items : items[i] = p} = {}
    BY DEF Init
  <2>2. Occurrences(p) = 0
    BY <2>1, FS_EmptySet DEF Occurrences
  <2> QED
    BY <2>2 DEF Init, Visits, Followed
<1> QED
  BY <1>1, <1>2, <1>3, <1>4 DEF WalkInv

\* An answer that is applied visits params_, and only it, once more.
LEMMA ApplyVisits ==
  ASSUME TypeOK, IteratorPlace, ~done_,
         NEW contents, NEW next \in Page \union {NoPage}, FetchNext(contents, next),
         fetched' = Append(fetched, params_), NEW p \in Page
  PROVE  Visits(p)' = Visits(p) + (IF p = params_ THEN 1 ELSE 0)
<1>1. fetched' # <<>>
  BY DEF TypeOK
<1>2. CASE next = NoPage \/ next \in seen_next_
  <2>1. done_' = TRUE /\ params_' = params_ /\ seen_next_' = seen_next_
    BY <1>2 DEF FetchNext
  <2>2. p \in Followed' <=> p \in seen_next_
    BY <2>1 DEF Followed
  <2>3. p \in Followed <=> p \in seen_next_ /\ p # params_
    BY DEF Followed
  <2>4. CASE fetched = <<>>
    BY <1>1, <2>2, <2>3, <2>4 DEF IteratorPlace, Visits
  <2>5. CASE fetched # <<>>
    BY <1>1, <2>2, <2>3, <2>5 DEF IteratorPlace, Visits
  <2> QED
    BY <2>4, <2>5
<1>3. CASE ~(next = NoPage \/ next \in seen_next_)
  <2>1. done_' = done_ /\ params_' = next /\ seen_next_' = seen_next_ \union {next}
    BY <1>3 DEF FetchNext
  <2>2. p \in Followed' <=> p \in seen_next_
    BY <1>3, <2>1 DEF Followed
  <2>3. p \in Followed <=> p \in seen_next_ /\ p # params_
    BY DEF Followed
  <2>4. CASE fetched = <<>>
    BY <1>1, <2>2, <2>3, <2>4 DEF IteratorPlace, Visits
  <2>5. CASE fetched # <<>>
    BY <1>1, <2>2, <2>3, <2>5 DEF IteratorPlace, Visits
  <2> QED
    BY <2>4, <2>5
<1> QED
  BY <1>2, <1>3

\* What fetch_next and the history make of the walk, for an answer with a
\* document or without.
LEMMA ApplyKeepsWalk ==
  ASSUME TypeOK, WalkInv, ~done_,
         NEW contents \in Seq(Page), NEW next \in Page \union {NoPage},
         FetchNext(contents, next), fetched' = Append(fetched, params_),
         UNCHANGED server,
         ~hollow' => ~hollow /\ contents = ItemsOf(params_) /\ next = link[params_],
         op' \in {"has_next", "next"} => ~done_'
  PROVE  WalkInv'
<1>1. Len(fetched') = Len(fetched) + 1 /\ Len(fetched) \in Nat /\ fetched' # <<>>
  BY DEF TypeOK
<1>2. OneFetchPerLink'
  <2>1. IsFiniteSet(seen_next_) /\ Cardinality(seen_next_) \in Nat
    BY SeenIsFinite
  <2>2. Len(fetched) = Cardinality(seen_next_)
    BY <2>1 DEF WalkInv, OneFetchPerLink
  <2>3. CASE next = NoPage \/ next \in seen_next_
    <3>1. done_' = TRUE /\ seen_next_' = seen_next_
      BY <2>3 DEF FetchNext
    <3> QED
      BY <1>1, <2>1, <2>2, <3>1 DEF OneFetchPerLink
  <2>4. CASE ~(next = NoPage \/ next \in seen_next_)
    <3>1. done_' = done_ /\ seen_next_' = seen_next_ \cup {next}
      BY <2>4 DEF FetchNext
    <3>2. Cardinality(seen_next_') = Cardinality(seen_next_) + 1
      BY <2>1, <2>4, <3>1, FS_AddElement
    <3> QED
      BY <1>1, <2>1, <2>2, <3>1, <3>2 DEF OneFetchPerLink
  <2> QED
    BY <2>3, <2>4
<1>3. IteratorPlace'
  BY <1>1 DEF IteratorPlace, FetchNext
<1>4. \A p \in Page : Visits(p)' = Visits(p) + (IF p = params_ THEN 1 ELSE 0)
  BY ApplyVisits DEF WalkInv
<1>5. \A p \in Page : Visits(p) \in Nat
  BY DEF Visits
<1>6. LinksFollowed'
  <2> SUFFICES ASSUME ~hollow', NEW p \in Page, Visits(p)' > 0
               PROVE  link'[p] = NoPage \/ link'[p] \in seen_next_'
    BY DEF LinksFollowed
  <2>1. seen_next_ \subseteq seen_next_' /\ link' = link
    BY DEF FetchNext, server
  <2>2. next = NoPage \/ next \in seen_next_'
    BY DEF FetchNext
  <2>3. p = params_ \/ Visits(p) > 0
    BY <1>4, <1>5
  <2> QED
    BY <2>1, <2>2, <2>3 DEF WalkInv, LinksFollowed
<1>7. ItemsCounted'
  <2> SUFFICES ASSUME ~hollow', NEW p \in Page
               PROVE  Occurrences(p)' = IF p \in bare' THEN 0 ELSE Visits(p)'
    BY DEF ItemsCounted
  <2>1. /\ contents = ItemsOf(params_) /\ bare' = bare /\ params_ \in Page
        /\ items' = items \o contents /\ items \in Seq(Page)
    BY DEF FetchNext, server, TypeOK
  <2>2. Occurrences(p) = IF p \in bare THEN 0 ELSE Visits(p)
    BY DEF WalkInv, ItemsCounted
  <2>3. Visits(p)' = Visits(p) + (IF p = params_ THEN 1 ELSE 0) /\ Visits(p) \in Nat
    BY <1>4, <1>5
  <2>4. CASE params_ \in bare
    <3>1. items' = items
      BY <2>1, <2>4 DEF ItemsOf
    <3>2. Occurrences(p)' = Occurrences(p)
      BY <3>1 DEF Occurrences
    <3>3. CASE p = params_
      BY <2>1, <2>2, <2>4, <3>2, <3>3
    <3>4. CASE p # params_
      <4>1. Visits(p)' = Visits(p)
        BY <2>3, <3>4
      <4> HIDE DEF Visits
      <4> QED
        BY <2>1, <2>2, <3>2, <4>1
    <3> QED
      BY <3>3, <3>4
  <2>5. CASE params_ \notin bare
    <3>1. items' = items \o <<params_>>
      BY <2>1, <2>5 DEF ItemsOf
    <3>2. Occurrences(p)' = Occurrences(p) + (IF p = params_ THEN 1 ELSE 0)
      BY <2>1, <3>1, OneMoreItem
    <3> HIDE DEF Visits
    <3> QED
      BY <2>1, <2>2, <2>3, <2>5, <3>2
  <2> QED
    BY <2>4, <2>5
<1> QED
  BY <1>2, <1>3, <1>6, <1>7 DEF WalkInv

\* Steps that leave the iterator alone, but for the item the user is at.
LEMMA OthersKeepWalk ==
  ASSUME WalkInv,
         UNCHANGED <<server, params_, items, done_, seen_next_, fetched, hollow>>,
         op' \in {"has_next", "next"} => ~done_
  PROVE  WalkInv'
<1>1. OneFetchPerLink' /\ IteratorPlace'
  BY DEF WalkInv, OneFetchPerLink, IteratorPlace
<1>2. \A p : Visits(p)' = Visits(p) /\ Occurrences(p)' = Occurrences(p)
  BY DEF Visits, Followed, Occurrences
<1>3. LinksFollowed' /\ ItemsCounted'
  BY <1>2 DEF WalkInv, LinksFollowed, ItemsCounted, server
<1> QED
  BY <1>1, <1>3 DEF WalkInv

\* Every step keeps it; only an answer that is applied touches it.
LEMMA NextKeepsWalk ==
  ASSUME TypeOK, WalkInv, [Next]_vars PROVE WalkInv'
<1>1. CASE Post \/ RaiseAbort \/ TakeItem \/ CallFetches \/ StartAttempt
           \/ AttemptUnanswered \/ (\E status \in Status : AttemptRetried(status))
           \/ UNCHANGED vars
  <2>1. UNCHANGED <<server, params_, items, done_, seen_next_, fetched, hollow>>
    BY <1>1 DEF Post, RaiseAbort, TakeItem, CallFetches, StartAttempt,
         AttemptUnanswered, AttemptRetried, iterator, vars, server
  <2>2. op' \in {"has_next", "next"} => op' = op \/ ~done_
    BY <1>1 DEF Post, RaiseAbort, TakeItem, CallFetches, StartAttempt,
         AttemptUnanswered, AttemptRetried, BeginRequest, Return, Again, loop, vars
  <2> QED
    BY <2>1, <2>2, OthersKeepWalk DEF WalkInv, IteratorPlace
<1>2. ASSUME NEW status \in Status, NEW body \in {"json", "text", "empty"},
             AttemptAnswered(status, body)
      PROVE  WalkInv'
  <2> DEFINE outcome == Outcome(status, body)
             contents == IF outcome = "document" THEN ItemsOf(params_) ELSE <<>>
             next     == IF outcome = "document" THEN link[params_] ELSE NoPage
  <2>1. phase = "send" /\ UNCHANGED server
    BY <1>2 DEF AttemptAnswered
  <2>2. CASE op = "post" \/ outcome = "error"
    <3>1. Return /\ UNCHANGED <<iterator, fetched, hollow>>
      BY <1>2, <2>2 DEF AttemptAnswered
    <3> QED
      BY <2>1, <3>1, OthersKeepWalk DEF Return, iterator
  <2>3. CASE ~(op = "post" \/ outcome = "error")
    <3>1. /\ FetchNext(contents, next) /\ ContinueIteration
          /\ fetched' = Append(fetched, params_)
          /\ hollow' = (hollow \/ outcome = "hollow")
      BY <1>2, <2>3 DEF AttemptAnswered
    <3>2. contents \in Seq(Page) /\ next \in Page \union {NoPage}
      BY DEF TypeOK, ItemsOf
    <3>3. op \in {"has_next", "next"}
      BY <2>1, <2>3 DEF TypeOK
    <3>4. ~done_
      BY <3>3 DEF WalkInv, IteratorPlace
    <3>5. outcome \in {"document", "hollow", "error"}
      BY DEF Outcome
    <3>6. ~hollow' => ~hollow /\ contents = ItemsOf(params_) /\ next = link[params_]
      BY <2>3, <3>1, <3>5
    <3>7. op' \in {"has_next", "next"} => ~done_'
      BY <3>1 DEF ContinueIteration, Return
    <3> HIDE DEF contents, next, outcome
    <3> QED
      BY <2>1, <3>1, <3>2, <3>4, <3>6, <3>7, ApplyKeepsWalk
  <2> QED
    BY <2>2, <2>3
<1> QED
  BY <1>1, <1>2 DEF Next

\* The invariant of the iterator.
THEOREM WalkInductive == Spec => []WalkInv
<1>1. Init => WalkInv
  BY InitWalk
<1>2. TypeOK /\ WalkInv /\ [Next]_vars => WalkInv'
  BY NextKeepsWalk
<1> QED
  BY <1>1, <1>2, TypeCorrect, PTL DEF Spec

\* Whatever the links between the pages, and whichever requests fail on the
\* way: a walk that ends without a hollow answer has every item of every page
\* the links lead to, and no walk fetches more than one page for each link and
\* the first.
THEOREM WalksAreSound == Spec => []WalkIsSound
<1>1. TypeOK /\ WalkInv => NoEndlessWalk
  <2> SUFFICES ASSUME TypeOK, WalkInv PROVE Len(fetched) <= Cardinality(Page) + 1
    BY DEF NoEndlessWalk
  <2>1. Cardinality(seen_next_) \in Nat /\ Cardinality(seen_next_) <= Cardinality(Page)
        /\ Cardinality(Page) \in Nat
    BY SeenIsFinite
  <2> QED
    BY <2>1 DEF WalkInv, OneFetchPerLink
<1>2. TypeOK /\ WalkInv => ListIsComplete
  <2> SUFFICES ASSUME TypeOK, WalkInv, done_, ~hollow, NEW p \in Listed \ bare
               PROVE  /\ Occurrences(p) >= 1
                      /\ Occurrences(p) > 1 => p = FirstPage /\ Occurrences(p) = 2
    BY DEF ListIsComplete
  <2> DEFINE V == seen_next_ \union {FirstPage}
  <2>1. \A q \in V : q \in Page /\ Visits(q) > 0
    BY PagesAssumption DEF TypeOK, WalkInv, IteratorPlace, Visits, Followed
  <2>2. \A q \in V : link[q] = NoPage \/ link[q] \in V
    BY <2>1 DEF WalkInv, LinksFollowed
  <2>3. PICK n \in 0..Cardinality(Page) : p = walk[n] /\ p # NoPage
    BY DEF Listed
  <2>4. walk[n] \in V \union {NoPage}
    <3>1. FirstPage \in V
      OBVIOUS
    <3> HIDE DEF V
    <3> QED
      BY <2>2, <3>1, WalkStaysInside
  <2>5. p \in V
    BY <2>3, <2>4
  <2>6. Occurrences(p) = Visits(p)
    BY <2>1, <2>5 DEF WalkInv, ItemsCounted
  <2>7. Visits(p) > 1 => p = FirstPage
    BY DEF Visits
  <2>8. Visits(p) \in {0, 1, 2}
    BY DEF Visits
  <2> HIDE DEF V, Visits
  <2> QED
    BY <2>1, <2>5, <2>6, <2>7, <2>8
<1> QED
  BY <1>1, <1>2, WalkInductive, TypeCorrect, PTL DEF WalkIsSound
=============================================================================
