----------------------------- MODULE RestClient -----------------------------
(***************************************************************************)
(* The REST client (HttpClient::request and PaginatedIterator,             *)
(* src/rest/http_client.cpp).                                              *)
(*                                                                         *)
(* One user thread makes POST requests and walks a list with a             *)
(* PaginatedIterator, whose page fetches are GET requests.  Each request   *)
(* goes through the one retry loop.  A second thread may raise the abort   *)
(* signal at any moment.  The server answers, carries a request out        *)
(* without an answer reaching the client, or is not reached; the pages it  *)
(* holds and the links between them are chosen once, cycles included.  A   *)
(* page is identified with the query that fetches it.  Delays (back-off,   *)
(* Retry-After) only take time and are left out.                           *)
(***************************************************************************)
EXTENDS Naturals, FiniteSets, Sequences

CONSTANTS
  Page,           \* the pages of the list
  FirstPage,      \* the one the iterator is built for
  NoPage,         \* no links.next
  Status,         \* the HTTP statuses the server answers with
  Retries,        \* EffectiveOptions::retries
  RetryOnStatus   \* EffectiveOptions::retry_on_status

ASSUME PagesAssumption ==
  /\ IsFiniteSet(Page) /\ FirstPage \in Page /\ NoPage \notin Page
ASSUME OptionsAssumption ==
  Retries \in Nat /\ Status \subseteq Nat /\ RetryOnStatus \subseteq Nat

VARIABLES
  link, bare,   \* the server's list: links.next of a page, the pages without items
  abort,        \* *abort_signal
  op,           \* what the user is inside of
  phase,        \* where request() is: "idle", "check" or "send"
  attempt,      \* the local of request()
  params_, items, index_, done_, seen_next_,   \* PaginatedIterator; the page of each item
  fetched,      \* the pages whose answer was applied, in order
  hollow,       \* an answer without data and links was applied
  executed, silent, throttled,  \* of the last POST: how often carried out, unanswered, refused
  late          \* attempts sent after the abort signal was raised

server   == <<link, bare>>
loop     == <<op, phase, attempt>>
iterator == <<params_, items, index_, done_, seen_next_>>
post     == <<executed, silent, throttled>>
vars     == <<link, bare, abort, op, phase, attempt, params_, items, index_, done_,
              seen_next_, fetched, hollow, executed, silent, throttled, late>>

TypeOK ==
  /\ link \in [Page -> Page \union {NoPage}] /\ bare \subseteq Page
  /\ abort \in BOOLEAN /\ done_ \in BOOLEAN /\ hollow \in BOOLEAN
  /\ op \in {"none", "has_next", "next", "post"}
  /\ phase \in {"idle", "check", "send"} /\ (phase = "idle" <=> op = "none")
  /\ attempt \in 0..Retries + 1
  /\ params_ \in Page /\ seen_next_ \subseteq Page
  /\ items \in Seq(Page) /\ index_ \in 0..Len(items) /\ fetched \in Seq(Page)
  /\ executed \in 0..Retries + 1 /\ silent \in 0..Retries + 1
  /\ throttled \in 0..Retries + 1 /\ late \in Nat

Init ==
  /\ link \in [Page -> Page \union {NoPage}] /\ bare \in SUBSET Page
  /\ abort = FALSE /\ hollow = FALSE
  /\ op = "none" /\ phase = "idle" /\ attempt = 0
  /\ params_ = FirstPage /\ items = <<>> /\ index_ = 0
  /\ done_ = FALSE /\ seen_next_ = {}
  /\ fetched = <<>>
  /\ executed = 0 /\ silent = 0 /\ throttled = 0 /\ late = 0

-----------------------------------------------------------------------------
\* What request() and its callers do to the loop's state.

BeginRequest(o) == op' = o /\ phase' = "check" /\ attempt' = 0
Return          == op' = "none" /\ phase' = "idle" /\ attempt' = 0

-----------------------------------------------------------------------------
\* What the code could have been.

\* Every method is retried on every listed status.
StatusIsRetryable_AnyMethod(method, status) == status \in RetryOnStatus

\* The signal is looked at once, before the loop.
StartAttempt_ChecksOnce ==
  /\ phase = "check"
  /\ IF abort /\ attempt = 0 THEN Return
     ELSE phase' = "send" /\ attempt' = attempt + 1 /\ UNCHANGED op
  /\ UNCHANGED <<server, abort, iterator, fetched, hollow, post, late>>

\* A page without items ends the list.
FetchNext_StopsAtEmpty(contents, next) ==
  /\ items' = items \o contents
  /\ IF next = NoPage \/ contents = <<>> \/ next \in seen_next_
     THEN done_' = TRUE /\ UNCHANGED <<params_, seen_next_>>
     ELSE /\ params_' = next
          /\ seen_next_' = seen_next_ \union {next}
          /\ UNCHANGED done_

\* The attempts are compared with the wrong bound.
Exhausted_OffByOne == attempt > Retries + 1

-----------------------------------------------------------------------------
\* Statuses and the decisions request() takes on them.

IsSuccess(status) == status \in 200..299
Throttles == {429, 503}
Method == IF op = "post" THEN "POST" ELSE "GET"

\* status_is_retryable
StatusIsRetryable(method, status) ==
  status \in RetryOnStatus /\ (method = "GET" \/ status \in Throttles)

\* handle_response: a body that is empty, whatever the status, or not JSON
\* comes back as an object without data and links; the rest as the document,
\* or as a SignalWireRestError.
Outcome(status, body) ==
  IF status = 204 \/ body = "empty" THEN "hollow"
  ELSE IF ~IsSuccess(status)        THEN "error"
  ELSE IF body = "text"             THEN "hollow"
  ELSE                                   "document"

-----------------------------------------------------------------------------
\* The user's calls.  They come one at a time.

HasItem == index_ < Len(items)

\* post
Post ==
  /\ op = "none"
  /\ BeginRequest("post")
  /\ executed' = 0 /\ silent' = 0 /\ throttled' = 0
  /\ UNCHANGED <<server, abort, iterator, fetched, hollow, late>>

\* next with an item in memory.  has_next then changes nothing, and neither
\* does a call on an exhausted list.
TakeItem ==
  /\ op = "none" /\ HasItem
  /\ index_' = index_ + 1
  /\ UNCHANGED <<server, abort, loop, params_, items, done_, seen_next_,
                 fetched, hollow, post, late>>

\* has_next or next that needs the next page.
CallFetches ==
  /\ op = "none" /\ ~HasItem /\ ~done_
  /\ \E o \in {"has_next", "next"} : BeginRequest(o)
  /\ UNCHANGED <<server, abort, iterator, fetched, hollow, post, late>>

\* Another thread raises the abort signal.
RaiseAbort ==
  /\ ~abort
  /\ abort' = TRUE
  /\ UNCHANGED <<server, loop, iterator, fetched, hollow, post, late>>

-----------------------------------------------------------------------------
\* The retry loop of request().

\* The head of the loop: the abort signal throws, or the attempt is made.
StartAttempt ==
  /\ phase = "check"
  /\ IF abort THEN Return
              ELSE phase' = "send" /\ attempt' = attempt + 1 /\ UNCHANGED op
  /\ UNCHANGED <<server, abort, iterator, fetched, hollow, post, late>>

Exhausted == attempt > Retries

Again == phase' = "check" /\ UNCHANGED <<op, attempt>>

CountLate == late' = IF abort THEN late + 1 ELSE late

\* A POST the server carried out, or did not.  It is taken to carry out every
\* POST it answers with another status than a throttling one.
CountPost(carried, lost, refused) ==
  IF op = "post"
  THEN /\ executed'  = executed + (IF carried THEN 1 ELSE 0)
       /\ silent'    = silent + (IF lost THEN 1 ELSE 0)
       /\ throttled' = throttled + (IF refused THEN 1 ELSE 0)
  ELSE UNCHANGED post

\* The request is lost on the way, or its answer is.
AttemptUnanswered ==
  /\ phase = "send"
  /\ \E carried \in BOOLEAN : CountPost(carried, TRUE, FALSE)
  /\ IF Exhausted THEN Return ELSE Again
  /\ CountLate
  /\ UNCHANGED <<server, abort, iterator, fetched, hollow>>

\* An answer with a status the loop goes round for.
AttemptRetried(status) ==
  /\ phase = "send"
  /\ ~IsSuccess(status) /\ ~Exhausted /\ StatusIsRetryable(Method, status)
  /\ CountPost(status \notin Throttles, FALSE, status \in Throttles)
  /\ Again
  /\ CountLate
  /\ UNCHANGED <<server, abort, iterator, fetched, hollow>>

\* The part of fetch_next that follows get(): the items and the link of the
\* answer.  An answer that carries no link ends the list, and so does a link
\* that was followed before.
FetchNext(contents, next) ==
  /\ items' = items \o contents
  /\ IF next = NoPage \/ next \in seen_next_
     THEN done_' = TRUE /\ UNCHANGED <<params_, seen_next_>>
     ELSE /\ params_' = next
          /\ seen_next_' = seen_next_ \union {next}
          /\ UNCHANGED done_

\* The loop of has_next: fetch until there is an item, or no page is left;
\* then next takes the item.
ContinueIteration ==
  IF index_ < Len(items')
  THEN Return /\ index_' = index_ + (IF op = "next" THEN 1 ELSE 0)
  ELSE UNCHANGED index_ /\ IF done_' THEN Return ELSE BeginRequest(op)

ItemsOf(p) == IF p \in bare THEN <<>> ELSE <<p>>

\* The answer handle_response is given.
AttemptAnswered(status, body) ==
  /\ phase = "send"
  /\ IsSuccess(status) \/ Exhausted \/ ~StatusIsRetryable(Method, status)
  /\ CountPost(status \notin Throttles, FALSE, status \in Throttles)
  /\ CountLate
  /\ LET outcome == Outcome(status, body)
     IN IF op = "post" \/ outcome = "error"
        THEN Return /\ UNCHANGED <<iterator, fetched, hollow>>
        ELSE /\ IF outcome = "document"
                THEN FetchNext(ItemsOf(params_), link[params_])
                ELSE FetchNext(<<>>, NoPage)
             /\ fetched' = Append(fetched, params_)
             /\ hollow' = (hollow \/ outcome = "hollow")
             /\ ContinueIteration
  /\ UNCHANGED <<server, abort>>

Next ==
  \/ Post \/ TakeItem \/ CallFetches \/ RaiseAbort
  \/ StartAttempt \/ AttemptUnanswered
  \/ \E status \in Status : \/ AttemptRetried(status)
                            \/ \E body \in {"json", "text", "empty"} : AttemptAnswered(status, body)

Spec == Init /\ [][Next]_vars

-----------------------------------------------------------------------------
\* Correctness.

\* The server carries a POST out more than once only where an attempt went
\* unanswered: a status makes the loop go round for a POST only if it says
\* that the request was refused (status_is_retryable; a transport failure is
\* retried for every method).
PostRepeatedOnlyUnanswered == executed <= 1 + silent

\* After the abort signal is raised at most one more attempt is sent, the one
\* that had passed its check, over all retries, pages and later requests.
AbortStopsRequests == late <= 1

\* walk[n] is the page n links after the first.
walk[n \in 0..Cardinality(Page)] ==
  IF n = 0 THEN FirstPage
  ELSE IF walk[n - 1] = NoPage THEN NoPage ELSE link[walk[n - 1]]

Listed == {walk[n] : n \in 0..Cardinality(Page)} \ {NoPage}
Occurrences(p) == Cardinality({i \in DOMAIN items : items[i] = p})

\* A list walked to its end without a hollow answer has every item of every
\* linked page, pages behind an empty one and after failed fetches included;
\* only the first page's can be there twice, when a link leads back to it
\* (fetch_next enters links into seen_next_, not the query it starts with).
ListIsComplete ==
  done_ /\ ~hollow =>
    \A p \in Listed \ bare :
      /\ Occurrences(p) >= 1
      /\ Occurrences(p) > 1 => p = FirstPage /\ Occurrences(p) = 2

\* Whatever the links, cycles of empty pages included, the iterator fetches
\* each page once and the first at most twice: has_next cannot go round for ever.
NoEndlessWalk == Len(fetched) <= Cardinality(Page) + 1

\* The two together: every page is walked, and the walk ends.
WalkIsSound == ListIsComplete /\ NoEndlessWalk

\* What src/include/signalwire/rest/http_client.hpp:23 says of the client,
\* "Error thrown on non-2xx REST API responses."  handle_response looks at the
\* body first: with an empty one the answer is a success (Outcome), which ends
\* the list early.
ErrorStatusThrows ==
  \A status \in Status, body \in {"json", "text", "empty"} :
    ~IsSuccess(status) => Outcome(status, body) = "error"

=============================================================================
