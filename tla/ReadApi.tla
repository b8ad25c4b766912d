------------------------------- MODULE ReadApi -------------------------------
(***************************************************************************)
(* A page and the API behind it: the API answers GET /bonds/:id/orderbook  *)
(* from a cache of promises, the page polls, refreshes everything when its *)
(* own transaction is confirmed, and once more four seconds later.         *)
(*                                                                         *)
(* A call is one run of the handler's callback, from the promise to its    *)
(* end.  Several may be in flight, and one may end after a newer one is    *)
(* cached.  What the network holds is its version here: what an answer     *)
(* lists when its many reads see different moments is module BookRead.     *)
(*                                                                         *)
(* Time is in ticks as fine as the cache's time to live.                   *)
(*                                                                         *)
(* What KycDesk has under the same name carries Read here: both are parts  *)
(* of one process, and module ApiProofs reasons about both.                *)
(***************************************************************************)
EXTENDS Integers, FiniteSets

CONSTANTS
  Promises,      \* that may be alive at one time
  None,
  Ttl,           \* CACHE_TTL_MS
  BookCap,       \* 3 000
  SecondLook,    \* 4 000
  MaxChanges, MaxFailures, MaxTxs   \* bounds

ASSUME ApiAssumption ==
  /\ Ttl \in Nat \ {0} /\ BookCap \in Nat \ {0} /\ SecondLook \in Nat
  /\ MaxChanges \in Nat /\ MaxFailures \in Nat /\ MaxTxs \in Nat
  /\ None \notin Promises \cup Nat \cup [call : Promises, age : Nat]
\* "the API caches for a few seconds" (web/src/hooks/useTx.ts): four are more than its three.
ASSUME SecondLookAssumption == BookCap <= SecondLook

VARIABLES
  book,      \* the network: the version of the book
  cache,     \* the entry under book:<id>: a promise and its age, or None
  call,      \* the promises
  page,      \* what it shows, the promise it awaits, its timer
  failures, txs

readVars == <<book, cache, call, page, failures, txs>>

WholeTtl == Ttl   \* slip: the book is cached like everything else
BookTtl == IF Ttl < BookCap THEN Ttl ELSE BookCap

Pc == {"free", "reading", "read", "ok", "failed"}
NoCall == [pc |-> "free", body |-> None, from |-> 0]   \* from (history): the version at its begin

\* confirmed (history): the version when its last transaction was; second: it last
\* asked on its second look.
Page == [shows : Nat \cup {None}, awaits : Promises \cup {None},
         timer : 0 .. SecondLook \cup {None}, confirmed : Nat, second : BOOLEAN]

ReadInit ==
  /\ book = 0
  /\ cache = None
  /\ call = [c \in Promises |-> NoCall]
  /\ page = [shows |-> None, awaits |-> None, timer |-> None, confirmed |-> 0,
             second |-> FALSE]
  /\ failures = 0 /\ txs = 0

\* Somebody places, cancels or fills, or an order expires.
Change ==
  /\ book < MaxChanges /\ book' = book + 1
  /\ UNCHANGED <<cache, call, page, failures, txs>>

-----------------------------------------------------------------------------
(* The API. *)

FreshForever == cache # None   \* slip: the entry never expires
Fresh == cache # None /\ cache.age < BookTtl

\* A settled promise that is neither cached nor awaited is gone.
Swept(calls, entry, awaited) ==
  [c \in Promises |->
     IF calls[c].pc \in {"ok", "failed"} /\ (entry = None \/ entry.call # c) /\ awaited # c
     THEN NoCall ELSE calls[c]]

\* cached(): a fresh entry's promise is shared, else a new one is made and kept
\* before anything is awaited.  c answers, the page awaits w afterwards.
Request(c, w) ==
  \/ /\ Fresh /\ c = cache.call
     /\ UNCHANGED cache /\ call' = Swept(call, cache, w)
  \/ /\ ~Fresh /\ call[c].pc = "free"
     /\ cache' = [call |-> c, age |-> 0]
     /\ call' = Swept([call EXCEPT ![c] = [pc |-> "reading", body |-> None, from |-> book]],
                      cache', w)

\* The promise's reads, and its end.
ReadBook(c) ==
  /\ call[c].pc = "reading"
  /\ call' = [call EXCEPT ![c] = [@ EXCEPT !.pc = "read", !.body = book]]
  /\ UNCHANGED <<book, cache, page, failures, txs>>

Resolve(c) ==
  /\ call[c].pc = "read"
  /\ call' = Swept([call EXCEPT ![c].pc = "ok"], cache, page.awaits)
  /\ UNCHANGED <<book, cache, page, failures, txs>>

KeepFailure(c) == cache   \* slip: a rejected promise stays cached
\* The key is deleted, whichever promise is under it by now.
Forget(c) == None

Refused(c) ==
  IF page.awaits # c THEN page ELSE [page EXCEPT !.awaits = None]

\* A read fails or times out, of the network or of the mirror node: 502 to whoever
\* awaits it; the page goes on showing what it shows.
Reject(c) ==
  /\ failures < MaxFailures /\ failures' = failures + 1
  /\ call[c].pc \in {"reading", "read"}
  /\ cache' = Forget(c)
  /\ page' = Refused(c)
  /\ call' = Swept([call EXCEPT ![c].pc = "failed"], cache', page'.awaits)
  /\ UNCHANGED <<book, txs>>

\* Somebody else's page, or an agent.  The bound on the promises leaves one to the
\* page.
Agent ==
  /\ page.awaits # None \/ Fresh \/ Cardinality({c \in Promises : call[c].pc = "free"}) > 1
  /\ \E c \in Promises : Request(c, page.awaits)
  /\ UNCHANGED <<book, page, failures, txs>>

-----------------------------------------------------------------------------
(* The page. *)

\* The poll, and the retry of a failed one: the page does not ask while it waits.
Poll ==
  /\ page.awaits = None
  /\ \E c \in Promises : Request(c, c) /\ page' = [page EXCEPT !.awaits = c, !.second = FALSE]
  /\ UNCHANGED <<book, failures, txs>>

\* useTx: the page's transaction is confirmed; invalidateQueries supersedes a
\* request on its way, whose answer nobody awaits then.
Confirmed ==
  /\ txs < MaxTxs /\ txs' = txs + 1
  /\ page.timer = None
  /\ \E c \in Promises :
       /\ Request(c, c)
       /\ page' = [page EXCEPT !.awaits = c, !.timer = SecondLook, !.confirmed = book,
                               !.second = FALSE]
  /\ UNCHANGED <<book, failures>>

\* setTimeout(invalidateQueries, 4000).
LookAgain ==
  /\ page.timer = 0
  /\ \E c \in Promises :
       /\ Request(c, c)
       /\ page' = [page EXCEPT !.awaits = c, !.timer = None, !.second = TRUE]
  /\ UNCHANGED <<book, failures, txs>>

Receive ==
  /\ page.awaits # None /\ call[page.awaits].pc = "ok"
  /\ page' = [page EXCEPT !.shows = call[page.awaits].body, !.awaits = None]
  /\ call' = Swept(call, cache, None)
  /\ UNCHANGED <<book, cache, failures, txs>>

AgainAndAgain(t) == IF t = None THEN None ELSE t - 1   \* slip: an interval for the timeout
Down(t) == IF t \in {None, 0} THEN t ELSE t - 1

\* An entry that is too old need not count on.
TimePasses ==
  /\ cache' = IF cache = None \/ cache.age >= BookTtl THEN cache ELSE [cache EXCEPT !.age = @ + 1]
  /\ page' = [page EXCEPT !.timer = Down(@)]
  /\ UNCHANGED <<book, call, failures, txs>>

ReadNext ==
  \/ Change
  \/ \E c \in Promises : ReadBook(c) \/ Resolve(c) \/ Reject(c)
  \/ Agent \/ Poll \/ Confirmed \/ LookAgain \/ Receive
  \/ TimePasses

ReadSpec == ReadInit /\ [][ReadNext]_readVars

\* Every read ends one way or the other, the page polls while it is open
\* (refetchInterval) and its timer fires, answers arrive and time passes.
FairReadSpec ==
  /\ ReadSpec
  /\ \A c \in Promises : WF_readVars(ReadBook(c)) /\ WF_readVars(Resolve(c))
  /\ WF_readVars(Poll) /\ WF_readVars(LookAgain) /\ WF_readVars(Receive) /\ WF_readVars(TimePasses)

-----------------------------------------------------------------------------
(* Properties. *)

ReadTypeOK ==
  /\ book \in Nat
  /\ cache \in {None} \cup [call : Promises, age : 0 .. BookTtl]
  /\ call \in [Promises -> [pc : Pc, body : Nat \cup {None}, from : Nat]]
  /\ page \in Page
  /\ \A c \in Promises : call[c].pc \in {"read", "ok"} => call[c].body \in call[c].from .. book

\* A failure is never served from the cache (api/src/index.ts: "failures are not
\* cached"), nobody is left waiting for it, and a promise somebody holds is alive.
FailureIsForgotten ==
  /\ \A c \in Promises : call[c].pc = "failed" => page.awaits # c /\ (cache = None \/ cache.call # c)
  /\ cache # None => call[cache.call].pc # "free"
  /\ page.awaits # None => call[page.awaits].pc # "free"

\* What the page gets at its second look was read after its transaction was
\* confirmed, whoever's request it shares: four seconds outlast the cache of the
\* book (web/src/hooks/useTx.ts: "the API caches for a few seconds").
SecondLookIsNew ==
  page.second /\ page.awaits # None => call[page.awaits].from >= page.confirmed

\* When the book has come to rest, the page shows it as it is, whatever failed, was
\* cached or superseded before.
PageCatchesUp == <>[](page.shows = book)

\* What the cache holds is alive and good: a failure leaves it and its waiters.
CacheIsSound == ReadTypeOK /\ FailureIsForgotten
=============================================================================
