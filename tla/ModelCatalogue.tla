---------------------------- MODULE ModelCatalogue ----------------------------
(***************************************************************************)
(* The model list that a Hub key and the Playground's picker see (api/     *)
(* gateway/models, api/gateway/catalogue, api/playground): what the        *)
(* account lists now, of what is current.  For ChatGPT and Claude the      *)
(* provider's documentation says what is current.  It is read over the     *)
(* network and kept for an hour in a cache all requests share; when it     *)
(* cannot be read an older copy serves, and before there is one the list   *)
(* that came with the program, which is all there is for the others.       *)
(*                                                                         *)
(* Copies of the documentation are numbered as the provider publishes      *)
(* them; 0 is the list of the program, which is a copy like any other.     *)
(***************************************************************************)
EXTENDS Naturals

CONSTANTS
  Models,      \* model ids
  Described,   \* Described[n]: the models of copy n
  Lists,       \* what an account may list at some moment
  Readers,     \* requests for the list at the same time
  Ttl,         \* ticks of DOCS_CACHE_TTL
  FetchLimit,  \* ticks a fetch may take
  MaxTime      \* bound: ticks

Copies == DOMAIN Described
Published == Copies \ {0}

ASSUME CatalogueAssumption ==
  /\ {0, 1} \subseteq Copies /\ Copies \subseteq Nat /\ \A n \in Copies : Described[n] \subseteq Models
  /\ \A l \in Lists : l \subseteq Models
  /\ Ttl \in Nat \ {0} /\ FetchLimit \in Nat /\ MaxTime \in Nat

VARIABLES
  time,
  docs,      \* the copy that is published now
  replaced,  \* history: replaced[n] is when copy n stopped being published
  docsCache, \* CLAUDE_DOCS_CACHE or OPENAI_DOCS_CACHE; copy 0 stands for Value::Null
  reader     \* what each request is doing

catalogueVars == <<time, docs, replaced, docsCache, reader>>

Never == MaxTime + 1

\* documented: the provider is one whose documentation is read.  live: what the account listed;
\* began: when the fetch began; got: the copy it read; failed: the fetch failed; early: history,
\* the cache was empty when the request looked there first.
Reader ==
  [stage : {"idle", "asking", "listed", "fetching", "reading", "answered"}, documented : BOOLEAN,
   live : SUBSET Models,
   began : 0..MaxTime, got : Copies, failed : BOOLEAN, early : BOOLEAN, shown : SUBSET Models]
NoReader ==
  [stage |-> "idle", documented |-> FALSE, live |-> {}, began |-> 0, got |-> 0, failed |-> FALSE,
   early |-> FALSE, shown |-> {}]

CatalogueInit ==
  /\ time = 0
  /\ docs = 1
  /\ replaced = [n \in Copies |-> Never]
  /\ docsCache = [at |-> 0, copy |-> 0]
  /\ reader = [r \in Readers |-> NoReader]

\* A fetch that would last longer has timed out; an answer is made when it is given.
CanWait(r) ==
  /\ reader[r].stage \in {"fetching", "reading"} => time < reader[r].began + FetchLimit
  /\ reader[r].stage # "answered"

TimePasses ==
  /\ time < MaxTime
  /\ \A r \in Readers : CanWait(r)
  /\ time' = time + 1
  /\ UNCHANGED <<docs, replaced, docsCache, reader>>

\* The provider publishes the next copy.
Publishes ==
  /\ docs + 1 \in Copies
  /\ docs' = docs + 1
  /\ replaced' = [replaced EXCEPT ![docs] = time]
  /\ UNCHANGED <<time, docsCache, reader>>

-----------------------------------------------------------------------------
\* subscriber_models of a key, models of the Playground

\* The account is asked for its list; ChatGPT's is asked at a second address when the first does not answer.
AsksAccount(r, documented) ==
  /\ reader[r].stage = "idle"
  /\ reader' = [reader EXCEPT ![r] = [NoReader EXCEPT !.stage = "asking", !.documented = documented]]
  /\ UNCHANGED <<time, docs, replaced, docsCache>>

AccountLists(r, list) ==
  /\ reader[r].stage = "asking"
  /\ reader' = [reader EXCEPT ![r].stage = "listed", ![r].live = list]
  /\ UNCHANGED <<time, docs, replaced, docsCache>>

\* Neither address answers, the account is refused, or what it sent cannot be read: the caller gets that error.
AccountFails(r) ==
  /\ reader[r].stage = "asking"
  /\ reader' = [reader EXCEPT ![r] = NoReader]
  /\ UNCHANGED <<time, docs, replaced, docsCache>>

-----------------------------------------------------------------------------
\* fetch_or_cached_openai_catalogue and its twin for Claude

Offered_described(r, n) == Described[n]
\* intersect_live_catalogue: the entries of the copy that the account lists.
Offered(r, n) == Described[n] \cap reader[r].live

Shown(r, n, failed) ==
  reader' = [reader EXCEPT ![r].stage = "answered", ![r].got = n, ![r].failed = failed,
                           ![r].shown = Offered(r, n)]

Fresh_ifAny == docsCache.copy # 0
Fresh == docsCache.copy # 0 /\ time - docsCache.at < Ttl

\* A fresh copy serves; otherwise the documentation is fetched, without a lock.
LooksInCache(r) ==
  /\ reader[r].stage = "listed" /\ reader[r].documented
  /\ IF Fresh THEN Shown(r, docsCache.copy, FALSE)
     ELSE reader' = [reader EXCEPT ![r].stage = "fetching", ![r].began = time,
                                   ![r].early = (docsCache.copy = 0)]
  /\ UNCHANGED <<time, docs, replaced, docsCache>>

\* The provider sends the copy that is published now.
SendsDocs(r) ==
  /\ reader[r].stage = "fetching"
  /\ reader' = [reader EXCEPT ![r].stage = "reading", ![r].got = docs]
  /\ UNCHANGED <<time, docs, replaced, docsCache>>

\* It has arrived and names models: it is kept from now on, and serves.
KeepsDocs(r) ==
  /\ reader[r].stage = "reading"
  /\ docsCache' = [at |-> time, copy |-> reader[r].got]
  /\ Shown(r, reader[r].got, FALSE)
  /\ UNCHANGED <<time, docs, replaced>>

Fallback_program(r) == 0
\* The copy in the cache, however old; the program's own list if there is none.
Fallback(r) == docsCache.copy

\* The fetch times out, is refused, or its text names no model.
FetchFails(r) ==
  /\ reader[r].stage \in {"fetching", "reading"}
  /\ Shown(r, Fallback(r), TRUE)
  /\ UNCHANGED <<time, docs, replaced, docsCache>>

\* A provider whose documentation is not read: the program's own list says what is current.
KnowsItself(r) ==
  /\ reader[r].stage = "listed" /\ ~reader[r].documented
  /\ Shown(r, 0, FALSE)
  /\ UNCHANGED <<time, docs, replaced, docsCache>>

\* The answer has been given.
Answered(r) ==
  /\ reader[r].stage = "answered"
  /\ reader' = [reader EXCEPT ![r] = NoReader]
  /\ UNCHANGED <<time, docs, replaced, docsCache>>

CatalogueNext ==
  \/ TimePasses
  \/ Publishes
  \/ \E r \in Readers :
       \/ \E documented \in BOOLEAN : AsksAccount(r, documented)
       \/ \E list \in Lists : AccountLists(r, list)
       \/ AccountFails(r)
       \/ LooksInCache(r)
       \/ SendsDocs(r)
       \/ KeepsDocs(r)
       \/ FetchFails(r)
       \/ KnowsItself(r)
       \/ Answered(r)

CatalogueSpec == CatalogueInit /\ [][CatalogueNext]_catalogueVars

-----------------------------------------------------------------------------
\* Properties

\* The cache and every request have their shape.
CatalogueTypeOK ==
  /\ time \in 0..MaxTime
  /\ docs \in Published
  /\ replaced \in [Copies -> 0..Never]
  /\ docsCache \in [at : 0..MaxTime, copy : Copies]
  /\ reader \in [Readers -> Reader]

\* "The live account catalogue decides availability; the current catalogue only supplies names": nothing is
\* shown that the account did not list.  For ChatGPT and Claude what is shown comes from a copy that was
\* published within the cache's time and a fetch's, unless this very fetch failed; and the program's own
\* list serves only a request that began before any copy had been read.
ShownIsCurrent ==
  \A r \in Readers : reader[r].stage = "answered" =>
    /\ reader[r].shown \subseteq reader[r].live
    /\ reader[r].documented =>
         /\ ~reader[r].failed => reader[r].got # 0 /\ replaced[reader[r].got] + Ttl + FetchLimit > time
         /\ reader[r].got = 0 => reader[r].early
=============================================================================
