-------------------------- MODULE TelegramChatProofs --------------------------
(***************************************************************************)
(* Proofs about the Telegram bot's conversations, for any people, products,*)
(* handlers and broadcasts: the stock room is written to by updates that   *)
(* were an owner's when they were sent, for what an owner's button asked,  *)
(* and nobody hears of stock that was not put on the shelf.                *)
(*                                                                         *)
(* ChatInv follows what was asked for from the button through the session  *)
(* to the handler that writes, and counts the news that is under way: for  *)
(* each person and product, what was heard, the broadcasts that still owe  *)
(* it and the replies that will start one are together no more than the    *)
(* times stock was added.                                                  *)
(***************************************************************************)
EXTENDS TelegramChat, FiniteSetTheorems, TLAPS

\* What a handler under way knows of its update.
HandlerFits(h) ==
  /\ h.stage # "idle" => h.update \in Messages
  /\ h.stage = "idle" => h.deliveries = 0
  /\ h.stage = "waiting" => h.deliveries < MaxDeliveries
  /\ h.stage \in {"idle", "waiting"} => h.act = "none"
  /\ h.act = "expect" => /\ h.update.op \in {"catalog", "restock", "price", "new"}
                         /\ h.product = h.update.about
  /\ h.act \in StockWrites => h.update.owner = TRUE

\* What a button has asked for if handler h writes.
WrittenBy(h) ==
  CASE h.act = "restock" -> [kind |-> "restock", product |-> h.product]
    [] h.act = "adjust" -> [kind |-> "price", product |-> h.product]
    [] h.act \in {"create", "createEmpty"} -> [kind |-> "new", product |-> NoProduct]

\* What a handler will await of its sender, or writes for a plain message, is among a, what was asked for.
WasAsked(h, a) ==
  /\ h.act \in StockWrites /\ h.update.op = "text" => <<h.update.by, WrittenBy(h)>> \in a
  /\ h.act = "expect" /\ h.update.op # "catalog" =>
       <<h.update.by, [kind |-> h.update.op, product |-> h.product]>> \in a

\* So is what the sessions q await of a person.
AwaitedWasAsked(q, a) ==
  \A x \in People : q[x].kind \in {"restock", "price", "new"} =>
    <<x, q[x]>> \in a /\ (q[x].kind = "new" => q[x].product = NoProduct)

\* Replies and broadcasts of which x will hear, or may: that p is on the shelf again.
Telling(p) == {w \in Handlers : worker[w].stage = "called" /\ Announces(w) /\ worker[w].product = p}

Owing(x, p) ==
  {b \in Casts : /\ cast[b].of = p
                 /\ cast[b].stage = "spawned" \/ (cast[b].stage = "sending" /\ x \in cast[b].owed)}

\* Each of them is about units of its own.
NewsIsBacked(x, p) == heard[x][p] + Cardinality(Owing(x, p)) + Cardinality(Telling(p)) <= added[p]

ChatInv ==
  /\ ChatTypeOK
  /\ \A w \in Handlers : HandlerFits(worker[w]) /\ WasAsked(worker[w], asks)
  /\ AwaitedWasAsked(pending, asks)
  /\ \A x \in People, p \in Products : NewsIsBacked(x, p)
-----------------------------------------------------------------------------
\* The fields of handlers, broadcasts and counters.
LEMMA ChatTypes ==
  ASSUME ChatTypeOK
  PROVE  /\ Owners \subseteq People /\ NoOne \notin People /\ NoProduct \notin Products
         /\ MaxUpdates \in Nat /\ MaxUpdates > 0 /\ MaxDeliveries \in Nat /\ MaxDeliveries > 0
         /\ \A x \in People : pending[x] \in Pending
         /\ \A w \in Handlers :
              /\ worker[w] \in Worker /\ worker[w].update \in Update /\ worker[w].deliveries \in Nat
              /\ worker[w].deliveries <= MaxDeliveries /\ worker[w].act \in Acts
              /\ worker[w].product \in Products \cup {NoProduct}
         /\ \A b \in Casts : cast[b] \in Cast /\ cast[b].owed \subseteq People
         /\ \A p \in Products : added[p] \in Nat
         /\ \A x \in People, p \in Products : heard[x][p] \in Nat
  BY TelegramChatAssumption DEF ChatTypeOK, Worker, Cast

\* What was asked for stays asked for.
LEMMA AskedStays ==
  ASSUME NEW h, NEW a, NEW b, a \subseteq b, WasAsked(h, a)
  PROVE  WasAsked(h, b)
  BY DEF WasAsked

\* A handler that neither writes nor awaits.
LEMMA NothingAsked ==
  ASSUME NEW h, NEW a, h.act = "none"
  PROVE  WasAsked(h, a)
  BY DEF WasAsked, StockWrites

\* A message comes from a person and is about a product or none.
LEMMA MessageFields ==
  ASSUME NEW m \in Messages
  PROVE  /\ m \in Update /\ m.by \in People /\ m.op \in Taps \cup {"text"}
         /\ m.about \in Products \cup {NoProduct} /\ m.owner \in BOOLEAN
         /\ m.op = "new" => m.about = NoProduct
  BY DEF Messages, Update, About

\* The numbers of replies and broadcasts are numbers.
LEMMA NewsIsFinite ==
  ASSUME NEW x, NEW p
  PROVE  /\ IsFiniteSet(Owing(x, p)) /\ Cardinality(Owing(x, p)) \in Nat
         /\ IsFiniteSet(Telling(p)) /\ Cardinality(Telling(p)) \in Nat
         /\ IsFiniteSet(Owing(x, p)') /\ Cardinality(Owing(x, p)') \in Nat
         /\ IsFiniteSet(Telling(p)') /\ Cardinality(Telling(p)') \in Nat
<1>1. IsFiniteSet(Casts) /\ IsFiniteSet(Handlers)
  BY TelegramChatAssumption
<1>2. /\ Owing(x, p) \subseteq Casts /\ Telling(p) \subseteq Handlers
      /\ Owing(x, p)' \subseteq Casts /\ Telling(p)' \subseteq Handlers
  BY DEF Owing, Telling
<1>3. IsFiniteSet(Owing(x, p)) /\ IsFiniteSet(Telling(p)) /\ IsFiniteSet(Owing(x, p)') /\ IsFiniteSet(Telling(p)')
  BY <1>1, <1>2, FS_Subset
<1> QED
  BY <1>3, FS_CardinalityType

\* No news comes up, and none that is told was not owed.
LEMMA NewsStaysBacked ==
  ASSUME ChatTypeOK, NEW x \in People, NEW p \in Products, NewsIsBacked(x, p),
         heard'[x][p] = heard[x][p], added'[p] \in Nat, added[p] <= added'[p],
         Owing(x, p)' \subseteq Owing(x, p), Telling(p)' \subseteq Telling(p)
  PROVE  NewsIsBacked(x, p)'
<1>1. Cardinality(Owing(x, p)') <= Cardinality(Owing(x, p)) /\ Cardinality(Telling(p)') <= Cardinality(Telling(p))
  BY NewsIsFinite, FS_Subset
<1> DEFINE a == Cardinality(Owing(x, p))
           b == Cardinality(Telling(p))
           c == Cardinality(Owing(x, p)')
           d == Cardinality(Telling(p)')
<1>2. /\ a \in Nat /\ b \in Nat /\ c \in Nat /\ d \in Nat /\ heard[x][p] \in Nat /\ added[p] \in Nat
      /\ c <= a /\ d <= b /\ heard[x][p] + a + b <= added[p]
  BY <1>1, NewsIsFinite, ChatTypes DEF NewsIsBacked
<1> HIDE DEF a, b, c, d
<1>3. heard[x][p] + c + d <= added'[p]
  BY <1>2
<1> QED
  BY <1>3 DEF NewsIsBacked, c, d

\* A handler without an update.
LEMMA IdleHandlerFits ==
  /\ IdleHandler \in Worker /\ IdleHandler.stage = "idle" /\ IdleHandler.act = "none"
  /\ IdleHandler.deliveries = 0 /\ HandlerFits(IdleHandler)
<1>1. NoUpdate \in Update
  BY DEF NoUpdate, Update
<1>2. MaxDeliveries \in Nat
  BY TelegramChatAssumption
<1> QED
  BY <1>1, <1>2 DEF IdleHandler, Worker, Acts, StockWrites, HandlerFits

\* A broadcast that has not begun.
LEMMA NoCastFits == NoCast \in Cast /\ NoCast.stage = "none" /\ NoCast.of = NoProduct /\ NoCast.owed = {}
  BY DEF NoCast, Cast

\* No update has come yet, and nobody has heard anything.
LEMMA ChatInitInv == ChatInit => ChatInv
<1> SUFFICES ASSUME ChatInit PROVE ChatInv
  OBVIOUS
<1>1. Nothing \in Pending
  BY DEF Nothing, Pending
<1>2. ChatTypeOK
  BY <1>1, IdleHandlerFits, NoCastFits, TelegramChatAssumption DEF ChatInit, ChatTypeOK
<1>3. \A w \in Handlers : HandlerFits(worker[w]) /\ WasAsked(worker[w], asks)
  BY IdleHandlerFits, NothingAsked DEF ChatInit
<1>5. AwaitedWasAsked(pending, asks)
  BY DEF ChatInit, AwaitedWasAsked, Nothing
<1>4. ASSUME NEW x \in People, NEW p \in Products
      PROVE  NewsIsBacked(x, p)
  <2>1. Owing(x, p) = {} /\ Telling(p) = {}
    BY IdleHandlerFits, NoCastFits DEF ChatInit, Owing, Telling
  <2>2. Cardinality({}) = 0
    BY FS_EmptySet
  <2>3. heard[x][p] = 0 /\ added[p] = 0
    BY DEF ChatInit
  <2> QED
    BY <2>1, <2>2, <2>3 DEF NewsIsBacked
<1> QED
  BY <1>2, <1>3, <1>4, <1>5 DEF ChatInv

\* What is said of handlers is said of the records they have.
LEMMA HandlersKeep ==
  ASSUME \A v \in Handlers : HandlerFits(worker'[v]) /\ WasAsked(worker'[v], asks')
  PROVE  (\A v \in Handlers : HandlerFits(worker[v]) /\ WasAsked(worker[v], asks))'
  BY DEF HandlerFits, WasAsked, WrittenBy

\* A handler moves on without any news.
LEMMA HandlerMoves ==
  ASSUME ChatInv, NEW w \in Handlers, NEW h \in Worker, worker' = [worker EXCEPT ![w] = h], HandlerFits(h),
         h.stage = "called" => h.result # "done" \/ h.act \notin {"restock", "create"},
         pending' \in [People -> Pending], owners' = owners, product' \in [Products -> BOOLEAN],
         sent' \in 0..MaxUpdates, contacts' \subseteq People, UNCHANGED <<cast, added, heard>>,
         asks \subseteq asks', asks' \subseteq People \X Pending, WasAsked(h, asks'),
         AwaitedWasAsked(pending', asks')
  PROVE  ChatInv'
<1>1. \A v \in Handlers : worker'[v] = IF v = w THEN h ELSE worker[v]
  BY DEF ChatInv, ChatTypeOK
<1>2. ChatTypeOK'
  BY DEF ChatInv, ChatTypeOK
<1>3. ASSUME NEW v \in Handlers
      PROVE  HandlerFits(worker'[v]) /\ WasAsked(worker'[v], asks')
  BY <1>1, AskedStays DEF ChatInv
<1>4. ASSUME NEW x \in People, NEW p \in Products
      PROVE  NewsIsBacked(x, p)'
  <2>1. Telling(p)' \subseteq Telling(p)
    BY <1>1 DEF Telling, Announces
  <2>2. Owing(x, p)' = Owing(x, p)
    BY DEF Owing
  <2>3. added[p] \in Nat /\ added'[p] = added[p] /\ added[p] <= added[p] /\ heard'[x][p] = heard[x][p]
    BY ChatTypes DEF ChatInv
  <2> QED
    BY <2>1, <2>2, <2>3, NewsStaysBacked DEF ChatInv
<1> QED
  BY <1>2, <1>3, <1>4, HandlersKeep DEF ChatInv

\* A name changes hands, or what is awaited of a person is forgotten.
LEMMA PeopleKeep ==
  ASSUME ChatInv, NEW x \in People, OwnershipChanges(x) \/ PendingExpires(x)
  PROVE  ChatInv'
<1>1. Nothing \in Pending
  BY DEF Nothing, Pending
<1>2. ChatTypeOK' /\ UNCHANGED <<worker, cast, added, heard, asks>>
  BY <1>1 DEF OwnershipChanges, PendingExpires, ChatInv, ChatTypeOK
<1>3. \A w \in Handlers : HandlerFits(worker'[w]) /\ WasAsked(worker'[w], asks')
  BY <1>2 DEF ChatInv
<1>5. AwaitedWasAsked(pending', asks')
  BY <1>2 DEF OwnershipChanges, PendingExpires, ChatInv, ChatTypeOK, AwaitedWasAsked, Nothing
<1>4. ASSUME NEW y \in People, NEW p \in Products
      PROVE  NewsIsBacked(y, p)'
  BY <1>2 DEF ChatInv, NewsIsBacked, Owing, Telling, Announces
<1>6. AwaitedWasAsked(pending, asks)'
  BY <1>5 DEF AwaitedWasAsked
<1> QED
  BY <1>2, <1>3, <1>4, <1>6, HandlersKeep DEF ChatInv

\* An update is sent, and waits to be delivered.
LEMMA SendsKeeps ==
  ASSUME ChatInv, NEW w \in Handlers, NEW m \in Messages, Sends(w, m)
  PROVE  ChatInv'
<1> DEFINE h == [IdleHandler EXCEPT !.stage = "waiting", !.update = m]
<1>1. /\ worker' = [worker EXCEPT ![w] = h] /\ sent' = sent + 1 /\ sent < MaxUpdates
      /\ UNCHANGED <<pending, owners, product, contacts, cast, added, heard, asks>>
  BY DEF Sends
<1>2. m \in Update /\ MaxDeliveries \in Nat /\ MaxDeliveries > 0 /\ MaxUpdates \in Nat /\ sent \in 0..MaxUpdates
  BY MessageFields, ChatTypes DEF ChatInv, ChatTypeOK
<1>3. h \in Worker /\ h.stage = "waiting" /\ h.update = m /\ h.deliveries = 0 /\ h.act = "none"
  BY <1>2, IdleHandlerFits DEF Worker
<1> HIDE DEF h
<1>4. HandlerFits(h)
  BY <1>2, <1>3 DEF HandlerFits, StockWrites
<1>5. WasAsked(h, asks')
  BY <1>3, NothingAsked
<1>6. /\ sent' \in 0..MaxUpdates /\ contacts' \subseteq People /\ product' \in [Products -> BOOLEAN]
      /\ pending' \in [People -> Pending] /\ asks \subseteq asks' /\ asks' \subseteq People \X Pending
      /\ AwaitedWasAsked(pending', asks')
  BY <1>1, <1>2 DEF ChatInv, ChatTypeOK
<1> QED
  BY <1>1, <1>3, <1>4, <1>5, <1>6, HandlerMoves

\* What is delivered is the message a handler waits with.
LEMMA DeliverableFits ==
  ASSUME ChatInv, NEW w \in Handlers, NEW m \in Deliverable(w)
  PROVE  /\ m \in Messages /\ worker[w].deliveries < MaxDeliveries
         /\ Deliver(w, m) => sent' \in 0..MaxUpdates /\ contacts' \subseteq People
<1>1. HandlerFits(worker[w]) /\ sent \in 0..MaxUpdates /\ contacts \subseteq People
  BY DEF ChatInv, ChatTypeOK
<1>2. worker[w].stage = "waiting" /\ m = worker[w].update
  BY DEF Deliverable
<1>3. m \in Messages /\ worker[w].deliveries < MaxDeliveries
  BY <1>1, <1>2 DEF HandlerFits
<1>4. m.by \in People
  BY <1>3, MessageFields
<1>5. Deliver(w, m) => sent' \in 0..MaxUpdates /\ contacts' \subseteq People
  BY <1>1, <1>4 DEF Deliver
<1> QED
  BY <1>3, <1>5

\* The handler of a message that makes a call.
Calling(w, m, act, p) ==
  [stage |-> "calling", update |-> m, deliveries |-> worker[w].deliveries + 1,
   act |-> act, product |-> p, result |-> "done"]

\* What such a call may be: it is only awaited what the tap was about, and only an owner's update writes.
CallFits(m, act, p) ==
  /\ act \in Acts /\ p \in Products \cup {NoProduct}
  /\ act = "expect" => m.op \in {"catalog", "restock", "price", "new"} /\ p = m.about
  /\ act \in StockWrites => m.owner = TRUE

\* A handler that calls the dashboard with what it was asked.
LEMMA CallingFits ==
  ASSUME ChatInv, NEW w \in Handlers, NEW m \in Deliverable(w), NEW act, NEW p, CallFits(m, act, p),
         NEW h, h = Calling(w, m, act, p)
  PROVE  /\ h \in Worker /\ HandlerFits(h) /\ h.stage = "calling" /\ h.act = act
         /\ h.update = m /\ h.product = p
<1> DEFINE n == worker[w].deliveries + 1
<1>0. /\ act \in Acts /\ p \in Products \cup {NoProduct}
      /\ act = "expect" => m.op \in {"catalog", "restock", "price", "new"} /\ p = m.about
      /\ act \in StockWrites => m.owner = TRUE
  BY DEF CallFits
<1>1. m \in Messages /\ m \in Update /\ n \in 0..MaxDeliveries
  BY DeliverableFits, MessageFields, ChatTypes DEF ChatInv
<1>2. h = [stage |-> "calling", update |-> m, deliveries |-> n, act |-> act, product |-> p, result |-> "done"]
  BY DEF Calling
<1> HIDE DEF n
<1>3. h \in Worker
  BY <1>0, <1>1, <1>2 DEF Worker
<1>4. HandlerFits(h)
  BY <1>0, <1>1, <1>2 DEF HandlerFits
<1> QED
  BY <1>2, <1>3, <1>4

\* A tap is answered, or the handler calls the dashboard.
LEMMA TapKeeps ==
  ASSUME ChatInv, NEW w \in Handlers, NEW m \in Deliverable(w), Tap(w, m)
  PROVE  ChatInv'
<1>1. /\ m.op \in Taps /\ MayTap(m) /\ Deliver(w, m)
      /\ UNCHANGED <<owners, product, cast, added, heard>> /\ asks' = asks \cup AsksFor(m)
      /\ pending' = IF m.op = "admin" THEN [pending EXCEPT ![m.by] = Nothing] ELSE pending
  BY DEF Tap
<1>2. PICK act \in ActsOfTap(m.op) : worker' = [worker EXCEPT ![w] = Calling(w, m, act, m.about)]
  BY DEF Tap, Calls, Calling, ChatInv, ChatTypeOK
<1>3. m.by \in People /\ m.about \in Products \cup {NoProduct} /\ m.owner \in BOOLEAN
  BY DeliverableFits, MessageFields
<1>4. /\ act \in Acts
      /\ act = "expect" => m.op \in {"catalog", "restock", "price", "new"}
      /\ act \in StockWrites => m.op = "toggle"
  BY <1>1 DEF ActsOfTap, Taps, Acts, StockWrites
<1>5. act \in StockWrites => m.owner = TRUE
  BY <1>1, <1>3, <1>4 DEF MayTap
<1> PICK h : h = Calling(w, m, act, m.about)
  OBVIOUS
<1>6. /\ h \in Worker /\ HandlerFits(h) /\ h.stage = "calling" /\ h.act = act /\ h.update = m
      /\ h.product = m.about
  <2>1. CallFits(m, act, m.about)
    BY <1>3, <1>4, <1>5 DEF CallFits
  <2> QED
    BY <2>1, CallingFits
<1>7. pending' \in [People -> Pending]
  BY <1>1, <1>3 DEF ChatInv, ChatTypeOK, Nothing, Pending
<1>8. sent' \in 0..MaxUpdates /\ contacts' \subseteq People /\ product' \in [Products -> BOOLEAN]
  BY <1>1, DeliverableFits DEF ChatInv, ChatTypeOK
<1>9. worker' = [worker EXCEPT ![w] = h]
  BY <1>2
<1>10. asks \subseteq asks' /\ asks' \subseteq People \X Pending
  BY <1>1, <1>3 DEF ChatInv, ChatTypeOK, AsksFor, Pending
<1>11. WasAsked(h, asks')
  <2>1. act = "expect" /\ m.op # "catalog" => <<m.by, [kind |-> m.op, product |-> m.about]>> \in asks'
    BY <1>1, <1>4 DEF AsksFor
  <2>2. act \in StockWrites => m.op # "text"
    BY <1>4
  <2> QED
    BY <1>6, <2>1, <2>2 DEF WasAsked
<1>12. AwaitedWasAsked(pending', asks')
  BY <1>1, <1>10 DEF AwaitedWasAsked, ChatInv, ChatTypeOK, Nothing
<1> QED
  BY <1>1, <1>6, <1>7, <1>8, <1>9, <1>10, <1>11, <1>12, HandlerMoves

\* A text is what was awaited of its sender, or nothing.
LEMMA TextKeeps ==
  ASSUME ChatInv, NEW w \in Handlers, NEW m \in Deliverable(w), Text(w, m)
  PROVE  ChatInv'
<1> DEFINE awaited == pending[m.by]
           p == IF awaited.kind = "new" THEN m.about ELSE awaited.product
<1>1. /\ MayWrite(m, awaited.kind) /\ Deliver(w, m)
      /\ UNCHANGED <<pending, owners, product, cast, added, heard, asks>>
  BY DEF Text
<1>2. PICK act \in ActsOfText(awaited.kind) : worker' = [worker EXCEPT ![w] = Calling(w, m, act, p)]
  BY DEF Text, Calls, Calling, ChatInv, ChatTypeOK
<1>3. m.by \in People /\ m.about \in Products \cup {NoProduct} /\ m.owner \in BOOLEAN
  BY DeliverableFits, MessageFields
<1>4. awaited \in Pending
  BY <1>3, ChatTypes DEF ChatInv
<1>5. /\ awaited.kind \in {"none", "quantity", "restock", "price", "new"}
      /\ awaited.product \in Products \cup {NoProduct}
      /\ awaited = [kind |-> awaited.kind, product |-> awaited.product]
  BY <1>4 DEF Pending
<1>6. awaited.kind \in {"restock", "price", "new"} =>
        <<m.by, awaited>> \in asks /\ (awaited.kind = "new" => awaited.product = NoProduct)
  BY <1>3 DEF ChatInv, AwaitedWasAsked
<1> HIDE DEF awaited
<1>7. p \in Products \cup {NoProduct} /\ (awaited.kind # "new" => p = awaited.product)
  BY <1>3, <1>5
<1>8. /\ act \in Acts /\ act # "expect"
      /\ act \in StockWrites => awaited.kind \in {"restock", "price", "new"} /\ m.owner = TRUE
      /\ act = "restock" => awaited.kind = "restock"
      /\ act = "adjust" => awaited.kind = "price"
      /\ act \in {"create", "createEmpty"} => awaited.kind = "new"
  BY <1>1, <1>3, <1>5 DEF ActsOfText, MayWrite, Acts, StockWrites
<1> PICK h : h = Calling(w, m, act, p)
  OBVIOUS
<1> HIDE DEF p
<1>9. /\ h \in Worker /\ HandlerFits(h) /\ h.stage = "calling" /\ h.act = act /\ h.update = m
      /\ h.product = p
  <2>1. CallFits(m, act, p)
    BY <1>7, <1>8 DEF CallFits
  <2> QED
    BY <2>1, CallingFits
<1>10. /\ sent' \in 0..MaxUpdates /\ contacts' \subseteq People
       /\ product' \in [Products -> BOOLEAN] /\ pending' \in [People -> Pending]
       /\ asks \subseteq asks' /\ asks' \subseteq People \X Pending /\ AwaitedWasAsked(pending', asks')
  BY <1>1, DeliverableFits DEF ChatInv, ChatTypeOK
<1>11. worker' = [worker EXCEPT ![w] = h]
  BY <1>2
<1>12. act \in StockWrites => <<m.by, WrittenBy(h)>> \in asks
  <2>1. act \in StockWrites => WrittenBy(h) = awaited
    <3>1. CASE act = "restock"
      BY <1>5, <1>7, <1>8, <1>9, <3>1 DEF WrittenBy
    <3>2. CASE act = "adjust"
      BY <1>5, <1>7, <1>8, <1>9, <3>2 DEF WrittenBy
    <3>3. CASE act \in {"create", "createEmpty"}
      <4>1. WrittenBy(h) = [kind |-> "new", product |-> NoProduct]
        BY <1>9, <3>3 DEF WrittenBy
      <4>2. awaited.kind = "new" /\ awaited.product = NoProduct
        BY <1>6, <1>8, <3>3
      <4> QED
        BY <1>5, <4>1, <4>2
    <3> QED
      BY <3>1, <3>2, <3>3 DEF StockWrites
  <2> QED
    BY <1>6, <1>8, <2>1
<1>13. WasAsked(h, asks')
  BY <1>1, <1>8, <1>9, <1>12 DEF WasAsked
<1> QED
  BY <1>1, <1>9, <1>10, <1>11, <1>13, HandlerMoves

\* An update nobody acts on.
LEMMA IgnoreKeeps ==
  ASSUME ChatInv, NEW w \in Handlers, NEW m \in Deliverable(w), Ignore(w, m)
  PROVE  ChatInv'
<1>1. /\ Deliver(w, m) /\ worker' = [worker EXCEPT ![w] = IdleHandler]
      /\ UNCHANGED <<pending, owners, product, cast, added, heard, asks>>
  BY DEF Ignore
<1>2. /\ sent' \in 0..MaxUpdates /\ contacts' \subseteq People
      /\ product' \in [Products -> BOOLEAN] /\ pending' \in [People -> Pending]
      /\ asks \subseteq asks' /\ asks' \subseteq People \X Pending /\ AwaitedWasAsked(pending', asks')
  BY <1>1, DeliverableFits DEF ChatInv, ChatTypeOK
<1>3. WasAsked(IdleHandler, asks')
  BY IdleHandlerFits, NothingAsked
<1> QED
  BY <1>1, <1>2, <1>3, IdleHandlerFits, HandlerMoves

\* The handler of w once its call came back.
Called(w, result) == [worker[w] EXCEPT !.stage = "called", !.result = result]

\* The dashboard has answered.
LEMMA CalledFits ==
  ASSUME ChatInv, NEW w \in Handlers, NEW result \in {"done", "missing", "taken", "failed"},
         worker[w].stage = "calling"
  PROVE  /\ Called(w, result) \in Worker /\ HandlerFits(Called(w, result))
         /\ Called(w, result).stage = "called" /\ Called(w, result).result = result
         /\ Called(w, result).act = worker[w].act /\ Called(w, result).product = worker[w].product
         /\ WasAsked(Called(w, result), asks)
<1>1. worker[w] \in Worker /\ HandlerFits(worker[w]) /\ WasAsked(worker[w], asks)
  BY ChatTypes DEF ChatInv
<1>2. Called(w, result) \in Worker
  BY <1>1 DEF Called, Worker
<1>3. /\ Called(w, result).stage = "called" /\ Called(w, result).result = result
      /\ Called(w, result).act = worker[w].act /\ Called(w, result).product = worker[w].product
      /\ Called(w, result).update = worker[w].update
  BY <1>1 DEF Called, Worker
<1>4. WasAsked(Called(w, result), asks)
  BY <1>1, <1>3 DEF WasAsked, WrittenBy
<1> QED
  BY <1>1, <1>2, <1>3, <1>4 DEF HandlerFits

\* Units are put on the shelf, and the handler that will say so is the first to know.
LEMMA ApiDoesKeeps ==
  ASSUME ChatInv, NEW w \in Handlers, ApiDoes(w)
  PROVE  ChatInv'
<1> DEFINE q == worker[w].product
           adds == worker[w].act \in {"restock", "create"}
<1>1. /\ worker[w].stage = "calling" /\ UNCHANGED <<pending, owners, sent, contacts, cast, heard, asks>>
      /\ product' = IF Creates(w) THEN [product EXCEPT ![q] = TRUE] ELSE product
      /\ added' = IF adds THEN [added EXCEPT ![q] = @ + 1] ELSE added
  BY DEF ApiDoes
<1>2. PICK result \in {"done", "failed"} : worker' = [worker EXCEPT ![w] = Called(w, result)]
  BY DEF ApiDoes, Result, Called, ChatInv, ChatTypeOK
<1> DEFINE h == Called(w, result)
<1>3. /\ h \in Worker /\ HandlerFits(h) /\ h.stage = "called" /\ h.result = result
      /\ h.act = worker[w].act /\ h.product = q /\ WasAsked(h, asks)
  BY <1>1, CalledFits
<1>4. \A v \in Handlers : worker'[v] = IF v = w THEN h ELSE worker[v]
  BY <1>2 DEF ChatInv, ChatTypeOK
<1> HIDE DEF h
<1>5. added \in [Products -> Nat] /\ product \in [Products -> BOOLEAN]
  BY DEF ChatInv, ChatTypeOK
<1>6. added' \in [Products -> Nat] /\ \A p \in Products : added'[p] = added[p] + (IF adds /\ p = q THEN 1 ELSE 0)
  <2> HIDE DEF adds, q
  <2>1. CASE adds
    <3>1. added' = [added EXCEPT ![q] = @ + 1]
      BY <1>1, <2>1
    <3>2. added' \in [Products -> Nat]
      <4>1. CASE q \in Products
        <5>1. added[q] + 1 \in Nat
          BY <1>5, <4>1
        <5> QED
          BY <1>5, <3>1, <5>1
      <4>2. CASE q \notin Products
        <5>1. added' = added
          BY <1>5, <3>1, <4>2
        <5> QED
          BY <1>5, <5>1
      <4> QED
        BY <4>1, <4>2
    <3>3. ASSUME NEW p \in Products
          PROVE  added'[p] = added[p] + (IF adds /\ p = q THEN 1 ELSE 0)
      <4>1. CASE p = q
        BY <1>5, <2>1, <3>1, <4>1
      <4>2. CASE p # q
        <5>1. added'[p] = added[p] /\ added[p] \in Nat
          BY <1>5, <3>1, <4>2
        <5> QED
          BY <4>2, <5>1
      <4> QED
        BY <4>1, <4>2
    <3> QED
      BY <3>2, <3>3
  <2>2. CASE ~adds
    BY <1>1, <1>5, <2>2
  <2> QED
    BY <2>1, <2>2
<1>7. ChatTypeOK'
  BY <1>1, <1>2, <1>3, <1>5, <1>6 DEF ChatInv, ChatTypeOK, h
<1>8. /\ \A v \in Handlers : HandlerFits(worker'[v]) /\ WasAsked(worker'[v], asks')
      /\ AwaitedWasAsked(pending, asks)'
  <2>1. \A v \in Handlers : HandlerFits(worker'[v]) /\ WasAsked(worker'[v], asks')
    BY <1>1, <1>3, <1>4 DEF ChatInv
  <2>2. AwaitedWasAsked(pending, asks)'
    BY <1>1 DEF ChatInv, AwaitedWasAsked
  <2> QED
    BY <2>1, <2>2
<1>9. ASSUME NEW x \in People, NEW p \in Products
      PROVE  NewsIsBacked(x, p)'
  <2>1. Owing(x, p)' = Owing(x, p) /\ NewsIsBacked(x, p)
    BY <1>1 DEF Owing, ChatInv
  <2>2. \A v \in Handlers \ {w} : v \in Telling(p)' <=> v \in Telling(p)
    BY <1>4 DEF Telling, Announces
  <2>3. w \notin Telling(p)
    BY <1>1 DEF Telling
  <2>4. w \in Telling(p)' => adds /\ p = q
    BY <1>3, <1>4 DEF Telling, Announces
  <2>5. CASE ~(adds /\ p = q)
    <3>1. Telling(p)' \subseteq Telling(p)
      BY <2>2, <2>4, <2>5 DEF Telling
    <3>2. added'[p] \in Nat /\ added[p] <= added'[p] /\ heard'[x][p] = heard[x][p]
      BY <1>1, <1>5, <1>6
    <3> QED
      BY <2>1, <3>1, <3>2, NewsStaysBacked DEF ChatInv
  <2>6. CASE adds /\ p = q
    <3> DEFINE a == Cardinality(Owing(x, p))
               b == Cardinality(Telling(p))
               d == Cardinality(Telling(p)')
    <3>1. Telling(p)' \subseteq Telling(p) \cup {w}
      BY <2>2 DEF Telling
    <3>2. IsFiniteSet(Telling(p) \cup {w}) /\ Cardinality(Telling(p) \cup {w}) = b + 1
      BY <2>3, NewsIsFinite, FS_AddElement
    <3>3. d <= b + 1
      BY <3>1, <3>2, FS_Subset
    <3>4. a \in Nat /\ b \in Nat /\ d \in Nat /\ heard[x][p] \in Nat /\ added[p] \in Nat
      BY NewsIsFinite, ChatTypes DEF ChatInv
    <3>5. heard[x][p] + a + b <= added[p]
      BY <2>1 DEF NewsIsBacked
    <3>6. added'[p] = added[p] + 1
      BY <1>6, <2>6
    <3> HIDE DEF a, b, d
    <3>7. heard[x][p] + a + d <= added'[p]
      BY <3>3, <3>4, <3>5, <3>6
    <3>8. heard'[x][p] = heard[x][p] /\ Cardinality(Owing(x, p)') = a
      BY <1>1, <2>1 DEF a
    <3> QED
      BY <3>7, <3>8 DEF NewsIsBacked, d
  <2> QED
    BY <2>5, <2>6
<1> QED
  BY <1>7, <1>8, <1>9, HandlersKeep DEF ChatInv

\* The dashboard refuses, or the call fails.
LEMMA ApiDoesNotKeeps ==
  ASSUME ChatInv, NEW w \in Handlers, ApiDoesNot(w)
  PROVE  ChatInv'
<1>1. /\ worker[w].stage = "calling"
      /\ UNCHANGED <<pending, owners, product, sent, contacts, cast, added, heard, asks>>
  BY DEF ApiDoesNot
<1>2. PICK result \in {"missing", "taken", "failed"} : worker' = [worker EXCEPT ![w] = Called(w, result)]
  BY DEF ApiDoesNot, Result, Called, ChatInv, ChatTypeOK
<1> DEFINE h == Called(w, result)
<1>3. h \in Worker /\ HandlerFits(h) /\ h.result # "done" /\ WasAsked(h, asks)
  BY <1>1, CalledFits
<1> HIDE DEF h
<1>4. worker' = [worker EXCEPT ![w] = h]
  BY <1>2 DEF h
<1>5. /\ sent' \in 0..MaxUpdates /\ contacts' \subseteq People
      /\ product' \in [Products -> BOOLEAN] /\ pending' \in [People -> Pending]
      /\ asks \subseteq asks' /\ asks' \subseteq People \X Pending /\ AwaitedWasAsked(pending', asks')
      /\ WasAsked(h, asks')
  BY <1>1, <1>3 DEF ChatInv, ChatTypeOK
<1> QED
  BY <1>1, <1>3, <1>4, <1>5, HandlerMoves

\* A delivery that was not acknowledged waits for the next one, or is given up.
LEMMA UnansweredFits ==
  ASSUME ChatInv, NEW w \in Handlers, worker[w].stage # "idle"
  PROVE  /\ Unanswered(w) \in Worker /\ HandlerFits(Unanswered(w)) /\ Unanswered(w).stage # "called"
         /\ Unanswered(w).act = "none"
<1>1. worker[w] \in Worker /\ HandlerFits(worker[w])
  BY ChatTypes DEF ChatInv
<1>2. worker[w].update \in Messages /\ worker[w].update \in Update /\ worker[w].deliveries \in 0..MaxDeliveries
  BY <1>1 DEF HandlerFits, Worker
<1>3. CASE worker[w].deliveries < MaxDeliveries
  <2> DEFINE h == [IdleHandler EXCEPT !.stage = "waiting", !.update = worker[w].update,
                                      !.deliveries = worker[w].deliveries]
  <2>1. Unanswered(w) = h
    BY <1>3 DEF Unanswered
  <2>2. h \in Worker /\ h.stage = "waiting" /\ h.update = worker[w].update /\ h.deliveries = worker[w].deliveries
        /\ h.act = "none"
    BY <1>2, IdleHandlerFits DEF Worker
  <2> HIDE DEF h
  <2>3. HandlerFits(h)
    BY <1>2, <1>3, <2>2 DEF HandlerFits, StockWrites
  <2> QED
    BY <2>1, <2>2, <2>3
<1>4. CASE ~(worker[w].deliveries < MaxDeliveries)
  BY <1>4, IdleHandlerFits DEF Unanswered
<1> QED
  BY <1>3, <1>4

\* What is awaited of a person next has its shape.
LEMMA PendingAfterFits ==
  ASSUME ChatInv, NEW w \in Handlers, worker[w].stage = "called"
  PROVE  PendingAfter(w) \in [People -> Pending] /\ AwaitedWasAsked(PendingAfter(w), asks)
<1> DEFINE x == worker[w].update.by
           then == CASE worker[w].result # "done" -> pending[x]
                     [] worker[w].act = "expect" -> Expected(w)
                     [] worker[w].act = "clear" \/ Creates(w) -> Nothing
                     [] OTHER -> pending[x]
           asked(q) == q.kind \in {"restock", "price", "new"} =>
                         <<x, q>> \in asks /\ (q.kind = "new" => q.product = NoProduct)
<1>1. /\ HandlerFits(worker[w]) /\ worker[w].product \in Products \cup {NoProduct}
      /\ WasAsked(worker[w], asks) /\ AwaitedWasAsked(pending, asks)
  BY ChatTypes DEF ChatInv
<1>2. x \in People /\ pending[x] \in Pending
  BY <1>1, MessageFields, ChatTypes DEF HandlerFits, ChatInv
<1>3. worker[w].act = "expect" => Expected(w) \in Pending
  BY <1>1 DEF HandlerFits, Expected, Pending
<1>4. Nothing \in Pending
  BY DEF Nothing, Pending
<1>5. then \in Pending
  BY <1>2, <1>3, <1>4
<1>6. PendingAfter(w) = [pending EXCEPT ![x] = then]
  BY DEF PendingAfter
<1>7. worker[w].act = "expect" => asked(Expected(w))
  <2> SUFFICES ASSUME worker[w].act = "expect" PROVE asked(Expected(w))
    OBVIOUS
  <2> DEFINE op == worker[w].update.op
  <2>1. /\ op \in {"catalog", "restock", "price", "new"}
        /\ op = "new" => worker[w].product = NoProduct
    BY <1>1, MessageFields DEF HandlerFits
  <2>2. op # "catalog" => <<x, [kind |-> op, product |-> worker[w].product]>> \in asks
    BY <1>1 DEF WasAsked
  <2>3. Expected(w) = [kind |-> IF op = "catalog" THEN "quantity" ELSE op, product |-> worker[w].product]
    BY DEF Expected
  <2> HIDE DEF op, x
  <2> QED
    BY <2>1, <2>2, <2>3
<1>8. asked(pending[x]) /\ asked(Nothing)
  BY <1>1, <1>2 DEF AwaitedWasAsked, Nothing
<1>9. asked(then)
  <2>1. then \in {pending[x], Nothing} \/ (worker[w].act = "expect" /\ then = Expected(w))
    OBVIOUS
  <2> HIDE DEF then, asked, x
  <2> QED
    BY <1>7, <1>8, <2>1
<1> HIDE DEF then, x
<1>10. AwaitedWasAsked([pending EXCEPT ![x] = then], asks)
  BY <1>1, <1>9 DEF AwaitedWasAsked, ChatInv, ChatTypeOK
<1> QED
  BY <1>5, <1>6, <1>10 DEF ChatInv, ChatTypeOK

\* The handler is through; a broadcast of what it added takes over its news.
LEMMA ReplyKeeps ==
  ASSUME ChatInv, NEW w \in Handlers, Reply(w)
  PROVE  ChatInv'
<1> DEFINE h == IF Answers(w) THEN IdleHandler ELSE Unanswered(w)
           q == worker[w].product
<1>1. /\ worker[w].stage = "called" /\ pending' = PendingAfter(w) /\ worker' = [worker EXCEPT ![w] = h]
      /\ UNCHANGED <<owners, product, sent, contacts, added, heard, asks>>
  BY DEF Reply
<1>2. h \in Worker /\ HandlerFits(h) /\ h.stage # "called" /\ h.act = "none"
  BY <1>1, IdleHandlerFits, UnansweredFits
<1> HIDE DEF h
<1>3. \A v \in Handlers : worker'[v] = IF v = w THEN h ELSE worker[v]
  BY <1>1 DEF ChatInv, ChatTypeOK
<1>4. pending' \in [People -> Pending] /\ AwaitedWasAsked(pending', asks')
  BY <1>1, PendingAfterFits
<1>5. q \in Products \cup {NoProduct} /\ NoProduct \notin Products
  BY ChatTypes DEF ChatInv
<1>6. /\ (\A v \in Handlers : HandlerFits(worker[v]) /\ WasAsked(worker[v], asks))'
      /\ AwaitedWasAsked(pending, asks)'
  <2>1. \A v \in Handlers : HandlerFits(worker'[v]) /\ WasAsked(worker'[v], asks')
    BY <1>1, <1>2, <1>3, NothingAsked DEF ChatInv
  <2>2. AwaitedWasAsked(pending, asks)'
    BY <1>4 DEF AwaitedWasAsked
  <2> QED
    BY <2>1, <2>2, HandlersKeep
<1>7. ASSUME NEW p \in Products
      PROVE  Telling(p)' = Telling(p) \ {w}
  BY <1>2, <1>3 DEF Telling, Announces
<1>8. CASE ~Announces(w)
  <2>1. cast' = cast
    BY <1>8 DEF Reply
  <2>2. ChatTypeOK'
    BY <1>1, <1>2, <1>4, <2>1 DEF ChatInv, ChatTypeOK
  <2>3. ASSUME NEW x \in People, NEW p \in Products
        PROVE  NewsIsBacked(x, p)'
    <3>1. Owing(x, p)' = Owing(x, p) /\ Telling(p)' \subseteq Telling(p)
      BY <1>7, <2>1 DEF Owing
    <3>2. added'[p] \in Nat /\ added[p] <= added'[p] /\ heard'[x][p] = heard[x][p]
      BY <1>1, ChatTypes DEF ChatInv
    <3> QED
      BY <3>1, <3>2, NewsStaysBacked DEF ChatInv
  <2> QED
    BY <1>6, <2>2, <2>3 DEF ChatInv
<1>9. CASE Announces(w)
  <2>1. PICK b \in Casts :
          /\ cast[b] = NoCast
          /\ cast' = [cast EXCEPT ![b] = [stage |-> "spawned", of |-> q, owed |-> {}]]
    BY <1>9 DEF Reply
  <2> DEFINE c == [stage |-> "spawned", of |-> q, owed |-> {}]
  <2>2. c \in Cast /\ c.of = q
    BY <1>5 DEF Cast
  <2>3. \A d \in Casts : cast'[d] = IF d = b THEN c ELSE cast[d]
    BY <2>1 DEF ChatInv, ChatTypeOK
  <2>4. ChatTypeOK'
    BY <1>1, <1>2, <1>4, <2>1, <2>2 DEF ChatInv, ChatTypeOK
  <2> HIDE DEF c
  <2>5. ASSUME NEW x \in People, NEW p \in Products
        PROVE  NewsIsBacked(x, p)'
    <3>1. NewsIsBacked(x, p) /\ added'[p] = added[p] /\ heard'[x][p] = heard[x][p]
      BY <1>1 DEF ChatInv
    <3>2. added[p] \in Nat /\ heard[x][p] \in Nat
      BY ChatTypes DEF ChatInv
    <3>3. CASE p # q
      <4>1. Owing(x, p)' \subseteq Owing(x, p)
        BY <2>2, <2>3, <3>3 DEF Owing
      <4>2. Telling(p)' \subseteq Telling(p) /\ added[p] <= added'[p] /\ added'[p] \in Nat
        BY <1>7, <3>1, <3>2
      <4> QED
        BY <3>1, <4>1, <4>2, NewsStaysBacked DEF ChatInv
    <3>4. CASE p = q
      <4> DEFINE m == Cardinality(Owing(x, p))
                 n == Cardinality(Telling(p))
                 k == Cardinality(Owing(x, p)')
                 l == Cardinality(Telling(p)')
      <4>1. w \in Telling(p)
        BY <1>1, <1>9, <3>4 DEF Telling
      <4>2. l = n - 1
        BY <1>7, <4>1, NewsIsFinite, FS_RemoveElement
      <4>3. Owing(x, p)' \subseteq Owing(x, p) \cup {b}
        BY <2>3 DEF Owing
      <4>4. b \notin Owing(x, p)
        BY <1>5, <2>1, NoCastFits DEF Owing
      <4>5. IsFiniteSet(Owing(x, p) \cup {b}) /\ Cardinality(Owing(x, p) \cup {b}) = m + 1
        BY <4>4, NewsIsFinite, FS_AddElement
      <4>6. k <= m + 1
        BY <4>3, <4>5, FS_Subset
      <4>7. m \in Nat /\ n \in Nat /\ k \in Nat /\ l \in Nat
        BY NewsIsFinite
      <4>8. heard[x][p] + m + n <= added[p]
        BY <3>1 DEF NewsIsBacked
      <4> HIDE DEF m, n, k, l
      <4>9. heard[x][p] + k + l <= added[p]
        BY <3>2, <4>2, <4>6, <4>7, <4>8
      <4> QED
        BY <3>1, <4>9 DEF NewsIsBacked, k, l
    <3> QED
      BY <3>3, <3>4
  <2> QED
    BY <1>6, <2>4, <2>5 DEF ChatInv
<1> QED
  BY <1>8, <1>9

\* A broadcast moves on: it owes what it owed at most.
LEMMA CastMoves ==
  ASSUME ChatInv, NEW b \in Casts, NEW c \in Cast, cast' = [cast EXCEPT ![b] = c],
         UNCHANGED <<pending, owners, product, sent, worker, contacts, added, heard, asks>>,
         c.of # NoProduct /\ c.stage \in {"spawned", "sending"} => c.of = cast[b].of /\ cast[b].stage = "spawned"
  PROVE  ChatInv'
<1>1. \A d \in Casts : cast'[d] = IF d = b THEN c ELSE cast[d]
  BY DEF ChatInv, ChatTypeOK
<1>2. ChatTypeOK'
  BY DEF ChatInv, ChatTypeOK
<1>3. /\ (\A v \in Handlers : HandlerFits(worker[v]) /\ WasAsked(worker[v], asks))'
      /\ AwaitedWasAsked(pending, asks)'
  <2>1. \A v \in Handlers : HandlerFits(worker'[v]) /\ WasAsked(worker'[v], asks')
    BY DEF ChatInv
  <2>2. AwaitedWasAsked(pending, asks)'
    BY DEF ChatInv, AwaitedWasAsked
  <2> QED
    BY <2>1, <2>2, HandlersKeep
<1>4. ASSUME NEW x \in People, NEW p \in Products
      PROVE  NewsIsBacked(x, p)'
  <2>1. p # NoProduct
    BY TelegramChatAssumption
  <2>2. Owing(x, p)' \subseteq Owing(x, p)
    BY <1>1, <2>1 DEF Owing
  <2>3. Telling(p)' = Telling(p)
    BY DEF Telling, Announces
  <2>4. added'[p] \in Nat /\ added[p] <= added'[p] /\ heard'[x][p] = heard[x][p]
    BY ChatTypes DEF ChatInv
  <2> QED
    BY <2>2, <2>3, <2>4, NewsStaysBacked DEF ChatInv
<1> QED
  BY <1>2, <1>3, <1>4 DEF ChatInv

\* A broadcast is asked for that has no product.
LEMMA AnnounceToAllKeeps ==
  ASSUME ChatInv, NEW b \in Casts, AnnounceToAll(b)
  PROVE  ChatInv'
<1> DEFINE c == [stage |-> "sending", of |-> NoProduct, owed |-> contacts]
<1>1. c \in Cast /\ c.of = NoProduct
  BY DEF Cast, ChatInv, ChatTypeOK
<1> HIDE DEF c
<1>2. /\ cast' = [cast EXCEPT ![b] = c]
      /\ UNCHANGED <<pending, owners, product, sent, worker, contacts, added, heard, asks>>
  BY DEF AnnounceToAll, c
<1> QED
  BY <1>1, <1>2, CastMoves

\* A broadcast has its audience, or has not got it.
LEMMA FetchAudienceKeeps ==
  ASSUME ChatInv, NEW b \in Casts, FetchAudience(b)
  PROVE  ChatInv'
<1>1. PICK audience \in {contacts, {}} :
        cast' = [cast EXCEPT ![b] = IF audience = {} THEN NoCast
                                    ELSE [cast[b] EXCEPT !.stage = "sending", !.owed = audience]]
  BY DEF FetchAudience, ChatInv, ChatTypeOK
<1> DEFINE c == IF audience = {} THEN NoCast ELSE [cast[b] EXCEPT !.stage = "sending", !.owed = audience]
<1>2. cast[b] \in Cast /\ audience \subseteq People /\ cast[b].stage = "spawned"
  BY DEF FetchAudience, ChatInv, ChatTypeOK
<1>3. c \in Cast /\ (c.of # NoProduct => c.of = cast[b].of)
  BY <1>2, NoCastFits DEF Cast
<1> HIDE DEF c
<1>4. /\ cast' = [cast EXCEPT ![b] = c]
      /\ UNCHANGED <<pending, owners, product, sent, worker, contacts, added, heard, asks>>
  BY <1>1 DEF FetchAudience, c
<1> QED
  BY <1>2, <1>3, <1>4, CastMoves

\* A person is sent to: what was owed to that person has been heard, or has not been.
LEMMA SendNextKeeps ==
  ASSUME ChatInv, NEW b \in Casts, NEW y \in People, SendNext(b, y)
  PROVE  ChatInv'
<1>1. /\ cast[b].stage = "sending" /\ y \in cast[b].owed
      /\ UNCHANGED <<pending, owners, product, sent, worker, contacts, added, asks>>
  BY DEF SendNext
<1>2. PICK reached \in BOOLEAN :
        /\ cast' = [cast EXCEPT ![b] = Rest(b, y, reached)]
        /\ heard' = IF reached /\ cast[b].of # NoProduct THEN [heard EXCEPT ![y][cast[b].of] = @ + 1] ELSE heard
  BY DEF SendNext
<1> DEFINE c == Rest(b, y, reached)
           q == cast[b].of
           tells == reached /\ q # NoProduct
<1>3. /\ cast[b] \in Cast /\ q \in Products \cup {NoProduct}
      /\ heard \in [People -> [Products -> Nat]] /\ added \in [Products -> Nat]
  BY DEF ChatInv, ChatTypeOK, Cast
<1>4. c \in Cast /\ (c = NoCast \/ (c.of = q /\ c.stage = "sending" /\ c.owed = cast[b].owed \ {y}))
  BY <1>1, <1>3, NoCastFits DEF Rest, Cast
<1>5. heard' = IF tells THEN [heard EXCEPT ![y][q] = @ + 1] ELSE heard
  BY <1>2
<1>6. cast' = [cast EXCEPT ![b] = c]
  BY <1>2
<1> HIDE DEF c
<1>7. \A d \in Casts : cast'[d] = IF d = b THEN c ELSE cast[d]
  BY <1>6 DEF ChatInv, ChatTypeOK
<1>8. /\ heard' \in [People -> [Products -> Nat]]
      /\ \A x \in People, p \in Products :
           heard'[x][p] = IF tells /\ x = y /\ p = q THEN heard[x][p] + 1 ELSE heard[x][p]
  <2>1. CASE tells
    <3> DEFINE f == [heard[y] EXCEPT ![q] = @ + 1]
    <3>1. q \in Products /\ heard[y] \in [Products -> Nat] /\ heard[y][q] \in Nat
      BY <1>3, <2>1
    <3>2. f \in [Products -> Nat] /\ \A p \in Products : f[p] = IF p = q THEN heard[y][p] + 1 ELSE heard[y][p]
      BY <3>1
    <3>3. heard' = [heard EXCEPT ![y] = f]
      BY <1>5, <2>1
    <3> HIDE DEF f
    <3> QED
      BY <1>3, <2>1, <3>2, <3>3
  <2>2. CASE ~tells
    BY <1>3, <1>5, <2>2
  <2> QED
    BY <2>1, <2>2
<1>9. ChatTypeOK'
  BY <1>1, <1>4, <1>6, <1>8 DEF ChatInv, ChatTypeOK
<1>10. /\ (\A v \in Handlers : HandlerFits(worker[v]) /\ WasAsked(worker[v], asks))'
       /\ AwaitedWasAsked(pending, asks)'
  <2>1. \A v \in Handlers : HandlerFits(worker'[v]) /\ WasAsked(worker'[v], asks')
    BY <1>1 DEF ChatInv
  <2>2. AwaitedWasAsked(pending, asks)'
    BY <1>1 DEF ChatInv, AwaitedWasAsked
  <2> QED
    BY <2>1, <2>2, HandlersKeep
<1>11. ASSUME NEW x \in People, NEW p \in Products
       PROVE  NewsIsBacked(x, p)'
  <2>1. NewsIsBacked(x, p) /\ added'[p] = added[p] /\ added[p] \in Nat /\ heard[x][p] \in Nat /\ p # NoProduct
    BY <1>1, ChatTypes DEF ChatInv
  <2>2. Telling(p)' = Telling(p)
    BY <1>1 DEF Telling, Announces
  <2>3. Owing(x, p)' \subseteq Owing(x, p)
    BY <1>1, <1>4, <1>7, <2>1, NoCastFits DEF Owing
  <2>4. CASE ~(tells /\ x = y /\ p = q)
    <3>1. heard'[x][p] = heard[x][p]
      BY <1>8, <2>4
    <3>2. added'[p] \in Nat /\ added[p] <= added'[p]
      BY <2>1
    <3> QED
      BY <2>1, <2>2, <2>3, <3>1, <3>2, NewsStaysBacked DEF ChatInv
  <2>5. CASE tells /\ x = y /\ p = q
    <3> DEFINE m == Cardinality(Owing(x, p))
               n == Cardinality(Telling(p))
               k == Cardinality(Owing(x, p)')
    <3>1. b \in Owing(x, p)
      BY <1>1, <2>5 DEF Owing
    <3>2. b \notin Owing(x, p)'
      BY <1>4, <1>7, <2>1, <2>5, NoCastFits DEF Owing
    <3>3. Owing(x, p)' \subseteq Owing(x, p) \ {b}
      BY <2>3, <3>2
    <3>4. IsFiniteSet(Owing(x, p) \ {b}) /\ Cardinality(Owing(x, p) \ {b}) = m - 1
      BY <3>1, NewsIsFinite, FS_RemoveElement
    <3>5. k <= m - 1
      BY <3>3, <3>4, FS_Subset
    <3>6. m \in Nat /\ n \in Nat /\ k \in Nat
      BY NewsIsFinite
    <3>7. heard[x][p] + m + n <= added[p]
      BY <2>1 DEF NewsIsBacked
    <3>8. heard'[x][p] = heard[x][p] + 1
      BY <1>8, <2>5
    <3> HIDE DEF m, n, k
    <3>9. heard'[x][p] + k + n <= added[p]
      BY <2>1, <3>5, <3>6, <3>7, <3>8
    <3> QED
      BY <2>1, <2>2, <3>9 DEF NewsIsBacked, k, n
  <2> QED
    BY <2>4, <2>5
<1> QED
  BY <1>9, <1>10, <1>11 DEF ChatInv

\* The bot restarts: what was awaited, the handlers and the broadcasts are gone.
LEMMA RestartKeeps ==
  ASSUME ChatInv, Restart
  PROVE  ChatInv'
<1>1. UNCHANGED <<owners, product, sent, contacts, added, heard, asks>> /\ cast' = [b \in Casts |-> NoCast]
  BY DEF Restart
<1>2. ASSUME NEW w \in Handlers
      PROVE  /\ worker'[w] \in Worker /\ HandlerFits(worker'[w]) /\ worker'[w].stage # "called"
             /\ WasAsked(worker'[w], asks')
  <2>1. CASE worker[w].stage \in {"calling", "called"}
    BY <2>1, UnansweredFits, NothingAsked DEF Restart
  <2>2. CASE worker[w].stage \notin {"calling", "called"}
    BY <1>1, <2>2, ChatTypes DEF Restart, ChatInv
  <2> QED
    BY <2>1, <2>2
<1>3. pending' \in [People -> Pending]
  BY DEF Restart, Nothing, Pending
<1>4. worker' \in [Handlers -> Worker]
  BY <1>2 DEF Restart
<1>5. ChatTypeOK'
  BY <1>1, <1>3, <1>4, NoCastFits DEF ChatInv, ChatTypeOK
<1>6. /\ (\A w \in Handlers : HandlerFits(worker[w]) /\ WasAsked(worker[w], asks))'
      /\ AwaitedWasAsked(pending, asks)'
  <2>1. AwaitedWasAsked(pending, asks)'
    BY DEF Restart, AwaitedWasAsked, Nothing
  <2> QED
    BY <1>2, <2>1, HandlersKeep
<1>7. ASSUME NEW x \in People, NEW p \in Products
      PROVE  NewsIsBacked(x, p)'
  <2>1. Owing(x, p)' = {} /\ Telling(p)' = {}
    BY <1>1, <1>2, NoCastFits DEF Owing, Telling
  <2>2. added'[p] \in Nat /\ added[p] <= added'[p] /\ heard'[x][p] = heard[x][p]
    BY <1>1, ChatTypes DEF ChatInv
  <2> QED
    BY <2>1, <2>2, NewsStaysBacked DEF ChatInv
<1> QED
  BY <1>5, <1>6, <1>7 DEF ChatInv

\* Every step keeps ChatInv.
LEMMA ChatNextInv == ChatInv /\ [ChatNext]_chatVars => ChatInv'
<1> SUFFICES ASSUME ChatInv, [ChatNext]_chatVars PROVE ChatInv'
  OBVIOUS
<1>1. ASSUME NEW x \in People, OwnershipChanges(x) \/ PendingExpires(x)
      PROVE  ChatInv'
  BY <1>1, PeopleKeep
<1>7. ASSUME NEW w \in Handlers, NEW m \in Messages, Sends(w, m)
      PROVE  ChatInv'
  BY <1>7, SendsKeeps
<1>2. ASSUME NEW w \in Handlers, NEW m \in Deliverable(w), Tap(w, m) \/ Text(w, m) \/ Ignore(w, m)
      PROVE  ChatInv'
  BY <1>2, TapKeeps, TextKeeps, IgnoreKeeps
<1>3. ASSUME NEW w \in Handlers, ApiDoes(w) \/ ApiDoesNot(w) \/ Reply(w)
      PROVE  ChatInv'
  BY <1>3, ApiDoesKeeps, ApiDoesNotKeeps, ReplyKeeps
<1>4. ASSUME NEW b \in Casts, AnnounceToAll(b) \/ FetchAudience(b) \/ \E x \in People : SendNext(b, x)
      PROVE  ChatInv'
  BY <1>4, AnnounceToAllKeeps, FetchAudienceKeeps, SendNextKeeps
<1>5. CASE Restart
  BY <1>5, RestartKeeps
<1>6. CASE UNCHANGED chatVars
  <2>1. UNCHANGED <<pending, owners, product, sent, worker, contacts, cast, added, heard, asks>>
    BY <1>6 DEF chatVars
  <2>2. ChatTypeOK'
    BY <2>1 DEF ChatInv, ChatTypeOK
  <2>3. \A w \in Handlers : HandlerFits(worker'[w]) /\ WasAsked(worker'[w], asks')
    BY <2>1 DEF ChatInv
  <2>4. AwaitedWasAsked(pending, asks)'
    BY <2>1 DEF ChatInv, AwaitedWasAsked
  <2>5. \A x \in People, p \in Products : NewsIsBacked(x, p)'
    BY <2>1 DEF ChatInv, NewsIsBacked, Owing, Telling, Announces
  <2> QED
    BY <2>2, <2>3, <2>4, <2>5, HandlersKeep DEF ChatInv
<1> QED
  BY <1>1, <1>2, <1>3, <1>4, <1>5, <1>6, <1>7 DEF ChatNext

\* The Telegram bot, for any people, products, handlers and broadcasts: what is awaited of a person and what a
\* plain message writes was asked for by a button of an owner, a handler that writes has an owner's update, and
\* news under way is about units that were put on the shelf, each piece about its own (app.rs).
THEOREM ChatInvariant == ChatSpec => []ChatInv
<1>1. ChatInit => ChatInv
  BY ChatInitInv
<1>2. ChatInv /\ [ChatNext]_chatVars => ChatInv'
  BY ChatNextInv
<1> QED
  BY <1>1, <1>2, PTL DEF ChatSpec

\* The types of the bot.
THEOREM ChatTypesHold == ChatSpec => []ChatTypeOK
<1>1. ChatInv => ChatTypeOK
  BY DEF ChatInv
<1> QED
  BY <1>1, ChatInvariant, PTL

\* A call that changes the stock room is made for an update whose sender owned the shop when it was sent, and
\* for a plain message only as an owner's button had asked, however often and late it is delivered (pending_reply
\* and admin_outcome of app.rs go by the name the update carries).
THEOREM OnlyOwnersWrite == ChatSpec => []OwnersOnly
<1>1. ChatInv => OwnersOnly
  <2> SUFFICES ASSUME ChatInv, NEW w \in Handlers, worker[w].act \in StockWrites
               PROVE  /\ worker[w].update.owner
                      /\ worker[w].update.op = "text" => <<worker[w].update.by, WasAskedFor(w)>> \in asks
    BY DEF OwnersOnly
  <2>1. HandlerFits(worker[w]) /\ WasAsked(worker[w], asks)
    BY DEF ChatInv
  <2>2. WasAskedFor(w) = WrittenBy(worker[w])
    BY DEF WasAskedFor, WrittenBy, Creates, StockWrites
  <2> QED
    BY <2>1, <2>2 DEF HandlerFits, WasAsked
<1> QED
  BY <1>1, ChatInvariant, PTL

\* Nobody is told more often that a product is back than it was put back on the shelf (app.rs).
THEOREM NewsIsTrue == ChatSpec => []AnnouncedWasAdded
<1>1. ChatInv => AnnouncedWasAdded
  <2> SUFFICES ASSUME ChatInv, NEW x \in People, NEW p \in Products
               PROVE  heard[x][p] <= added[p]
    BY DEF AnnouncedWasAdded
  <2> DEFINE m == Cardinality(Owing(x, p))
             n == Cardinality(Telling(p))
  <2>1. heard[x][p] + m + n <= added[p]
    BY DEF ChatInv, NewsIsBacked
  <2>2. m \in Nat /\ n \in Nat /\ heard[x][p] \in Nat /\ added[p] \in Nat
    BY NewsIsFinite, ChatTypes DEF ChatInv
  <2> HIDE DEF m, n
  <2> QED
    BY <2>1, <2>2
<1> QED
  BY <1>1, ChatInvariant, PTL
=============================================================================
