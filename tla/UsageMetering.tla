---------------------------- MODULE UsageMetering ----------------------------
(***************************************************************************)
(* How a gateway request that a provider answered becomes one usage event, *)
(* one charge and, for an organization, one organization event:            *)
(* api/gateway/usage.rs, upstream_response_with_usage of proxy.rs and      *)
(* gemini_upstream_response_with_usage of providers/gemini.rs.             *)
(*                                                                         *)
(* An answer takes one of four paths.  "sse" and "json" are watched by a   *)
(* UsageGuard, which records when the body ends or, from its Drop, when    *)
(* the client leaves first.  "gemini_sse" is read by a task of its own.    *)
(* "gemini_json" is read and recorded by the request handler, which ends   *)
(* with its client.  A body is abstracted to what the observer tells       *)
(* apart: reports of usage, and the marker that says how it ended.         *)
(***************************************************************************)
EXTENDS Naturals, FiniteSets, WalletConstants

CONSTANTS
  Requests,     \* requests to the gateway
  MaxUsage      \* bound on what one answer reports

ASSUME MeteringAssumption ==
  /\ MaxUsage \in Nat
  /\ MinBalance \in Nat
  /\ MaxWallet \in Nat
  /\ NoUser \notin Users

VARIABLES
  request,      \* what was asked and how far its answer is
  observer,     \* the UsageObserver of each answer
  jobs,         \* the recordings under way
  rows,         \* gateway_usage_events
  orgRows,      \* organization_usage_events
  charged,      \* what the usage row of the ledger took, by request
  balance, settled  \* the wallets (AbstractWallet)

meteringVars == <<request, observer, jobs, rows, orgRows, charged, balance, settled>>

Wallet == INSTANCE AbstractWallet WITH Movements <- {"usage"} \X Requests

Paths == {"sse", "json", "gemini_sse", "gemini_json"}
Guarded == {"sse", "json"}
Streams == {"sse", "gemini_sse"}
Scopes == {"service", "organization", "workspace"}
Marks == {"none", "complete", "cut"}
Outcomes == {"completed", "incomplete"}

GatewayRequest ==
  [user : Users \cup {NoUser}, path : Paths, scope : Scopes,
   phase : {"none", "answering", "ended", "left", "crashed"},
   failed : BOOLEAN, clientGone : BOOLEAN]

\* known and mark: what was parsed.  buffered and next: what has arrived and was not
\* parsed yet, the event under way of a stream, the whole of a JSON body.  lost: some
\* of it was over MAX_USAGE_PAYLOAD_BYTES.  pending: the guard has not recorded yet.
Observer == [known : 0..MaxUsage, mark : Marks, buffered : 0..MaxUsage, next : Marks,
             lost : BOOLEAN, pending : BOOLEAN]

NewObserver == [known |-> 0, mark |-> "none", buffered |-> 0, next |-> "none",
                lost |-> FALSE, pending |-> TRUE]

\* A recording: by whom, with what, and which write is next.
Job == [of : Requests, by : {"finish", "drop", "stream", "handler"},
        outcome : Outcomes, tokens : 0..MaxUsage, counts : BOOLEAN,
        next : {"insert", "charge", "organization"}]

EventRow == [of : Requests, by : {"finish", "drop", "stream", "handler"},
        outcome : Outcomes, tokens : 0..MaxUsage]

MeteringInit ==
  /\ request = [r \in Requests |->
       [user |-> NoUser, path |-> "sse", scope |-> "workspace", phase |-> "none",
        failed |-> FALSE, clientGone |-> FALSE]]
  /\ observer = [r \in Requests |-> NewObserver]
  /\ jobs = {}
  /\ rows = {}
  /\ orgRows = {}
  /\ charged = [r \in Requests |-> 0]
  /\ Wallet!Init

-----------------------------------------------------------------------------
\* What is in the wallet pays for a request

\* authorize_request let a service request through, and the provider answered 2xx.
Answered(r, u, path, scope) ==
  /\ request[r].phase = "none"
  /\ scope = "service" => balance[u] >= MinBalance
  /\ request' = [request EXCEPT ![r] = [@ EXCEPT
       !.user = u, !.path = path, !.scope = scope, !.phase = "answering"]]
  /\ UNCHANGED <<observer, jobs, rows, orgRows, charged, balance, settled>>

TopUp(u, amount) ==
  /\ Wallet!Credit(u, amount, {})
  /\ UNCHANGED <<request, observer, jobs, rows, orgRows, charged>>

-----------------------------------------------------------------------------
\* The body

Total(o) == o.known + o.buffered

\* UsageObserver::push: bytes of the event or body under way, with more usage or with
\* the marker.  A JSON body that passed the limit is not kept any more.
Receive(r, usage, mark) ==
  LET o == observer[r] IN
  /\ request[r].phase = "answering"
  /\ ~request[r].failed
  /\ ~(request[r].path = "json" /\ o.lost)
  /\ Total(o) + usage <= MaxUsage
  /\ observer' = [observer EXCEPT ![r] = [o EXCEPT
       !.buffered = @ + usage,
       !.next = IF mark = "none" THEN @ ELSE mark]]
  /\ UNCHANGED <<request, jobs, rows, orgRows, charged, balance, settled>>

\* The blank line that ends an event: it is read (read_event, read_value).  A failure
\* is not taken back by a later completion.
Read(o) == [o EXCEPT
  !.known = @ + o.buffered, !.buffered = 0, !.next = "none",
  !.mark = IF o.next = "none" \/ @ = "cut" THEN @ ELSE o.next]

EventEnds(r) ==
  /\ request[r].phase = "answering"
  /\ request[r].path \in Streams
  /\ ~request[r].failed
  /\ Read(observer[r]) # observer[r]
  /\ observer' = [observer EXCEPT ![r] = Read(@)]
  /\ UNCHANGED <<request, jobs, rows, orgRows, charged, balance, settled>>

\* The event or body under way passes the limit and is thrown away.  The handler of
\* "gemini_json" has no limit.
Overflow(r) ==
  /\ request[r].phase = "answering"
  /\ request[r].path # "gemini_json"
  /\ ~request[r].failed
  /\ observer' = [observer EXCEPT ![r] = [@ EXCEPT
       !.buffered = 0, !.next = "none", !.lost = TRUE]]
  /\ UNCHANGED <<request, jobs, rows, orgRows, charged, balance, settled>>

NewJob(r, by, completed, tokens, counts) ==
  [of |-> r, by |-> by, outcome |-> IF completed THEN "completed" ELSE "incomplete",
   tokens |-> tokens, counts |-> counts, next |-> "insert"]

\* finish_with_completion: the rest is read, and the marker decides.  A JSON body that
\* passed the limit is complete with unknown tokens.
Finished(r) == Read(observer[r])

Completes(r) ==
  \/ Finished(r).mark = "complete"
  \/ request[r].path = "json" /\ observer[r].lost

\* PendingUsage::record_finished: a response that did not complete keeps the usage
\* that was known before finish_with_completion read the rest.
FinishedTokens_addsPartial(r, completed) == observer[r].known + Total(observer[r])

FinishedTokens_alwaysPartial(r, completed) == observer[r].known

FinishedTokens_noneIfIncomplete(r, completed) == IF completed THEN Total(observer[r]) ELSE 0

FinishedTokens(r, completed) ==
  IF completed THEN Total(observer[r]) ELSE observer[r].known

GuardAfterFinish_kept(r) == observer[r]

\* finish takes what was pending, so the guard's Drop finds nothing.
GuardAfterFinish(r) == [observer[r] EXCEPT !.pending = FALSE]

\* UsageGuard::finish, at the end of a body: a task of its own records it.
GuardFinishes(r) ==
  LET completed == Completes(r) /\ ~request[r].failed IN
  /\ request[r].phase = "answering"
  /\ request[r].path \in Guarded
  /\ observer[r].pending
  /\ jobs' = jobs \cup
       {NewJob(r, "finish", completed, FinishedTokens(r, completed), completed)}
  /\ observer' = [observer EXCEPT ![r] = GuardAfterFinish(r)]
  /\ request' = [request EXCEPT ![r].phase = "ended"]
  /\ UNCHANGED <<rows, orgRows, charged, balance, settled>>

DropCounts_always == TRUE

\* A request recorded from Drop is not counted for its organization.
DropCounts == FALSE

\* UsageGuard::drop, when the body is dropped: after finish, after the client left or
\* after the upstream stream failed.
GuardDrops(r) ==
  /\ request[r].phase \in {"ended", "left"}
  /\ request[r].path \in Guarded
  /\ observer[r].pending
  /\ jobs' = jobs \cup {NewJob(r, "drop", FALSE, observer[r].known, DropCounts)}
  /\ observer' = [observer EXCEPT ![r].pending = FALSE]
  /\ UNCHANGED <<request, rows, orgRows, charged, balance, settled>>

\* The upstream connection breaks: the next read is an error.  A Gemini stream is
\* recorded there and then; the handler of "gemini_json" answers 502 and records
\* nothing; a guard waits for the body to be polled again or dropped.
UpstreamFails(r) ==
  /\ request[r].phase = "answering"
  /\ ~request[r].failed
  /\ request' = [request EXCEPT ![r].failed = TRUE,
       ![r].phase = IF request[r].path \in Guarded THEN @ ELSE "ended"]
  /\ jobs' = IF request[r].path = "gemini_sse"
       THEN jobs \cup {NewJob(r, "stream", FALSE, observer[r].known, FALSE)}
       ELSE jobs
  /\ UNCHANGED <<observer, rows, orgRows, charged, balance, settled>>

\* The error reached hyper, which ends the connection and drops the body.
FailedBodyDropped(r) ==
  /\ request[r].phase = "answering"
  /\ request[r].failed
  /\ request' = [request EXCEPT ![r].phase = "left"]
  /\ UNCHANGED <<observer, jobs, rows, orgRows, charged, balance, settled>>

\* The task of a Gemini stream reaches the end of the body.
GeminiStreamEnds(r) ==
  LET completed == Completes(r) IN
  /\ request[r].phase = "answering"
  /\ request[r].path = "gemini_sse"
  /\ jobs' = jobs \cup {NewJob(r, "stream", completed, FinishedTokens(r, completed),
                               completed /\ ~request[r].clientGone)}
  /\ request' = [request EXCEPT ![r].phase = "ended"]
  /\ UNCHANGED <<observer, rows, orgRows, charged, balance, settled>>

\* The whole JSON body was read by the handler, which goes on to record it.
GeminiJsonEnds(r) ==
  LET completed == Completes(r) IN
  /\ request[r].phase = "answering"
  /\ request[r].path = "gemini_json"
  /\ jobs' = jobs \cup {NewJob(r, "handler", completed, Total(observer[r]), completed)}
  /\ request' = [request EXCEPT ![r].phase = "ended"]
  /\ UNCHANGED <<observer, rows, orgRows, charged, balance, settled>>

HandlerJobs_finishToo(r) == {j \in jobs : j.of = r /\ j.by \in {"handler", "finish"}}

\* The recordings that run in the request's own handler and end with it.
HandlerJobs(r) == {j \in jobs : j.of = r /\ j.by = "handler"}

\* The client closes its connection.  The body of a guarded answer is dropped; the
\* task of a Gemini stream goes on reading, or stops where the request came from the
\* Playground (cancel_on_disconnect); the handler of "gemini_json" is dropped at
\* whatever it awaits, the insert or the charge included.
ClientLeaves(r) ==
  /\ request[r].phase \in {"answering", "ended"}
  /\ ~request[r].clientGone
  /\ \/ /\ request[r].path = "gemini_sse" /\ request[r].phase = "answering"
        /\ \/ /\ request' = [request EXCEPT ![r].clientGone = TRUE]
              /\ UNCHANGED jobs
           \/ /\ request' = [request EXCEPT ![r].clientGone = TRUE, ![r].phase = "ended"]
              /\ jobs' = jobs \cup {NewJob(r, "stream", FALSE, observer[r].known, FALSE)}
     \/ /\ request[r].path # "gemini_sse" \/ request[r].phase = "ended"
        /\ request' = [request EXCEPT ![r].clientGone = TRUE,
             ![r].phase = IF @ = "answering" THEN "left" ELSE @]
        /\ jobs' = jobs \ HandlerJobs(r)
  /\ UNCHANGED <<observer, rows, orgRows, charged, balance, settled>>

-----------------------------------------------------------------------------
\* UsageEvent::record

Advance(j, to) == (jobs \ {j}) \cup {[j EXCEPT !.next = to]}

\* insert_gateway_event.
InsertEvent(j) ==
  /\ j.next = "insert"
  /\ rows' = rows \cup {[of |-> j.of, by |-> j.by, outcome |-> j.outcome, tokens |-> j.tokens]}
  /\ jobs' = Advance(j, "charge")
  /\ UNCHANGED <<request, observer, orgRows, charged, balance, settled>>

AfterFailedInsert_charges == "charge"

AfterFailedInsert == "organization"

\* The insert fails: that is logged, nothing is charged, and the organization's event
\* is inserted all the same.
InsertFails(j) ==
  /\ j.next = "insert"
  /\ jobs' = Advance(j, AfterFailedInsert)
  /\ UNCHANGED <<request, observer, rows, orgRows, charged, balance, settled>>

\* charge_request and wallet::charge: what the tokens cost (one each), as far as the
\* wallet holds it; nothing for no tokens, an empty wallet or another scope.
Charge(j) ==
  LET u == request[j.of].user
      cost == IF request[j.of].scope = "service" THEN j.tokens ELSE 0
      amount == IF cost <= balance[u] THEN cost ELSE balance[u] IN
  /\ j.next = "charge"
  /\ jobs' = Advance(j, "organization")
  /\ IF amount > 0 /\ <<"usage", j.of>> \notin settled
       THEN /\ Wallet!Debit(u, amount, {<<"usage", j.of>>})
            /\ charged' = [charged EXCEPT ![j.of] = @ + amount]
       ELSE UNCHANGED <<charged, balance, settled>>
  /\ UNCHANGED <<request, observer, rows, orgRows>>

\* The charge fails: logged, and the event stays without a ledger row.
ChargeFails(j) ==
  /\ j.next = "charge"
  /\ jobs' = Advance(j, "organization")
  /\ UNCHANGED <<request, observer, rows, orgRows, charged, balance, settled>>

\* insert_organization_event, for a request that counts; it may fail too.
EndJob(j) ==
  /\ j.next = "organization"
  /\ jobs' = jobs \ {j}
  /\ \/ /\ j.counts /\ request[j.of].scope = "organization"
        /\ orgRows' = orgRows \cup
             {[of |-> j.of, by |-> j.by, outcome |-> j.outcome, tokens |-> j.tokens]}
     \/ UNCHANGED orgRows
  /\ UNCHANGED <<request, observer, rows, charged, balance, settled>>

\* The process dies, and with it everything that was not written.
Crash ==
  /\ \E r \in Requests : request[r].phase \in {"answering", "ended", "left"}
  /\ request' = [r \in Requests |->
       IF request[r].phase = "none" THEN request[r]
                                    ELSE [request[r] EXCEPT !.phase = "crashed"]]
  /\ jobs' = {}
  /\ UNCHANGED <<observer, rows, orgRows, charged, balance, settled>>

-----------------------------------------------------------------------------
Body ==
  \E r \in Requests :
    \/ \E usage \in 0..1, mark \in Marks : Receive(r, usage, mark)
    \/ EventEnds(r)
    \/ Overflow(r)
    \/ GuardFinishes(r)
    \/ GuardDrops(r)
    \/ UpstreamFails(r)
    \/ FailedBodyDropped(r)
    \/ GeminiStreamEnds(r)
    \/ GeminiJsonEnds(r)
    \/ ClientLeaves(r)

Record ==
  \E j \in jobs :
    \/ InsertEvent(j)
    \/ InsertFails(j)
    \/ Charge(j)
    \/ ChargeFails(j)
    \/ EndJob(j)

MeteringNext ==
  \/ \E r \in Requests, u \in Users, path \in Paths, scope \in Scopes :
       Answered(r, u, path, scope)
  \/ \E u \in Users, amount \in 1..MaxWallet : TopUp(u, amount)
  \/ Body
  \/ Record
  \/ Crash

MeteringSpec == MeteringInit /\ [][MeteringNext]_meteringVars

\* A spawned task runs to its end, and hyper drops the body of a connection that
\* closed or whose body failed.  No provider ever has to end its answer.
MeteringFairness ==
  /\ \A r \in Requests : WF_meteringVars(GuardDrops(r)) /\ WF_meteringVars(FailedBodyDropped(r))
  /\ WF_meteringVars(Record)

MeteringFairSpec == MeteringSpec /\ MeteringFairness

-----------------------------------------------------------------------------
\* Properties

\* The types of the tables and observers; no count passes what was reported.
MeteringTypeOK ==
  /\ request \in [Requests -> GatewayRequest]
  /\ observer \in [Requests -> Observer]
  /\ jobs \subseteq Job
  /\ rows \subseteq EventRow
  /\ orgRows \subseteq EventRow
  /\ charged \in [Requests -> 0..MaxUsage]
  /\ balance \in [Users -> 0..MaxWallet]
  /\ settled \subseteq {"usage"} \X Requests

\* A request is recorded at most once however its end and its client's leaving race:
\* the guard's finish and its Drop never both record it.
RecordedOnce ==
  \A r \in Requests :
    Cardinality({row \in rows : row.of = r} \cup
                {[of |-> j.of, by |-> j.by, outcome |-> j.outcome, tokens |-> j.tokens] :
                  j \in {k \in jobs : k.of = r}}) <= 1

\* A completed event holds all the usage the provider reported, of which only what
\* passed the size limit may be missing.
CompletedIsExact ==
  \A row \in rows : row.outcome = "completed" /\ ~observer[row.of].lost =>
    row.tokens = Total(observer[row.of])

\* A stream that did not complete keeps the usage of every event that was whole.
StreamsKeepUsage ==
  \A row \in rows : request[row.of].path \in Streams =>
    row.tokens >= observer[row.of].known

\* Money is taken only for a service request whose event is recorded, and never more
\* than the tokens of that event cost.
ChargedFromEvent ==
  \A r \in Requests : charged[r] > 0 =>
    /\ request[r].scope = "service"
    /\ \E row \in rows : row.of = r /\ charged[r] <= row.tokens

\* An organization counts only answers that the provider completed, that did not fail
\* on the way, and that belong to it; and it counts them with the tokens the usage
\* event holds, when that was recorded.
OrganizationCountsFinished ==
  \A row \in orgRows :
    /\ request[row.of].scope = "organization"
    /\ row.outcome = "completed" /\ Completes(row.of) /\ ~request[row.of].failed
    /\ \A event \in rows : event.of = row.of => event = row

\* A guarded answer whose recording is due: its body failed or was left with the guard
\* still pending, or the task that records it has not written its row.
Due(r) ==
  /\ request[r].path \in Guarded
  /\ \/ observer[r].pending /\ (request[r].phase = "left" \/ request[r].failed)
     \/ \E j \in jobs : j.of = r /\ j.next = "insert"

\* An answer that ended, failed or lost its client under a guard is recorded in the end,
\* unless its insert fails or the process dies: a client cannot make its request
\* unseen by going away.
AbandonedIsRecorded ==
  \A r \in Requests :
    Due(r) ~> \/ \E row \in rows : row.of = r
              \/ \E j \in jobs : j.of = r /\ j.next = "organization"
              \/ request[r].phase = "crashed"

\* record and its callers, together: one event for a request, with the usage the answer
\* reported, and no charge and no organization's count that it does not bear out.
EventsAreSound ==
  /\ RecordedOnce
  /\ CompletedIsExact
  /\ StreamsKeepUsage
  /\ ChargedFromEvent
  /\ OrganizationCountsFinished
=============================================================================
