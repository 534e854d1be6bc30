------------------------ MODULE CredentialRefreshProofs ------------------------
(***************************************************************************)
(* Proofs about CredentialRefresh, for any number of callers, any tokens   *)
(* and providers: the credential that is stored is good or its account is  *)
(* known to be bad, and marks and returns rest on it.                      *)
(*                                                                         *)
(* RefreshInv adds why: one caller at a time works on the credential; what *)
(* the provider has just answered is newer than what is stored, and the    *)
(* access tokens that requests carry are older or the stored one.          *)
(***************************************************************************)
EXTENDS CredentialRefresh, TLAPS

\* A caller that holds the credential's row, and one that has the provider's answer.
Holding(r) == r.stage \in {"ask", "write", "persist"}
Answered(r) == r.stage \in {"write", "persist"}

Retried(r) == r.retried = TRUE

\* A caller with record r, when `now` is the access token stored, `last` the last one issued and
\* `good` what the provider honours.
FitsIn(r, now, last, good) ==
  /\ Answered(r) => r.access = last /\ now < last /\ r.refresh \in good
  /\ r.observed <= now /\ r.earlier <= now
  /\ r.stage = "refreshed" /\ Retried(r) => r.earlier < now
  /\ r.stage = "sent" /\ Retried(r) => r.earlier < r.observed
  /\ r.stage = "mark" /\ r.message = "login required" => r.earlier < r.observed

CallersFit ==
  /\ \A c \in Callers : FitsIn(caller[c], cred.access, issued, honoured)
  /\ \A c, d \in Callers : Holding(caller[c]) /\ Holding(caller[d]) => c = d

\* An account that was asked for and is still due is being refreshed.
AsksFit ==
  /\ asks < 2
  /\ asks = 1 /\ cred.due =>
       \E c \in Callers : Holding(caller[c]) /\ caller[c].mode \in {"stale", "recover"}

RefreshInv ==
  /\ TypeOK
  /\ cred.access <= issued
  /\ CallersFit
  /\ AsksFit
  /\ StoredTokenIsHonoured
  /\ DeadLoginIsNotServed

-----------------------------------------------------------------------------
\* Steps in general

\* A caller that has read no token.
Blank(r) == r \in Caller /\ ~Holding(r) /\ r.observed = 0 /\ r.earlier = 0 /\ ~Retried(r) /\ r.stage # "mark"

\* The names the records are made of.
LEMMA Names ==
  /\ {"idle", "begin", "ask", "write", "persist", "attempted", "expiring", "refreshed", "sent", "mark",
      "prompting", "settling", "failing", "failed", "exchanging"} \subseteq Stages
  /\ Modes = {"stale", "nightly", "recover", "force", "force_all", "near_expiry", "rejected"}
  /\ Messages = {"login required", "prompt expired", "verification", "none", "expired", "not completed"}
  /\ Attempts = {1, 2}
  /\ Probes = {"verified", "required", "inconclusive"}
  /\ 0 \in Tokens /\ Tokens \subseteq Nat
<1>1. Attempts = {1, 2}
  BY DEF Attempts
<1>2. 0 \in Tokens /\ Tokens \subseteq Nat
  BY RefreshAssumption DEF Tokens
<1> QED
  BY <1>1, <1>2 DEF Stages, Tasks, Handlers, Modes, Scheduled, Restoring, Messages, Recoverable, Probes

LEMMA IdleIsACaller == Idle \in Caller
  BY Names DEF Idle, Caller

LEMMA IdleFields ==
  /\ Idle.stage = "idle" /\ Idle.mode = "none" /\ Idle.observed = 0 /\ Idle.earlier = 0 /\ ~Retried(Idle)
  BY DEF Idle, Retried

LEMMA IdleIsBlank == Blank(Idle)
  BY IdleFields, IdleIsACaller DEF Blank, Holding

\* The records of callers that have read nothing.
LEMMA BlankRecords ==
  /\ \A m \in Modes : Blank([Idle EXCEPT !.stage = "begin", !.mode = m])
  /\ \A s \in {"refreshed", "attempted", "prompting"} : Blank([Idle EXCEPT !.stage = s])
  /\ Blank([Idle EXCEPT !.stage = "expiring", !.held = TRUE])
  /\ \A text \in Messages : Blank([Idle EXCEPT !.stage = "failing", !.message = text])
  /\ \A own \in BOOLEAN : Blank([Idle EXCEPT !.stage = "exchanging", !.own = own])
<1> USE Names, IdleIsACaller, IdleFields DEF Caller, Blank, Holding, Retried
<1>1. ASSUME NEW m \in Modes PROVE Blank([Idle EXCEPT !.stage = "begin", !.mode = m])
  OBVIOUS
<1>2. ASSUME NEW s \in {"refreshed", "attempted", "prompting"} PROVE Blank([Idle EXCEPT !.stage = s])
  OBVIOUS
<1>3. Blank([Idle EXCEPT !.stage = "expiring", !.held = TRUE])
  OBVIOUS
<1>4. ASSUME NEW text \in Messages PROVE Blank([Idle EXCEPT !.stage = "failing", !.message = text])
  OBVIOUS
<1>5. ASSUME NEW own \in BOOLEAN PROVE Blank([Idle EXCEPT !.stage = "exchanging", !.own = own])
  OBVIOUS
<1> QED
  BY <1>1, <1>2, <1>3, <1>4, <1>5

LEMMA BlankFits ==
  ASSUME NEW r, Blank(r), NEW now \in Nat, NEW last, NEW good
  PROVE  FitsIn(r, now, last, good)
<1>1. r.observed = 0 /\ r.earlier = 0 /\ r.stage # "mark" /\ ~Retried(r)
  BY DEF Blank
<1>2. ~Answered(r)
  BY DEF Blank, Holding, Answered
<1>3. r.observed <= now /\ r.earlier <= now
  BY <1>1
<1> QED
  BY <1>1, <1>2, <1>3 DEF FitsIn

LEMMA TokensAreNat == Tokens \subseteq Nat /\ 0 \in Tokens
  BY RefreshAssumption DEF Tokens

\* Caller c goes on to r.
LEMMA CallersStep ==
  ASSUME RefreshInv, NEW c \in Callers, NEW r \in Caller, Become(c, r),
         cred' \in Credential, issued' \in Tokens, cred.access <= cred'.access,
         FitsIn(r, cred'.access, issued', honoured'),
         \A d \in Callers \ {c} : Holding(caller[d]) =>
           ~Holding(r) /\ issued' = issued /\ cred'.access = cred.access /\ honoured \subseteq honoured'
  PROVE  /\ CallersFit' /\ caller' \in [Callers -> Caller]
         /\ \A d \in Callers : caller'[d] = IF d = c THEN r ELSE caller[d]
<1>1. caller' \in [Callers -> Caller] /\ \A d \in Callers : caller'[d] = IF d = c THEN r ELSE caller[d]
  BY DEF RefreshInv, TypeOK, Become
<1>2. cred.access \in Nat /\ cred'.access \in Nat /\ issued \in Nat /\ issued' \in Nat
  BY TokensAreNat DEF RefreshInv, TypeOK, Credential
<1>3. ASSUME NEW d \in Callers \ {c}
      PROVE  FitsIn(caller[d], cred'.access, issued', honoured')
  <2>1. FitsIn(caller[d], cred.access, issued, honoured)
    BY DEF RefreshInv, CallersFit
  <2>2. caller[d].observed \in Nat /\ caller[d].earlier \in Nat
    BY TokensAreNat DEF RefreshInv, TypeOK, Caller
  <2>3. CASE Holding(caller[d])
    <3>1. issued' = issued /\ cred'.access = cred.access /\ honoured \subseteq honoured'
      BY <2>3
    <3>2. Answered(caller[d]) => /\ caller[d].access = issued' /\ cred'.access < issued'
                                 /\ caller[d].refresh \in honoured'
      BY <2>1, <3>1 DEF FitsIn
    <3>3. /\ caller[d].observed <= cred'.access /\ caller[d].earlier <= cred'.access
          /\ caller[d].stage \notin {"refreshed", "sent", "mark"}
      BY <2>1, <2>3, <3>1 DEF FitsIn, Holding
    <3> QED
      BY <3>2, <3>3 DEF FitsIn
  <2>4. CASE ~Holding(caller[d])
    <3>1. ~Answered(caller[d])
      BY <2>4 DEF Answered, Holding
    <3>2. /\ caller[d].observed <= cred.access /\ caller[d].earlier <= cred.access
          /\ caller[d].stage = "refreshed" /\ Retried(caller[d]) => caller[d].earlier < cred.access
          /\ caller[d].stage = "sent" /\ Retried(caller[d]) => caller[d].earlier < caller[d].observed
          /\ caller[d].stage = "mark" /\ caller[d].message = "login required" =>
               caller[d].earlier < caller[d].observed
      BY <2>1 DEF FitsIn
    <3>3. \A n \in Nat : /\ n <= cred.access => n <= cred'.access
                         /\ n < cred.access => n < cred'.access
      BY <1>2
    <3>4. /\ caller[d].observed <= cred'.access /\ caller[d].earlier <= cred'.access
          /\ caller[d].earlier < cred.access => caller[d].earlier < cred'.access
      BY <2>2, <3>2, <3>3
    <3> QED
      BY <3>1, <3>2, <3>4 DEF FitsIn
  <2> QED
    BY <2>3, <2>4
<1>4. \A d \in Callers : FitsIn(caller'[d], cred'.access, issued', honoured')
  BY <1>1, <1>3
<1>5. \A d, e \in Callers : Holding(caller'[d]) /\ Holding(caller'[e]) => d = e
  BY <1>1 DEF RefreshInv, CallersFit
<1>6. CallersFit'
  BY <1>4, <1>5 DEF CallersFit, FitsIn, Answered, Holding
<1> QED
  BY <1>1, <1>6

\* A caller that does not hold the credential goes on without it.
LEMMA QuietStep ==
  ASSUME RefreshInv, NEW c \in Callers, NEW r \in Caller, Become(c, r),
         ~Holding(caller[c]), ~Holding(r), FitsIn(r, cred.access, issued, honoured),
         cred' \in Credential, cred'.access = cred.access, cred'.refresh = cred.refresh, cred'.due => cred.due,
         conn' \in Connection, conn.availability = "reauth" => conn'.availability = "reauth",
         prompt' \in {"none", "open", "expired"}, UNCHANGED <<Provider, stopping, History>>
  PROVE  RefreshInv'
<1>1. issued' = issued /\ honoured' = honoured /\ UNCHANGED <<provider, stopping, lost, refused, asks>>
  BY DEF Provider, History
<1>2. cred.access \in Nat /\ issued \in Tokens
  BY TokensAreNat DEF RefreshInv, TypeOK, Credential
<1>3. /\ CallersFit' /\ caller' \in [Callers -> Caller]
      /\ \A d \in Callers : caller'[d] = IF d = c THEN r ELSE caller[d]
  BY <1>1, <1>2, CallersStep
<1>4. \A d \in Callers :
        /\ Holding(caller'[d]) <=> Holding(caller[d])
        /\ Holding(caller[d]) => caller'[d] = caller[d]
  BY <1>3
<1>5. AsksFit'
  <2>1. asks' < 2
    BY <1>1 DEF RefreshInv, AsksFit
  <2>2. ASSUME asks' = 1, cred'.due
        PROVE  \E d \in Callers : Holding(caller'[d]) /\ caller'[d].mode \in {"stale", "recover"}
    <3>1. PICK d \in Callers : Holding(caller[d]) /\ caller[d].mode \in {"stale", "recover"}
      BY <1>1, <2>2 DEF RefreshInv, AsksFit
    <3> QED
      BY <1>4, <3>1
  <2> QED
    BY <2>1, <2>2 DEF AsksFit, Holding
<1>6. StoredTokenIsHonoured'
  <2>1. \A d \in Callers : caller[d].stage \in {"write", "persist"} => caller'[d].stage \in {"write", "persist"}
    BY <1>4 DEF Holding
  <2> QED
    BY <1>1, <2>1 DEF RefreshInv, StoredTokenIsHonoured
<1>7. DeadLoginIsNotServed'
  BY <1>1 DEF RefreshInv, DeadLoginIsNotServed
<1>8. TypeOK'
  BY <1>1, <1>3 DEF RefreshInv, TypeOK
<1> QED
  BY <1>1, <1>3, <1>5, <1>6, <1>7, <1>8 DEF RefreshInv
\* Only one caller holds the credential.
LEMMA HoldsAlone ==
  ASSUME RefreshInv, NEW c \in Callers, Holding(caller[c])
  PROVE  \A d \in Callers \ {c} : ~Holding(caller[d])
  BY DEF RefreshInv, CallersFit

LEMMA FreeIsNotHeld ==
  ASSUME CredentialFree
  PROVE  \A c \in Callers : ~Holding(caller[c])
  BY DEF CredentialFree, Holding

LEMMA CallerTypes ==
  ASSUME RefreshInv, NEW c \in Callers
  PROVE  /\ caller[c] \in Caller
         /\ caller[c].observed \in Tokens /\ caller[c].earlier \in Tokens
         /\ caller[c].access \in Tokens /\ caller[c].refresh \in Tokens
         /\ caller[c].mode \in Modes \cup {"none"} /\ caller[c].attempt \in Attempts
         /\ caller[c].message \in Messages /\ caller[c].retried \in BOOLEAN
         /\ FitsIn(caller[c], cred.access, issued, honoured)
<1>1. caller[c] \in Caller /\ FitsIn(caller[c], cred.access, issued, honoured)
  BY DEF RefreshInv, TypeOK, CallersFit
<1> QED
  BY <1>1 DEF Caller

LEMMA RowTypes ==
  ASSUME RefreshInv
  PROVE  /\ cred \in Credential /\ conn \in Connection /\ prompt \in {"none", "open", "expired"}
         /\ cred.access \in Nat /\ issued \in Nat /\ cred.access <= issued /\ cred.access \in Tokens
         /\ cred.refresh \in Tokens /\ issued \in Tokens /\ honoured \subseteq Tokens
<1>1. cred \in Credential /\ issued \in Tokens
  BY DEF RefreshInv, TypeOK
<1>2. cred.access \in Tokens /\ cred.refresh \in Tokens
  BY <1>1 DEF Credential
<1> QED
  BY <1>1, <1>2, TokensAreNat DEF RefreshInv, TypeOK

\* A caller that holds the credential, or takes it or stores one while it is free, goes on to r.
LEMMA HolderStep ==
  ASSUME RefreshInv, NEW c \in Callers, NEW r \in Caller, Become(c, r),
         \A d \in Callers \ {c} : ~Holding(caller[d]),
         cred' \in Credential, cred.access <= cred'.access,
         issued' \in Tokens, cred'.access <= issued', honoured' \subseteq Tokens,
         FitsIn(r, cred'.access, issued', honoured'),
         conn' \in Connection, prompt' \in {"none", "open", "expired"}, UNCHANGED <<provider, stopping>>,
         lost' \in {"none", "answer", "aborted", "killed", "revoked"}, refused' \in BOOLEAN, asks' \in {0, 1},
         asks' = 1 /\ cred'.due => Holding(r) /\ r.mode \in {"stale", "recover"},
         cred'.refresh \in honoured' \/ lost' # "none" \/ Answered(r),
         refused' => conn'.availability = "reauth"
  PROVE  RefreshInv'
<1>1. /\ CallersFit' /\ caller' \in [Callers -> Caller]
      /\ \A d \in Callers : caller'[d] = IF d = c THEN r ELSE caller[d]
  BY CallersStep
<1>2. caller'[c] = r
  BY <1>1
<1>3. AsksFit'
  BY <1>2 DEF AsksFit, Holding
<1>4. StoredTokenIsHonoured'
  BY <1>2 DEF StoredTokenIsHonoured, Answered
<1>5. DeadLoginIsNotServed'
  BY DEF DeadLoginIsNotServed
<1>6. TypeOK'
  BY <1>1 DEF RefreshInv, TypeOK
<1> QED
  BY <1>1, <1>3, <1>4, <1>5, <1>6 DEF RefreshInv

-----------------------------------------------------------------------------
\* Steps that leave the credential alone

LEMMA QuietLeave ==
  ASSUME RefreshInv, NEW c \in Callers, Leave(c), ~Holding(caller[c]),
         cred' \in Credential, cred'.access = cred.access, cred'.refresh = cred.refresh, cred'.due => cred.due,
         conn' \in Connection, conn.availability = "reauth" => conn'.availability = "reauth",
         prompt' \in {"none", "open", "expired"}, UNCHANGED <<Provider, stopping, History>>
  PROVE  RefreshInv'
<1>1. Idle \in Caller /\ ~Holding(Idle) /\ FitsIn(Idle, cred.access, issued, honoured)
  BY IdleIsBlank, BlankFits, RowTypes DEF Blank
<1>2. Become(c, Idle)
  BY DEF Leave
<1> QED
  BY <1>1, <1>2, QuietStep

\* Nothing but caller c changes.
Only == UNCHANGED <<cred, conn, prompt, Provider, stopping, History>>

LEMMA QuietBlank ==
  ASSUME RefreshInv, NEW c \in Callers, NEW r, Blank(r), Become(c, r), ~Holding(caller[c]), Only
  PROVE  RefreshInv'
<1>1. r \in Caller /\ ~Holding(r) /\ FitsIn(r, cred.access, issued, honoured)
  BY BlankFits, RowTypes DEF Blank
<1>2. cred' = cred /\ conn' = conn /\ prompt' = prompt /\ UNCHANGED <<Provider, stopping, History>>
  BY DEF Only
<1>3. cred' \in Credential /\ conn' \in Connection /\ prompt' \in {"none", "open", "expired"}
  BY <1>2, RowTypes
<1> QED
  BY <1>1, <1>2, <1>3, QuietStep

LEMMA QuietRecord ==
  ASSUME RefreshInv, NEW c \in Callers, NEW r \in Caller, Become(c, r), ~Holding(caller[c]), ~Holding(r),
         FitsIn(r, cred.access, issued, honoured), Only
  PROVE  RefreshInv'
<1>2. cred' = cred /\ conn' = conn /\ prompt' = prompt /\ UNCHANGED <<Provider, stopping, History>>
  BY DEF Only
<1>3. cred' \in Credential /\ conn' \in Connection /\ prompt' \in {"none", "open", "expired"}
  BY <1>2, RowTypes
<1> QED
  BY <1>2, <1>3, QuietStep

LEMMA BeginKeeps ==
  ASSUME RefreshInv, NEW c \in Callers, NEW m \in Modes, Begin(c, m)
  PROVE  RefreshInv'
<1>1. ~Holding(caller[c]) /\ Become(c, [Idle EXCEPT !.stage = "begin", !.mode = m]) /\ Only
  BY DEF Begin, Holding, Only
<1> QED
  BY <1>1, BlankRecords, QuietBlank

LEMMA BeginningsKeep ==
  ASSUME RefreshInv, NEW c \in Callers,
         SweepStale(c) \/ SweepRecover(c) \/ SweepNightly(c) \/ ForceRefresh(c) \/ RequestRefreshes(c)
  PROVE  RefreshInv'
  BY BeginKeeps, Names DEF SweepStale, SweepRecover, SweepNightly, ForceRefresh, RequestRefreshes

\* What the invariant says of what a caller has read.
LEMMA CallerReads ==
  ASSUME RefreshInv, NEW c \in Callers
  PROVE  /\ caller[c].observed \in Nat /\ caller[c].earlier \in Nat
         /\ caller[c].observed <= cred.access /\ caller[c].earlier <= cred.access
         /\ caller[c].stage = "refreshed" /\ Retried(caller[c]) => caller[c].earlier < cred.access
         /\ caller[c].stage = "sent" /\ Retried(caller[c]) => caller[c].earlier < caller[c].observed
         /\ caller[c].stage = "mark" /\ caller[c].message = "login required" =>
              caller[c].earlier < caller[c].observed
         /\ Answered(caller[c]) => /\ caller[c].access = issued /\ cred.access < issued
                                   /\ caller[c].refresh \in honoured
<1>1. FitsIn(caller[c], cred.access, issued, honoured)
  BY CallerTypes
<1>2. caller[c].observed \in Nat /\ caller[c].earlier \in Nat
  BY CallerTypes, TokensAreNat
<1> QED
  BY <1>1, <1>2 DEF FitsIn

LEMMA RequestSentKeeps ==
  ASSUME RefreshInv, NEW c \in Callers, RequestSent(c)
  PROVE  RefreshInv'
<1> DEFINE r == [Idle EXCEPT !.stage = "sent", !.observed = cred.access]
<1>1. Become(c, r) /\ ~Holding(caller[c]) /\ Only
  BY DEF RequestSent, Holding, Only
<1>2. r \in Caller
  BY Names, IdleIsACaller, RowTypes DEF Caller
<1>3. r.stage = "sent" /\ r.observed = cred.access /\ r.earlier = 0 /\ ~Retried(r)
  BY Names, IdleIsACaller, IdleFields DEF Caller, Retried
<1> HIDE DEF r
<1>4. ~Holding(r) /\ FitsIn(r, cred.access, issued, honoured)
  BY <1>3, RowTypes DEF Holding, Answered, FitsIn
<1> QED
  BY <1>1, <1>2, <1>4, QuietRecord

\* A caller that goes on with what it has read, or less.
LEMMA SameReadsFit ==
  ASSUME RefreshInv, NEW c \in Callers, NEW r \in Caller, ~Holding(r), r.stage \notin {"refreshed", "sent", "mark"},
         r.observed = caller[c].observed, r.earlier = caller[c].earlier
  PROVE  FitsIn(r, cred.access, issued, honoured)
  BY CallerTypes DEF FitsIn, Answered, Holding

LEMMA RequestRejectedKeeps ==
  ASSUME RefreshInv, NEW c \in Callers, RequestRejected(c)
  PROVE  RefreshInv'
<1> DEFINE m == [caller[c] EXCEPT !.stage = "mark", !.message = "login required"]
           b == [caller[c] EXCEPT !.stage = "begin", !.mode = "rejected"]
<1>1. caller[c].stage = "sent" /\ ~Holding(caller[c]) /\ Only
  BY DEF RequestRejected, Holding, Only
<1>2. CASE caller[c].retried
  <2>1. Become(c, m)
    BY <1>2 DEF RequestRejected
  <2>2. m \in Caller /\ m.stage = "mark" /\ m.observed = caller[c].observed /\ m.earlier = caller[c].earlier
    BY Names, CallerTypes DEF Caller
  <2>3. Retried(caller[c])
    BY <1>2, CallerTypes DEF Retried
  <2> HIDE DEF m
  <2>4. ~Holding(m) /\ FitsIn(m, cred.access, issued, honoured)
    BY <1>1, <2>2, <2>3, CallerTypes DEF Holding, FitsIn, Answered
  <2> QED
    BY <1>1, <2>1, <2>2, <2>4, QuietRecord
<1>3. CASE ~caller[c].retried
  <2>1. Become(c, b)
    BY <1>3 DEF RequestRejected
  <2>2. b \in Caller /\ b.stage = "begin" /\ b.observed = caller[c].observed /\ b.earlier = caller[c].earlier
    BY Names, CallerTypes DEF Caller
  <2> HIDE DEF b
  <2>3. ~Holding(b)
    BY <2>2 DEF Holding
  <2>4. FitsIn(b, cred.access, issued, honoured)
    BY <2>2, <2>3, SameReadsFit
  <2> QED
    BY <1>1, <2>1, <2>2, <2>3, <2>4, QuietRecord
<1> QED
  BY <1>2, <1>3

LEMMA RequestChallengedKeeps ==
  ASSUME RefreshInv, NEW c \in Callers, RequestChallenged(c)
  PROVE  RefreshInv'
<1> DEFINE r == [Idle EXCEPT !.stage = "mark", !.observed = caller[c].observed, !.message = "verification"]
<1>1. Become(c, r) /\ ~Holding(caller[c]) /\ Only
  BY DEF RequestChallenged, Holding, Only
<1>2. r \in Caller /\ r.stage = "mark" /\ r.observed = caller[c].observed /\ r.earlier = 0 /\ r.message = "verification"
  BY Names, IdleIsACaller, IdleFields, CallerTypes DEF Caller
<1> HIDE DEF r
<1>3. r.observed <= cred.access /\ r.earlier <= cred.access
  <2>1. caller[c].observed <= cred.access
    BY CallerReads
  <2>2. 0 <= cred.access
    BY RowTypes
  <2> QED
    BY <1>2, <2>1, <2>2
<1>4. ~Holding(r) /\ FitsIn(r, cred.access, issued, honoured)
  BY <1>2, <1>3 DEF Holding, Answered, FitsIn
<1> QED
  BY <1>1, <1>2, <1>4, QuietRecord

LEMMA WritePromptKeeps ==
  ASSUME RefreshInv, NEW c \in Callers, WritePrompt(c)
  PROVE  RefreshInv'
<1> DEFINE held == prompt # "none"
           r == [caller[c] EXCEPT !.stage = "settling", !.held = held]
<1>1. Become(c, r) /\ ~Holding(caller[c]) /\ Only
  BY DEF WritePrompt, Holding, Only
<1>2. held \in BOOLEAN
  OBVIOUS
<1>3. r \in Caller /\ r.stage = "settling" /\ r.observed = caller[c].observed /\ r.earlier = caller[c].earlier
  <2> HIDE DEF held
  <2> QED
    BY <1>2, CallerTypes, Names DEF Caller
<1> HIDE DEF r
<1>4. ~Holding(r)
  BY <1>3 DEF Holding
<1> QED
  BY <1>1, <1>3, <1>4, SameReadsFit, QuietRecord

LEMMA ReadAgainKeeps ==
  ASSUME RefreshInv, NEW c \in Callers, ReadAgain(c)
  PROVE  RefreshInv'
<1> DEFINE r == [caller[c] EXCEPT !.stage = "sent", !.observed = cred.access]
<1>1. Become(c, r) /\ ~Holding(caller[c]) /\ Only /\ caller[c].stage = "refreshed"
  BY DEF ReadAgain, Holding, Only
<1>2. r \in Caller /\ r.stage = "sent" /\ r.observed = cred.access /\ r.earlier = caller[c].earlier
  BY Names, CallerTypes, RowTypes DEF Caller
<1>3. r.retried = caller[c].retried
  BY CallerTypes DEF Caller
<1>4. Retried(r) <=> Retried(caller[c])
  BY <1>3 DEF Retried
<1> HIDE DEF r
<1>5. /\ r.observed <= cred.access /\ r.earlier <= cred.access
      /\ Retried(r) => r.earlier < r.observed
  <2>1. /\ caller[c].earlier <= cred.access
        /\ Retried(caller[c]) => caller[c].earlier < cred.access
    BY <1>1, CallerReads
  <2>2. cred.access <= cred.access
    BY RowTypes
  <2> QED
    BY <1>2, <1>4, <2>1, <2>2
<1>6. ~Holding(r) /\ FitsIn(r, cred.access, issued, honoured)
  BY <1>2, <1>5 DEF Holding, Answered, FitsIn
<1> QED
  BY <1>1, <1>2, <1>6, QuietRecord

LEMMA DeleteExpiredKeeps ==
  ASSUME RefreshInv, NEW c \in Callers, DeleteExpired(c)
  PROVE  RefreshInv'
<1> DEFINE r == [Idle EXCEPT !.stage = "expiring", !.held = TRUE]
<1>1. Become(c, r) /\ ~Holding(caller[c]) /\ Only
  BY DEF DeleteExpired, Holding, Only
<1>2. Blank(r)
  BY BlankRecords
<1> HIDE DEF r
<1> QED
  BY <1>1, <1>2, QuietBlank

LEMMA PollFailsKeeps ==
  ASSUME RefreshInv, NEW c \in Callers, PollFails(c)
  PROVE  RefreshInv'
<1> DEFINE text == IF prompt = "expired" THEN "prompt expired" ELSE "not completed"
           r == [Idle EXCEPT !.stage = "failing", !.message = text]
<1>1. Become(c, r) /\ ~Holding(caller[c]) /\ Only
  BY DEF PollFails, Holding, Only
<1>2. text \in Messages
  BY Names
<1>3. Blank(r)
  <2> HIDE DEF text
  <2> QED
    BY <1>2, BlankRecords
<1> HIDE DEF r
<1> QED
  BY <1>1, <1>3, QuietBlank

LEMMA ExchangeCodeKeeps ==
  ASSUME RefreshInv, NEW c \in Callers, ExchangeCode(c)
  PROVE  RefreshInv'
<1>1. PICK own \in BOOLEAN : Become(c, [Idle EXCEPT !.stage = "exchanging", !.own = own])
  BY DEF ExchangeCode
<1>2. ~Holding(caller[c]) /\ Only
  BY DEF ExchangeCode, Holding, Only
<1> DEFINE r == [Idle EXCEPT !.stage = "exchanging", !.own = own]
<1>3. Blank(r)
  BY BlankRecords
<1>4. Become(c, r)
  BY <1>1
<1> HIDE DEF r
<1> QED
  BY <1>2, <1>3, <1>4, QuietBlank

LEMMA FailDeletesPromptKeeps ==
  ASSUME RefreshInv, NEW c \in Callers, FailDeletesPrompt(c)
  PROVE  RefreshInv'
<1> DEFINE r == [caller[c] EXCEPT !.stage = "failed"]
<1>1. /\ Become(c, r) /\ ~Holding(caller[c]) /\ prompt' = "none"
      /\ UNCHANGED <<cred, conn, Provider, stopping, History>>
  BY DEF FailDeletesPrompt, Holding
<1>2. r \in Caller /\ r.stage = "failed" /\ r.observed = caller[c].observed /\ r.earlier = caller[c].earlier
  BY CallerTypes, Names DEF Caller
<1> HIDE DEF r
<1>3. ~Holding(r)
  BY <1>2 DEF Holding
<1>4. FitsIn(r, cred.access, issued, honoured)
  BY <1>2, <1>3, SameReadsFit
<1> QED
  BY <1>1, <1>2, <1>3, <1>4, RowTypes, QuietStep

\* What callers write when they leave.
LEMMA Rows ==
  ASSUME RefreshInv
  PROVE  /\ \A text \in Messages : Reauth(text) \in Connection /\ Reauth(text).availability = "reauth"
         /\ Active \in Connection /\ Active.availability = "active"
         /\ Tried \in Credential /\ Tried.access = cred.access /\ Tried.refresh = cred.refresh /\ Tried.due = FALSE
<1>1. \A text \in Messages : Reauth(text) \in Connection /\ Reauth(text).availability = "reauth"
  BY DEF Reauth, Connection
<1>2. Active \in Connection /\ Active.availability = "active"
  BY Names DEF Active, Connection
<1>3. Tried \in Credential /\ Tried.access = cred.access /\ Tried.refresh = cred.refresh /\ Tried.due = FALSE
  BY RowTypes DEF Tried, Credential
<1> QED
  BY <1>1, <1>2, <1>3

LEMMA UnfinishedKeeps ==
  ASSUME RefreshInv, NEW text \in Messages
  PROVE  /\ Unfinished(text) \in Connection
         /\ conn.availability = "reauth" <=> Unfinished(text).availability = "reauth"
  BY Rows, RowTypes DEF Unfinished

LEMMA OnlyLeaveKeeps ==
  ASSUME RefreshInv, NEW c \in Callers, Leave(c), ~Holding(caller[c]), Only
  PROVE  RefreshInv'
  BY IdleIsBlank, QuietBlank DEF Leave

LEMMA LeavesKeep ==
  ASSUME RefreshInv, NEW c \in Callers,
         \/ RequestServed(c) \/ Mark(c) \/ RecordAttempt(c) \/ CommitPrompt(c)
         \/ CommitExpired(c) \/ FailUpdates(c) \/ HandlerDropped(c)
  PROVE  RefreshInv'
<1>1. CASE RequestServed(c)
  <2>1. Leave(c) /\ ~Holding(caller[c]) /\ Only
    BY <1>1 DEF RequestServed, Holding, Only
  <2> QED
    BY <2>1, OnlyLeaveKeeps
<1>2. CASE HandlerDropped(c)
  <2>1. Leave(c) /\ ~Holding(caller[c]) /\ Only
    BY <1>2 DEF HandlerDropped, Handlers, Holding, Only
  <2> QED
    BY <2>1, OnlyLeaveKeeps
<1>3. CASE Mark(c)
  <2>1. /\ Leave(c) /\ ~Holding(caller[c]) /\ UNCHANGED <<Provider, stopping, History>>
        /\ cred' = cred /\ prompt' = prompt
        /\ conn' = Reauth(caller[c].message) \/ conn' = conn
    BY <1>3 DEF Mark, Holding
  <2>2. Reauth(caller[c].message) \in Connection /\ Reauth(caller[c].message).availability = "reauth"
    BY Rows, CallerTypes
  <2>3. conn' \in Connection /\ (conn.availability = "reauth" => conn'.availability = "reauth")
    BY <2>1, <2>2, RowTypes
  <2> QED
    BY <2>1, <2>3, RowTypes, QuietLeave
<1>4. CASE RecordAttempt(c)
  <2>1. /\ Leave(c) /\ ~Holding(caller[c]) /\ UNCHANGED <<Provider, stopping, History>>
        /\ cred' = Tried /\ prompt' = prompt /\ conn' = conn
    BY <1>4 DEF RecordAttempt, Holding
  <2>2. /\ cred' \in Credential /\ cred'.access = cred.access /\ cred'.refresh = cred.refresh
        /\ ~cred'.due
    BY <2>1, Rows
  <2>3. cred'.due => cred.due
    BY <2>2
  <2> QED
    BY <2>1, <2>2, <2>3, RowTypes, QuietLeave
<1>5. CASE CommitPrompt(c)
  <2>1. /\ Leave(c) /\ ~Holding(caller[c]) /\ UNCHANGED <<Provider, stopping, History>>
        /\ cred' = cred /\ prompt' = "open" /\ conn' = Reauth("none")
    BY <1>5 DEF CommitPrompt, Holding
  <2>2. conn' \in Connection /\ conn'.availability = "reauth"
    BY <2>1, Rows, Names
  <2> QED
    BY <2>1, <2>2, RowTypes, QuietLeave
<1>6. CASE CommitExpired(c)
  <2>1. /\ Leave(c) /\ ~Holding(caller[c]) /\ UNCHANGED <<Provider, stopping, History>>
        /\ cred' = cred /\ prompt' = "none" /\ conn' = Unfinished("prompt expired")
    BY <1>6 DEF CommitExpired, Holding
  <2>2. conn' \in Connection /\ (conn.availability = "reauth" => conn'.availability = "reauth")
    BY <2>1, UnfinishedKeeps, Names
  <2> QED
    BY <2>1, <2>2, RowTypes, QuietLeave
<1>7. CASE FailUpdates(c)
  <2>1. /\ Leave(c) /\ ~Holding(caller[c]) /\ UNCHANGED <<Provider, stopping, History>>
        /\ cred' = cred /\ prompt' = prompt /\ conn' = Unfinished(caller[c].message)
    BY <1>7 DEF FailUpdates, Holding
  <2>2. conn' \in Connection /\ (conn.availability = "reauth" => conn'.availability = "reauth")
    BY <2>1, UnfinishedKeeps, CallerTypes
  <2> QED
    BY <2>1, <2>2, RowTypes, QuietLeave
<1> QED
  BY <1>1, <1>2, <1>3, <1>4, <1>5, <1>6, <1>7

-----------------------------------------------------------------------------
\* Steps that take, replace or give up the credential

LEMMA RefreshedIsACaller ==
  ASSUME RefreshInv, NEW c \in Callers
  PROVE  /\ Refreshed(c) \in Caller /\ ~Holding(Refreshed(c))
         /\ Refreshed(c).observed = 0
         /\ Refreshed(c).stage \notin {"sent", "mark"}
         /\ Refreshed(c).earlier \in {0, caller[c].observed}
         /\ caller[c].mode # "rejected" => Refreshed(c).earlier = 0 /\ ~Retried(Refreshed(c))
<1> DEFINE r == [Idle EXCEPT !.stage = "refreshed", !.retried = TRUE, !.earlier = caller[c].observed]
<1>1. /\ r \in Caller /\ r.stage = "refreshed" /\ r.observed = 0 /\ r.earlier = caller[c].observed
  BY IdleIsACaller, IdleFields, CallerTypes, Names DEF Caller
<1>2. ASSUME NEW s \in {"refreshed", "attempted"}
      PROVE  /\ Blank([Idle EXCEPT !.stage = s]) /\ [Idle EXCEPT !.stage = s].stage = s
  BY BlankRecords, IdleIsACaller DEF Caller
<1>3. Blank(Idle) /\ Idle.stage = "idle"
  BY IdleIsBlank, IdleFields
<1> HIDE DEF r
<1>4. CASE caller[c].mode = "rejected"
  <2>1. Refreshed(c) = r
    BY <1>4 DEF Refreshed, r
  <2> QED
    BY <1>1, <1>4, <2>1 DEF Holding
<1>5. CASE caller[c].mode # "rejected"
  <2>1. Blank(Refreshed(c)) /\ Refreshed(c).stage \in {"refreshed", "attempted", "idle"}
    BY <1>2, <1>3, <1>5 DEF Refreshed
  <2> QED
    BY <1>5, <2>1 DEF Blank
<1> QED
  BY <1>4, <1>5

LEMMA OtherEndsAreBlank ==
  ASSUME NEW c \in Callers
  PROVE  Blank(NeedsOwner(c)) /\ Blank(Failed(c))
<1>1. /\ Blank([Idle EXCEPT !.stage = "attempted"]) /\ Blank([Idle EXCEPT !.stage = "prompting"]) /\ Blank(Idle)
  BY BlankRecords, IdleIsBlank
<1> QED
  BY <1>1 DEF NeedsOwner, Failed

LEMMA LockCredentialKeeps ==
  ASSUME RefreshInv, NEW c \in Callers, LockCredential(c)
  PROVE  RefreshInv'
<1>1. /\ caller[c].stage = "begin" /\ CredentialFree
      /\ cred' = cred /\ conn' = conn /\ prompt' = prompt /\ UNCHANGED <<Provider, stopping, lost, refused>>
  BY DEF LockCredential
<1>2. \A d \in Callers : ~Holding(caller[d])
  BY <1>1, FreeIsNotHeld
<1>3. CASE ShouldRefresh(c)
  <2> DEFINE r == [caller[c] EXCEPT !.stage = "ask"]
  <2>1. /\ Become(c, r)
        /\ asks' = IF caller[c].mode \in {"stale", "recover"} /\ asks < 2 THEN asks + 1 ELSE asks
    BY <1>3 DEF LockCredential
  <2>2. /\ r \in Caller /\ r.stage = "ask" /\ r.mode = caller[c].mode
        /\ r.observed = caller[c].observed /\ r.earlier = caller[c].earlier
    BY CallerTypes, Names DEF Caller
  <2> HIDE DEF r
  <2>3. Holding(r) /\ ~Answered(r)
    BY <2>2 DEF Holding, Answered
  <2>4. FitsIn(r, cred.access, issued, honoured)
    BY <2>2, <2>3, CallerReads DEF FitsIn
  <2>5. caller[c].mode \in {"stale", "recover"} => cred.due
    BY <1>3 DEF ShouldRefresh
  <2>6. asks \in {0, 1} /\ ~(asks = 1 /\ cred.due)
    BY <1>2 DEF RefreshInv, TypeOK, AsksFit
  <2>7. asks' \in {0, 1} /\ (asks' = 1 /\ cred.due => r.mode \in {"stale", "recover"})
    BY <2>1, <2>2, <2>5, <2>6
  <2>8. /\ lost \in {"none", "answer", "aborted", "killed", "revoked"} /\ refused \in BOOLEAN
        /\ cred.refresh \in honoured \/ lost # "none"
        /\ refused => conn.availability = "reauth"
    BY <1>2 DEF RefreshInv, TypeOK, StoredTokenIsHonoured, DeadLoginIsNotServed, Holding
  <2>9. UNCHANGED <<provider, issued, honoured, stopping, lost, refused>>
    BY <1>1 DEF Provider
  <2> QED
    BY <1>1, <1>2, <2>1, <2>2, <2>3, <2>4, <2>7, <2>8, <2>9, RowTypes, HolderStep
<1>4. CASE ~ShouldRefresh(c)
  <2>1. Become(c, Refreshed(c)) /\ asks' = asks
    BY <1>4 DEF LockCredential
  <2>2. Only
    BY <1>1, <2>1 DEF Only, History
  <2>3. caller[c].mode = "rejected" => caller[c].observed < cred.access
    <3>1. caller[c].observed \in Nat /\ caller[c].observed <= cred.access
      BY CallerReads
    <3>2. cred.access \in Nat
      BY RowTypes
    <3>3. caller[c].mode = "rejected" => cred.access # caller[c].observed
      BY <1>4 DEF ShouldRefresh, StillStored
    <3> QED
      BY <3>1, <3>2, <3>3
  <2>4. FitsIn(Refreshed(c), cred.access, issued, honoured)
    <3>0. /\ 0 <= cred.access /\ caller[c].observed <= cred.access
      <4>1. cred.access \in Nat
        BY RowTypes
      <4>2. caller[c].observed <= cred.access
        BY CallerReads
      <4> QED
        BY <4>1, <4>2
    <3>1. Refreshed(c).observed <= cred.access /\ Refreshed(c).earlier <= cred.access
      BY <3>0, RefreshedIsACaller
    <3>2. Retried(Refreshed(c)) => Refreshed(c).earlier < cred.access
      <4>1. caller[c].mode # "rejected" => ~Retried(Refreshed(c))
        BY RefreshedIsACaller
      <4>2. Refreshed(c).earlier = 0 \/ Refreshed(c).earlier = caller[c].observed
        BY RefreshedIsACaller
      <4>3. caller[c].mode = "rejected" => 0 < cred.access
        <5>1. caller[c].observed \in Nat
          BY CallerReads
        <5>2. cred.access \in Nat
          BY RowTypes
        <5> QED
          BY <2>3, <5>1, <5>2
      <4> QED
        BY <2>3, <4>1, <4>2, <4>3
    <3> QED
      BY <3>1, <3>2, RefreshedIsACaller DEF FitsIn, Answered, Holding
  <2> QED
    BY <1>2, <2>1, <2>2, <2>4, RefreshedIsACaller, QuietRecord
<1> QED
  BY <1>3, <1>4

\* What holds while c asks the provider.
LEMMA WhileAsking ==
  ASSUME RefreshInv, NEW c \in Callers, caller[c].stage = "ask"
  PROVE  /\ \A d \in Callers \ {c} : ~Holding(caller[d])
         /\ asks \in {0, 1} /\ (asks = 1 /\ cred.due => caller[c].mode \in {"stale", "recover"})
         /\ cred.refresh \in honoured \/ lost # "none"
         /\ lost \in {"none", "answer", "aborted", "killed", "revoked"} /\ refused \in BOOLEAN
         /\ refused => conn.availability = "reauth"
<1>1. Holding(caller[c]) /\ ~Answered(caller[c])
  BY DEF Holding, Answered
<1>2. \A d \in Callers \ {c} : ~Holding(caller[d])
  BY <1>1, HoldsAlone
<1>3. asks \in {0, 1} /\ (asks = 1 /\ cred.due => caller[c].mode \in {"stale", "recover"})
  BY <1>2 DEF RefreshInv, TypeOK, AsksFit
<1>4. cred.refresh \in honoured \/ lost # "none"
  BY <1>1, <1>2 DEF RefreshInv, StoredTokenIsHonoured, Holding, Answered
<1> QED
  BY <1>2, <1>3, <1>4 DEF RefreshInv, TypeOK, DeadLoginIsNotServed

LEMMA IssuesNewer ==
  ASSUME RefreshInv, NEW rotates, Issue(rotates)
  PROVE  /\ issued' = issued + 1 /\ issued' \in Tokens /\ issued' \in Nat /\ honoured' \subseteq Tokens
         /\ cred.access < issued' /\ cred.access <= issued' /\ provider' = provider
         /\ IF rotates THEN issued + 1 \in honoured' ELSE cred.refresh \in honoured'
<1>1. /\ issued' = issued + 1 /\ issued < MaxTokens /\ provider' = provider /\ cred.refresh \in honoured
      /\ honoured' = IF rotates THEN (honoured \ {cred.refresh}) \cup {issued + 1} ELSE honoured
  BY DEF Issue
<1>2. issued' \in Tokens /\ issued' \in Nat
  BY <1>1, RowTypes, RefreshAssumption DEF Tokens
<1>3. cred.access < issued' /\ cred.access <= issued'
  BY <1>1, RowTypes
<1> QED
  BY <1>1, <1>2, <1>3, RowTypes

LEMMA ProviderAcceptsKeeps ==
  ASSUME RefreshInv, NEW c \in Callers, ProviderAccepts(c)
  PROVE  RefreshInv'
<1>1. PICK rotates \in BOOLEAN :
        /\ Issue(rotates)
        /\ Become(c, [caller[c] EXCEPT !.stage = "write", !.attempt = 1, !.access = issued + 1,
                        !.refresh = IF rotates THEN issued + 1 ELSE cred.refresh])
  BY DEF ProviderAccepts
<1> DEFINE token == IF rotates THEN issued + 1 ELSE cred.refresh
           r == [caller[c] EXCEPT !.stage = "write", !.attempt = 1, !.access = issued + 1, !.refresh = token]
<1>2. /\ caller[c].stage = "ask" /\ cred' = cred /\ conn' = conn /\ prompt' = prompt
      /\ UNCHANGED <<stopping, lost, refused, asks>>
  BY DEF ProviderAccepts, History
<1>3. issued + 1 \in Tokens /\ token \in Tokens /\ token \in honoured'
  BY <1>1, IssuesNewer, RowTypes
<1>4. Become(c, r)
  BY <1>1
<1> HIDE DEF token
<1>5. /\ r \in Caller /\ r.stage = "write" /\ r.access = issued + 1 /\ r.refresh = token
      /\ r.mode = caller[c].mode /\ r.observed = caller[c].observed /\ r.earlier = caller[c].earlier
  BY <1>3, CallerTypes, Names DEF Caller
<1> HIDE DEF r
<1>6. Holding(r) /\ Answered(r)
  BY <1>5 DEF Holding, Answered
<1>7. /\ issued' = issued + 1 /\ issued' \in Tokens /\ honoured' \subseteq Tokens
      /\ cred.access < issued' /\ cred.access <= issued' /\ provider' = provider
  BY <1>1, IssuesNewer
<1>8. FitsIn(r, cred.access, issued', honoured')
  BY <1>3, <1>5, <1>7, CallerReads DEF FitsIn
<1>9. cred.access <= cred.access
  BY RowTypes
<1> QED
  BY <1>2, <1>4, <1>5, <1>6, <1>7, <1>8, <1>9, RowTypes, WhileAsking, HolderStep

\* c stops asking: the attempt of a scheduled refresh is recorded.
LEMMA GivesUp ==
  ASSUME RefreshInv, NEW c \in Callers, caller[c].stage = "ask", NEW r, Blank(r), Become(c, r),
         cred' = Schedule(c), issued' \in Tokens, cred.access <= issued', honoured' \subseteq Tokens,
         UNCHANGED <<provider, stopping, prompt, asks>>,
         lost' \in {"none", "answer", "aborted", "killed", "revoked"},
         lost' # "none" \/ (lost' = lost /\ honoured' = honoured),
         refused' \in BOOLEAN, conn' \in Connection, refused' => conn'.availability = "reauth"
  PROVE  RefreshInv'
<1>1. /\ cred' \in Credential /\ cred'.access = cred.access /\ cred'.refresh = cred.refresh
      /\ caller[c].mode \in Scheduled => cred'.due = FALSE
      /\ caller[c].mode \notin Scheduled => cred' = cred
  BY Rows, RowTypes DEF Schedule
<1>2. r \in Caller /\ ~Holding(r) /\ FitsIn(r, cred.access, issued', honoured')
  BY BlankFits, RowTypes DEF Blank
<1>3. ~(asks' = 1 /\ cred'.due)
  BY <1>1, WhileAsking DEF Scheduled
<1>4. asks' \in {0, 1}
  BY WhileAsking
<1>5. cred'.refresh \in honoured' \/ lost' # "none"
  BY <1>1, WhileAsking
<1>6. cred.access <= cred'.access /\ cred'.access <= issued' /\ FitsIn(r, cred'.access, issued', honoured')
  BY <1>1, <1>2, RowTypes
<1>7. \A d \in Callers \ {c} : ~Holding(caller[d])
  BY WhileAsking
<1>8. prompt' \in {"none", "open", "expired"} /\ UNCHANGED <<provider, stopping>>
  BY RowTypes
<1> QED
  BY <1>1, <1>2, <1>3, <1>4, <1>5, <1>6, <1>7, <1>8, HolderStep

\* c asks again, or gives up.
LEMMA NoAnswerKeeps ==
  ASSUME RefreshInv, NEW c \in Callers, caller[c].stage = "ask", NoAnswer(c),
         issued' \in Tokens, cred.access <= issued', honoured' \subseteq Tokens,
         UNCHANGED <<provider, stopping, conn, prompt, refused, asks>>,
         lost' \in {"none", "answer", "aborted", "killed", "revoked"},
         lost' # "none" \/ (lost' = lost /\ honoured' = honoured)
  PROVE  RefreshInv'
<1>1. refused' \in BOOLEAN /\ conn' \in Connection /\ (refused' => conn'.availability = "reauth")
  BY WhileAsking, RowTypes
<1>2. CASE TriesAgain(c)
  <2> DEFINE r == [caller[c] EXCEPT !.attempt = @ + 1]
  <2>1. Become(c, r) /\ cred' = cred
    BY <1>2 DEF NoAnswer
  <2>2. caller[c].attempt + 1 \in Attempts
    <3>1. caller[c].attempt < 2
      BY <1>2 DEF TriesAgain
    <3>2. caller[c].attempt \in {1, 2}
      BY CallerTypes, Names
    <3>3. caller[c].attempt = 1
      BY <3>1, <3>2
    <3>4. Attempts = {1, 2}
      BY Names
    <3> QED
      BY <3>3, <3>4
  <2>3. /\ r \in Caller /\ r.stage = "ask" /\ r.mode = caller[c].mode
        /\ r.observed = caller[c].observed /\ r.earlier = caller[c].earlier
    BY <2>2, CallerTypes DEF Caller
  <2> HIDE DEF r
  <2>4. Holding(r) /\ ~Answered(r)
    BY <2>3 DEF Holding, Answered
  <2>5. FitsIn(r, cred.access, issued', honoured')
    BY <2>3, <2>4, CallerReads DEF FitsIn
  <2>6. cred' \in Credential /\ cred.access <= cred'.access /\ cred'.access <= issued'
    BY <2>1, RowTypes
  <2>7. /\ asks' \in {0, 1} /\ (asks' = 1 /\ cred'.due => r.mode \in {"stale", "recover"})
        /\ cred'.refresh \in honoured' \/ lost' # "none"
        /\ \A d \in Callers \ {c} : ~Holding(caller[d])
    BY <2>1, <2>3, WhileAsking
  <2>8. prompt' \in {"none", "open", "expired"} /\ UNCHANGED <<provider, stopping>>
    BY RowTypes
  <2>9. FitsIn(r, cred'.access, issued', honoured')
    BY <2>1, <2>5
  <2> QED
    BY <1>1, <2>1, <2>3, <2>4, <2>6, <2>7, <2>8, <2>9, HolderStep
<1>3. CASE ~TriesAgain(c)
  <2>1. Become(c, Failed(c)) /\ cred' = Schedule(c)
    BY <1>3 DEF NoAnswer
  <2> QED
    BY <1>1, <2>1, OtherEndsAreBlank, GivesUp
<1> QED
  BY <1>2, <1>3

LEMMA ProviderUnavailableKeeps ==
  ASSUME RefreshInv, NEW c \in Callers, ProviderUnavailable(c)
  PROVE  RefreshInv'
<1>1. /\ caller[c].stage = "ask" /\ NoAnswer(c)
      /\ UNCHANGED <<provider, issued, honoured, stopping, conn, prompt, lost, refused, asks>>
  BY DEF ProviderUnavailable, Provider, History
<1>2. issued' \in Tokens /\ cred.access <= issued' /\ honoured' \subseteq Tokens
  BY <1>1, RowTypes
<1>3. lost' \in {"none", "answer", "aborted", "killed", "revoked"}
  BY <1>1, WhileAsking
<1> QED
  BY <1>1, <1>2, <1>3, NoAnswerKeeps

LEMMA AnswerLostKeeps ==
  ASSUME RefreshInv, NEW c \in Callers, AnswerLost(c)
  PROVE  RefreshInv'
<1>1. /\ caller[c].stage = "ask" /\ NoAnswer(c) /\ Issue(TRUE) /\ lost' = "answer"
      /\ UNCHANGED <<stopping, conn, prompt, refused, asks>>
  BY DEF AnswerLost
<1>2. issued' \in Tokens /\ cred.access <= issued' /\ honoured' \subseteq Tokens /\ provider' = provider
  BY <1>1, IssuesNewer
<1> QED
  BY <1>1, <1>2, NoAnswerKeeps

LEMMA ProviderFailsKeeps ==
  ASSUME RefreshInv, NEW c \in Callers, ProviderFails(c)
  PROVE  RefreshInv'
<1>1. /\ caller[c].stage = "ask" /\ Become(c, Failed(c)) /\ cred' = Schedule(c)
      /\ UNCHANGED <<provider, issued, honoured, stopping, conn, prompt, lost, refused, asks>>
  BY DEF ProviderFails, Provider, History
<1>2. issued' \in Tokens /\ cred.access <= issued' /\ honoured' \subseteq Tokens /\ conn' \in Connection
  BY <1>1, RowTypes
<1>3. /\ lost' \in {"none", "answer", "aborted", "killed", "revoked"} /\ refused' \in BOOLEAN
      /\ refused' => conn'.availability = "reauth"
  BY <1>1, WhileAsking
<1> QED
  BY <1>1, <1>2, <1>3, OtherEndsAreBlank, GivesUp

LEMMA ProviderRefusesKeeps ==
  ASSUME RefreshInv, NEW c \in Callers, ProviderRefuses(c)
  PROVE  RefreshInv'
<1>1. /\ caller[c].stage = "ask" /\ Become(c, NeedsOwner(c)) /\ cred' = Schedule(c)
      /\ conn' = RefusedConnection(caller[c].mode) /\ refused' = TRUE
      /\ UNCHANGED <<provider, issued, honoured, stopping, prompt, lost, asks>>
  BY DEF ProviderRefuses, Provider
<1>2. issued' \in Tokens /\ cred.access <= issued' /\ honoured' \subseteq Tokens
  BY <1>1, RowTypes
<1>3. lost' \in {"none", "answer", "aborted", "killed", "revoked"}
  BY <1>1, WhileAsking
<1>4. conn.availability \in {"active", "reauth"}
  BY RowTypes DEF Connection
<1>5. Reauth("expired") \in Connection /\ Reauth("expired").availability = "reauth"
  BY Rows, Names
<1>6. conn' \in Connection /\ conn'.availability = "reauth"
  BY <1>1, <1>4, <1>5, RowTypes DEF RefusedConnection
<1> QED
  BY <1>1, <1>2, <1>3, <1>6, OtherEndsAreBlank, GivesUp

LEMMA WhileAnswered ==
  ASSUME RefreshInv, NEW c \in Callers, Answered(caller[c])
  PROVE  /\ \A d \in Callers \ {c} : ~Holding(caller[d])
         /\ asks \in {0, 1} /\ (asks = 1 /\ cred.due => caller[c].mode \in {"stale", "recover"})
         /\ lost \in {"none", "answer", "aborted", "killed", "revoked"} /\ refused \in BOOLEAN
         /\ refused => conn.availability = "reauth"
         /\ caller[c].access = issued /\ caller[c].refresh \in honoured
         /\ cred.access < caller[c].access /\ cred.access <= caller[c].access
<1>1. Holding(caller[c])
  BY DEF Holding, Answered
<1>2. \A d \in Callers \ {c} : ~Holding(caller[d])
  BY <1>1, HoldsAlone
<1>3. asks \in {0, 1} /\ (asks = 1 /\ cred.due => caller[c].mode \in {"stale", "recover"})
  BY <1>2 DEF RefreshInv, TypeOK, AsksFit
<1>4. caller[c].access = issued /\ caller[c].refresh \in honoured /\ cred.access < caller[c].access
  BY CallerReads
<1>5. cred.access <= caller[c].access
  BY <1>4, RowTypes
<1> QED
  BY <1>2, <1>3, <1>4, <1>5 DEF RefreshInv, TypeOK, DeadLoginIsNotServed

LEMMA UpdateConnectionKeeps ==
  ASSUME RefreshInv, NEW c \in Callers, UpdateConnection(c)
  PROVE  RefreshInv'
<1>1. PICK probe \in Probes : Become(c, [caller[c] EXCEPT !.stage = "persist", !.probe = probe])
  BY Names DEF UpdateConnection
<1>2. /\ caller[c].stage = "write"
      /\ UNCHANGED <<cred, conn, prompt, provider, issued, honoured, stopping, lost, refused, asks>>
  BY DEF UpdateConnection, Provider, History
<1> DEFINE r == [caller[c] EXCEPT !.stage = "persist", !.probe = probe]
<1>3. /\ r \in Caller /\ r.stage = "persist" /\ r.access = caller[c].access /\ r.refresh = caller[c].refresh
      /\ r.mode = caller[c].mode /\ r.observed = caller[c].observed /\ r.earlier = caller[c].earlier
  BY CallerTypes, Names DEF Caller
<1>4. Become(c, r)
  BY <1>1
<1> HIDE DEF r
<1>5. Holding(r) /\ Answered(r) /\ Answered(caller[c])
  BY <1>2, <1>3 DEF Holding, Answered
<1>6. FitsIn(r, cred.access, issued, honoured)
  BY <1>3, <1>5, CallerReads DEF FitsIn
<1>7. /\ cred' \in Credential /\ cred.access <= cred'.access /\ issued' \in Tokens /\ cred'.access <= issued'
      /\ honoured' \subseteq Tokens /\ conn' \in Connection /\ prompt' \in {"none", "open", "expired"}
  BY <1>2, RowTypes
<1>8. FitsIn(r, cred'.access, issued', honoured')
  BY <1>2, <1>6
<1> QED
  BY <1>2, <1>3, <1>4, <1>5, <1>7, <1>8, WhileAnswered, HolderStep

\* c stores what the provider answered and goes on to a record that has not read it yet.
LEMMA StoresAnswer ==
  ASSUME RefreshInv, NEW c \in Callers, Answered(caller[c]), NEW r \in Caller, Become(c, r),
         ~Holding(r), r.observed = 0, r.earlier <= cred.access, r.stage \notin {"sent", "mark"},
         Store(caller[c].access, caller[c].refresh), UNCHANGED <<Provider, stopping, asks>>,
         conn' \in Connection, prompt' \in {"none", "open", "expired"}, r.earlier \in Nat
  PROVE  RefreshInv'
<1>1. /\ cred' \in Credential /\ cred'.access = caller[c].access /\ cred'.refresh = caller[c].refresh
      /\ cred'.due = FALSE
  BY CallerTypes DEF Store, Fresh, Credential
<1>2. lost' = "none" /\ refused' = FALSE /\ UNCHANGED <<provider, issued, honoured, stopping, asks>>
  BY DEF Store, Provider
<1>3. cred.access <= cred'.access /\ cred.access < cred'.access /\ cred'.access \in Nat
  BY <1>1, WhileAnswered, CallerTypes, TokensAreNat
<1>4. r.earlier < cred'.access /\ r.earlier <= cred'.access /\ 0 <= cred'.access
  BY <1>3, RowTypes
<1>5. FitsIn(r, cred'.access, issued', honoured')
  BY <1>4 DEF FitsIn, Answered, Holding
<1>6. /\ issued' \in Tokens /\ cred'.access = issued' /\ honoured' \subseteq Tokens
      /\ cred'.refresh \in honoured'
  BY <1>1, <1>2, WhileAnswered, RowTypes
<1>7. cred'.access <= issued'
  BY <1>3, <1>6
<1>8. ~(asks' = 1 /\ cred'.due) /\ asks' \in {0, 1}
  BY <1>1, <1>2, WhileAnswered
<1>9. UNCHANGED <<provider, stopping>> /\ \A d \in Callers \ {c} : ~Holding(caller[d])
  BY <1>2, WhileAnswered
<1> QED
  BY <1>1, <1>2, <1>3, <1>5, <1>6, <1>7, <1>8, <1>9, HolderStep

LEMMA BlankReads ==
  ASSUME RefreshInv, NEW r, Blank(r)
  PROVE  /\ r \in Caller /\ ~Holding(r) /\ r.observed = 0 /\ r.earlier \in Nat /\ r.earlier <= cred.access
<1>1. cred.access \in Nat
  BY RowTypes
<1> QED
  BY <1>1 DEF Blank

LEMMA EndsThere ==
  ASSUME NEW c \in Callers
  PROVE  NeedsOwner(c).stage \notin {"sent", "mark"} /\ Failed(c).stage \notin {"sent", "mark"}
<1>1. /\ [Idle EXCEPT !.stage = "attempted"].stage = "attempted"
      /\ [Idle EXCEPT !.stage = "prompting"].stage = "prompting"
      /\ Idle.stage = "idle"
  BY IdleIsACaller, IdleFields DEF Caller
<1> QED
  BY <1>1 DEF NeedsOwner, Failed

LEMMA CommitRefreshKeeps ==
  ASSUME RefreshInv, NEW c \in Callers, CommitRefresh(c)
  PROVE  RefreshInv'
<1>1. /\ Store(caller[c].access, caller[c].refresh) /\ UNCHANGED <<Provider, stopping, asks>>
      /\ Answered(caller[c])
      /\ conn' = Active \/ conn' = Reauth("verification") \/ conn' = conn
      /\ prompt' = "none" \/ prompt' = prompt
      /\ Become(c, NeedsOwner(c)) \/ Become(c, Refreshed(c))
  BY DEF CommitRefresh, Answered
<1>2. conn' \in Connection /\ prompt' \in {"none", "open", "expired"}
  BY <1>1, Rows, Names, RowTypes
<1>3. CASE Become(c, NeedsOwner(c))
  BY <1>1, <1>2, <1>3, OtherEndsAreBlank, BlankReads, EndsThere, StoresAnswer
<1>4. CASE Become(c, Refreshed(c))
  <2>1. caller[c].observed \in Nat /\ caller[c].observed <= cred.access
    BY CallerReads
  <2>2. 0 <= cred.access /\ 0 \in Nat
    BY RowTypes
  <2>3. Refreshed(c).earlier \in Nat /\ Refreshed(c).earlier <= cred.access
    BY <2>1, <2>2, RefreshedIsACaller
  <2> QED
    BY <1>1, <1>2, <1>4, <2>3, RefreshedIsACaller, StoresAnswer
<1> QED
  BY <1>1, <1>3, <1>4

LEMMA RefreshAbortedKeeps ==
  ASSUME RefreshInv, NEW c \in Callers, NEW d \in Callers, RefreshAborted(c, d)
  PROVE  RefreshInv'
<1>1. /\ Answered(caller[c]) /\ Become(c, Failed(c)) /\ UNCHANGED <<conn, prompt, Provider, stopping, asks>>
  BY DEF RefreshAborted, Deadlocked, Answered
<1>2. conn' \in Connection /\ prompt' \in {"none", "open", "expired"}
  BY <1>1, RowTypes
<1>3. Blank(Failed(c)) /\ Failed(c).stage \notin {"sent", "mark"}
  BY OtherEndsAreBlank, EndsThere
<1>4. CASE caller[c].mode \in Scheduled
  <2>1. Store(caller[c].access, caller[c].refresh)
    BY <1>4 DEF RefreshAborted
  <2> QED
    BY <1>1, <1>2, <1>3, <2>1, BlankReads, StoresAnswer
<1>5. CASE caller[c].mode \notin Scheduled
  <2>1. /\ lost' = IF caller[c].refresh # cred.refresh THEN "aborted" ELSE lost
        /\ cred' = cred /\ refused' = refused
    BY <1>5 DEF RefreshAborted
  <2>2. UNCHANGED <<provider, issued, honoured, stopping, asks, conn>>
    BY <1>1 DEF Provider
  <2>3. FitsIn(Failed(c), cred'.access, issued', honoured') /\ ~Holding(Failed(c)) /\ Failed(c) \in Caller
    BY <1>3, <2>1, <2>2, RowTypes, BlankFits DEF Blank
  <2>4. /\ cred' \in Credential /\ cred.access <= cred'.access /\ issued' \in Tokens /\ cred'.access <= issued'
        /\ honoured' \subseteq Tokens
    BY <2>1, <2>2, RowTypes
  <2>5. ~(asks' = 1 /\ cred'.due) /\ asks' \in {0, 1}
    BY <1>1, <1>5, <2>1, <2>2, WhileAnswered DEF Scheduled
  <2>6. /\ cred'.refresh \in honoured' \/ lost' # "none"
        /\ lost' \in {"none", "answer", "aborted", "killed", "revoked"}
    BY <1>1, <2>1, <2>2, WhileAnswered
  <2>7. refused' \in BOOLEAN /\ (refused' => conn'.availability = "reauth")
    BY <1>1, <2>1, <2>2, WhileAnswered
  <2>8. UNCHANGED <<provider, stopping>> /\ \A e \in Callers \ {c} : ~Holding(caller[e])
    BY <1>1, <2>2, WhileAnswered
  <2> QED
    BY <1>1, <1>2, <2>3, <2>4, <2>5, <2>6, <2>7, <2>8, HolderStep
<1> QED
  BY <1>4, <1>5

LEMMA SettlerAbortedKeeps ==
  ASSUME RefreshInv, NEW c \in Callers, NEW d \in Callers, SettlerAborted(c, d)
  PROVE  RefreshInv'
<1>1. Leave(d) /\ ~Holding(caller[d]) /\ Only
  BY DEF SettlerAborted, Deadlocked, Settling, Holding, Only
<1> QED
  BY <1>1, OnlyLeaveKeeps

LEMMA FinishSignInKeeps ==
  ASSUME RefreshInv, NEW c \in Callers, FinishSignIn(c)
  PROVE  RefreshInv'
<1>1. /\ issued' = issued + 1 /\ issued < MaxTokens /\ honoured' = honoured \cup {issued + 1}
      /\ Store(issued + 1, issued + 1) /\ prompt' \in {"none", prompt} /\ conn' = Active
      /\ Become(c, Idle) /\ UNCHANGED <<provider, stopping, asks>> /\ CredentialFree
  BY DEF FinishSignIn, Leave
<1>2. \A d \in Callers : ~Holding(caller[d])
  BY <1>1, FreeIsNotHeld
<1>3. issued' \in Tokens /\ issued' \in Nat /\ cred.access <= issued'
  BY <1>1, RowTypes, RefreshAssumption DEF Tokens
<1>4. cred' = Fresh(issued', issued') /\ lost' = "none" /\ refused' = FALSE
  BY <1>1 DEF Store
<1>5. cred' \in Credential /\ cred'.access = issued' /\ cred'.refresh = issued' /\ cred'.due = FALSE
  BY <1>3, <1>4 DEF Fresh, Credential
<1>6. issued' <= issued'
  BY <1>3
<1>7. honoured' \subseteq Tokens /\ issued' \in honoured'
  BY <1>1, <1>3, RowTypes
<1>8. FitsIn(Idle, issued', issued', honoured') /\ Idle \in Caller /\ ~Holding(Idle)
  BY <1>3, IdleIsBlank, BlankFits DEF Blank
<1>9. ~(asks' = 1 /\ cred'.due) /\ asks' \in {0, 1}
  BY <1>1, <1>5 DEF RefreshInv, TypeOK, AsksFit
<1>10. conn' \in Connection /\ prompt' \in {"none", "open", "expired"}
  BY <1>1, Rows, RowTypes
<1> QED
  BY <1>1, <1>2, <1>3, <1>4, <1>5, <1>6, <1>7, <1>8, <1>9, <1>10, HolderStep

-----------------------------------------------------------------------------
\* Steps of nobody in particular

\* Nothing but what time and shutdown touch.
LEMMA SameCallersKeep ==
  ASSUME RefreshInv, caller' = caller, conn' = conn, prompt' \in {"none", "open", "expired"},
         cred' \in Credential, cred'.access = cred.access, cred'.refresh = cred.refresh,
         cred'.due => cred.due \/ asks' = 0, asks' = asks \/ asks' = 0, stopping' \in BOOLEAN,
         UNCHANGED <<provider, issued, honoured, lost, refused>>
  PROVE  RefreshInv'
<1>1. CallersFit'
  BY DEF RefreshInv, CallersFit, FitsIn, Answered, Holding
<1>2. AsksFit'
  BY DEF RefreshInv, AsksFit, Holding
<1>3. StoredTokenIsHonoured' /\ DeadLoginIsNotServed'
  BY DEF RefreshInv, StoredTokenIsHonoured, DeadLoginIsNotServed
<1>4. TypeOK'
  BY DEF RefreshInv, TypeOK
<1>5. cred'.access <= issued'
  BY RowTypes
<1> QED
  BY <1>1, <1>2, <1>3, <1>4, <1>5 DEF RefreshInv

LEMMA TimePassesKeeps ==
  ASSUME RefreshInv, TimePasses
  PROVE  RefreshInv'
<1>1. UNCHANGED <<conn, caller, provider, issued, honoured, stopping, lost, refused>> /\ stopping' \in BOOLEAN
  BY DEF TimePasses, Provider, RefreshInv, TypeOK
<1>2. CASE cred' = [cred EXCEPT !.due = TRUE] /\ asks' = 0 /\ UNCHANGED prompt
  <2>1. cred' \in Credential /\ cred'.access = cred.access /\ cred'.refresh = cred.refresh
    BY <1>2, RowTypes DEF Credential
  <2> QED
    BY <1>1, <1>2, <2>1, RowTypes, SameCallersKeep
<1>3. CASE cred' = [cred EXCEPT !.expiring = TRUE] /\ UNCHANGED <<prompt, asks>>
  <2>1. cred' \in Credential /\ cred'.access = cred.access /\ cred'.refresh = cred.refresh /\ cred'.due = cred.due
    BY <1>3, RowTypes DEF Credential
  <2> QED
    BY <1>1, <1>3, <2>1, RowTypes, SameCallersKeep
<1>4. CASE cred' = [cred EXCEPT !.idleDay = TRUE] /\ UNCHANGED <<prompt, asks>>
  <2>1. cred' \in Credential /\ cred'.access = cred.access /\ cred'.refresh = cred.refresh /\ cred'.due = cred.due
    BY <1>4, RowTypes DEF Credential
  <2> QED
    BY <1>1, <1>4, <2>1, RowTypes, SameCallersKeep
<1>5. CASE prompt' = "expired" /\ UNCHANGED <<cred, asks>>
  BY <1>1, <1>5, RowTypes, SameCallersKeep
<1> QED
  BY <1>2, <1>3, <1>4, <1>5 DEF TimePasses

LEMMA StopKeeps ==
  ASSUME RefreshInv, Stop
  PROVE  RefreshInv'
<1>1. /\ UNCHANGED <<cred, conn, prompt, caller, provider, issued, honoured, lost, refused, asks>>
      /\ stopping' \in BOOLEAN
  BY DEF Stop, Provider, History
<1> QED
  BY <1>1, RowTypes, SameCallersKeep

LEMMA RevokedKeeps ==
  ASSUME RefreshInv, Revoked
  PROVE  RefreshInv'
<1>1. /\ UNCHANGED <<provider, cred, conn, prompt, caller, issued, stopping, refused, asks>>
      /\ honoured' \subseteq honoured /\ lost' = "revoked"
      /\ \A c \in Callers : ~Answered(caller[c])
  BY DEF Revoked, Answered
<1>2. ASSUME NEW c \in Callers
      PROVE  FitsIn(caller[c], cred.access, issued, honoured')
  BY <1>1, CallerReads DEF FitsIn
<1>3. CallersFit'
  BY <1>1, <1>2 DEF RefreshInv, CallersFit, FitsIn, Answered, Holding
<1>4. AsksFit' /\ StoredTokenIsHonoured' /\ DeadLoginIsNotServed'
  BY <1>1 DEF RefreshInv, AsksFit, Holding, StoredTokenIsHonoured, DeadLoginIsNotServed
<1>5. TypeOK' /\ cred'.access <= issued'
  BY <1>1, RowTypes DEF RefreshInv, TypeOK
<1> QED
  BY <1>3, <1>4, <1>5 DEF RefreshInv

LEMMA RestartKeeps ==
  ASSUME RefreshInv, Restart, UNCHANGED <<cred, conn, prompt, Provider, refused>>,
         lost' \in {"none", "answer", "aborted", "killed", "revoked"}, asks' \in {0, 1}, ~(asks' = 1 /\ cred.due),
         cred.refresh \in honoured \/ lost' # "none"
  PROVE  RefreshInv'
<1>1. UNCHANGED <<provider, issued, honoured>> /\ caller' = [c \in Callers |-> Idle] /\ stopping' = FALSE
  BY DEF Provider, Restart
<1>2. \A c \in Callers : caller'[c] = Idle
  BY <1>1
<1>3. FitsIn(Idle, cred.access, issued, honoured) /\ ~Holding(Idle) /\ Idle \in Caller
  BY IdleIsBlank, BlankFits, RowTypes DEF Blank
<1>4. FitsIn(Idle, cred'.access, issued', honoured')
  BY <1>1, <1>3
<1>5. CallersFit'
  <2>1. \A c \in Callers : FitsIn(caller'[c], cred'.access, issued', honoured')
    BY <1>2, <1>4
  <2>2. \A c, d \in Callers : Holding(caller'[c]) /\ Holding(caller'[d]) => c = d
    BY <1>2, <1>3
  <2> QED
    BY <2>1, <2>2 DEF CallersFit, FitsIn, Answered, Holding
<1>6. AsksFit' /\ StoredTokenIsHonoured' /\ DeadLoginIsNotServed'
  BY <1>1 DEF RefreshInv, AsksFit, StoredTokenIsHonoured, DeadLoginIsNotServed
<1>7. caller' \in [Callers -> Caller]
  BY <1>1, <1>3
<1>8. TypeOK'
  <2>1. stopping' \in BOOLEAN /\ asks' \in 0..2
    <3>1. stopping' \in BOOLEAN
      BY <1>1
    <3>2. asks' \in 0..2
      OBVIOUS
    <3> QED
      BY <3>1, <3>2
  <2>2. /\ cred' \in Credential /\ conn' \in Connection /\ prompt' \in {"none", "open", "expired"}
        /\ issued' \in Tokens /\ honoured' \subseteq Tokens
    BY <1>1, RowTypes
  <2>3. provider' \in Providers /\ refused' \in BOOLEAN
    BY <1>1 DEF RefreshInv, TypeOK
  <2> QED
    BY <1>7, <2>1, <2>2, <2>3 DEF TypeOK
<1>9. cred'.access <= issued'
  BY <1>1, RowTypes
<1> QED
  BY <1>5, <1>6, <1>8, <1>9 DEF RefreshInv

LEMMA OrderlyExitKeeps ==
  ASSUME RefreshInv, OrderlyExit
  PROVE  RefreshInv'
<1>1. Restart /\ UNCHANGED <<cred, conn, prompt, Provider, lost, refused, asks>>
  BY DEF OrderlyExit, History
<1>2. \A c \in Callers : ~Holding(caller[c]) /\ ~Answered(caller[c])
  BY DEF OrderlyExit, Settled, Tasks, Holding, Answered
<1>3. asks \in {0, 1} /\ ~(asks = 1 /\ cred.due)
  BY <1>2 DEF RefreshInv, TypeOK, AsksFit
<1>4. cred.refresh \in honoured \/ lost # "none"
  BY <1>2 DEF RefreshInv, StoredTokenIsHonoured, Answered
<1>5. lost \in {"none", "answer", "aborted", "killed", "revoked"}
  BY DEF RefreshInv, TypeOK
<1> QED
  BY <1>1, <1>3, <1>4, <1>5, RestartKeeps

LEMMA KilledKeeps ==
  ASSUME RefreshInv, Killed
  PROVE  RefreshInv'
<1>1. /\ Restart /\ UNCHANGED <<cred, conn, prompt, Provider, refused>> /\ asks' = 0
      /\ lost' = IF \E c \in Callers : Answered(caller[c]) /\ caller[c].refresh # cred.refresh
                   THEN "killed" ELSE lost
  BY DEF Killed, Answered
<1>2. cred.refresh \in honoured \/ lost' # "none"
  <2>1. CASE \E c \in Callers : Answered(caller[c])
    BY <1>1, <2>1, CallerReads
  <2>2. CASE ~\E c \in Callers : Answered(caller[c])
    BY <1>1, <2>2 DEF RefreshInv, StoredTokenIsHonoured, Answered
  <2> QED
    BY <2>1, <2>2
<1>3. lost' \in {"none", "answer", "aborted", "killed", "revoked"}
  BY <1>1 DEF RefreshInv, TypeOK
<1> QED
  BY <1>1, <1>2, <1>3, RestartKeeps

-----------------------------------------------------------------------------
\* The invariant

LEMMA RefreshInitInv == Init => RefreshInv
<1> SUFFICES ASSUME Init PROVE RefreshInv
  OBVIOUS
<1>1. /\ provider \in Providers /\ conn = Active /\ prompt = "none" /\ caller = [c \in Callers |-> Idle]
      /\ issued = 0 /\ honoured = {0} /\ stopping = FALSE /\ lost = "none" /\ refused = FALSE /\ asks = 0
      /\ cred = Fresh(0, 0)
  BY DEF Init
<1>2. cred \in Credential /\ cred.access = 0 /\ cred.refresh = 0
  BY <1>1, TokensAreNat DEF Fresh, Credential
<1>3. FitsIn(Idle, 0, 0, {0}) /\ ~Holding(Idle) /\ Idle \in Caller
  BY IdleIsBlank, BlankFits DEF Blank
<1>4. \A c \in Callers : caller[c] = Idle
  BY <1>1
<1>5. CallersFit
  BY <1>1, <1>2, <1>3, <1>4 DEF CallersFit
<1>6. AsksFit /\ StoredTokenIsHonoured /\ DeadLoginIsNotServed
  BY <1>1, <1>2 DEF AsksFit, StoredTokenIsHonoured, DeadLoginIsNotServed
<1>7. conn \in Connection /\ issued \in Tokens /\ honoured \subseteq Tokens
  BY <1>1, TokensAreNat, Names DEF Active, Connection
<1>8. TypeOK
  <2>1. stopping \in BOOLEAN /\ refused \in BOOLEAN /\ asks \in 0..2
    <3>1. stopping \in BOOLEAN /\ refused \in BOOLEAN
      BY <1>1
    <3>2. asks \in 0..2
      BY <1>1
    <3> QED
      BY <3>1, <3>2
  <2>2. caller \in [Callers -> Caller]
    BY <1>1, <1>3
  <2> QED
    BY <1>1, <1>2, <1>7, <2>1, <2>2 DEF TypeOK
<1> QED
  BY <1>1, <1>2, <1>5, <1>6, <1>8 DEF RefreshInv

LEMMA RefreshNextInv ==
  ASSUME RefreshInv, [Next]_vars
  PROVE  RefreshInv'
<1>1. CASE UNCHANGED vars
  <2>1. /\ UNCHANGED <<provider, cred, conn, prompt, caller, issued, honoured, stopping, lost, refused, asks>>
        /\ stopping' \in BOOLEAN
    BY <1>1 DEF vars, RefreshInv, TypeOK
  <2> QED
    BY <2>1, RowTypes, SameCallersKeep
<1>2. ASSUME NEW c \in Callers,
             \/ SweepStale(c) \/ SweepRecover(c) \/ SweepNightly(c) \/ ForceRefresh(c)
             \/ RequestSent(c) \/ RequestRefreshes(c) \/ RequestRejected(c)
             \/ RequestChallenged(c) \/ RequestServed(c) \/ Mark(c)
             \/ LockCredential(c) \/ ProviderAccepts(c) \/ ProviderRefuses(c)
             \/ ProviderUnavailable(c) \/ AnswerLost(c) \/ ProviderFails(c)
             \/ UpdateConnection(c) \/ CommitRefresh(c) \/ ReadAgain(c) \/ RecordAttempt(c)
             \/ WritePrompt(c) \/ CommitPrompt(c) \/ DeleteExpired(c) \/ CommitExpired(c)
             \/ PollFails(c) \/ FailDeletesPrompt(c) \/ FailUpdates(c)
             \/ ExchangeCode(c) \/ FinishSignIn(c) \/ HandlerDropped(c)
      PROVE  RefreshInv'
  BY <1>2, BeginningsKeep, RequestSentKeeps, RequestRejectedKeeps, RequestChallengedKeeps, LeavesKeep,
     LockCredentialKeeps, ProviderAcceptsKeeps, ProviderRefusesKeeps, ProviderUnavailableKeeps, AnswerLostKeeps,
     ProviderFailsKeeps, UpdateConnectionKeeps, CommitRefreshKeeps, ReadAgainKeeps, WritePromptKeeps,
     DeleteExpiredKeeps, PollFailsKeeps, FailDeletesPromptKeeps, ExchangeCodeKeeps, FinishSignInKeeps
<1>3. ASSUME NEW c \in Callers, NEW d \in Callers, RefreshAborted(c, d) \/ SettlerAborted(c, d)
      PROVE  RefreshInv'
  BY <1>3, RefreshAbortedKeeps, SettlerAbortedKeeps
<1>4. CASE TimePasses \/ Revoked \/ Stop \/ OrderlyExit \/ Killed
  BY <1>4, TimePassesKeeps, RevokedKeeps, StopKeeps, OrderlyExitKeeps, KilledKeeps
<1> QED
  BY <1>1, <1>2, <1>3, <1>4 DEF Next

\* One caller at a time works on the credential, and what it has from the provider is newer than what
\* is stored: the invariant the theorems below rest on.
THEOREM RefreshInvariant == Spec => []RefreshInv
<1>1. Init => RefreshInv
  BY RefreshInitInv
<1>2. RefreshInv /\ [Next]_vars => RefreshInv'
  BY RefreshNextInv
<1> QED
  BY <1>1, <1>2, PTL DEF Spec

\* The rows, the callers and the histories keep their types.
THEOREM RefreshTyped == Spec => []TypeOK
<1>1. RefreshInv => TypeOK
  BY DEF RefreshInv
<1> QED
  BY <1>1, RefreshInvariant, PTL

\* refresh_detached, the sweeps, finish_refresh_reauthorization: the refresh token that is stored is honoured
\* unless something known happened to it, an account whose login is dead is not served with, and one that
\* comes due is asked for once.
THEOREM CredentialsAreSound == Spec => []CredentialIsSound
<1>1. RefreshInv => CredentialIsSound
  BY DEF RefreshInv, CredentialIsSound, AsksFit, AskedOncePerInterval
<1> QED
  BY <1>1, RefreshInvariant, PTL

-----------------------------------------------------------------------------
\* Marks and returns

\* Which steps write the connection's row.
LEMMA ConnectionWriters ==
  ASSUME Next, conn' # conn
  PROVE  \E c \in Callers :
           \/ Mark(c) \/ ProviderRefuses(c) \/ CommitRefresh(c) \/ CommitPrompt(c)
           \/ CommitExpired(c) \/ FailUpdates(c) \/ FinishSignIn(c)
<1>1. ASSUME NEW c \in Callers,
             \/ SweepStale(c) \/ SweepRecover(c) \/ SweepNightly(c) \/ ForceRefresh(c)
             \/ RequestSent(c) \/ RequestRefreshes(c) \/ RequestRejected(c)
             \/ RequestChallenged(c) \/ RequestServed(c)
             \/ LockCredential(c) \/ ProviderAccepts(c)
             \/ ProviderUnavailable(c) \/ AnswerLost(c) \/ ProviderFails(c)
             \/ UpdateConnection(c) \/ ReadAgain(c) \/ RecordAttempt(c)
             \/ WritePrompt(c) \/ DeleteExpired(c)
             \/ PollFails(c) \/ FailDeletesPrompt(c)
             \/ ExchangeCode(c) \/ HandlerDropped(c)
      PROVE  FALSE
  BY <1>1 DEF SweepStale, SweepRecover, SweepNightly, ForceRefresh, RequestSent, RequestRefreshes,
              RequestRejected, RequestChallenged, RequestServed, LockCredential, ProviderAccepts,
              ProviderUnavailable, AnswerLost, ProviderFails, UpdateConnection, ReadAgain, RecordAttempt,
              WritePrompt, DeleteExpired, PollFails, FailDeletesPrompt, ExchangeCode, HandlerDropped, Begin
<1>2. ASSUME NEW c \in Callers, NEW d \in Callers, RefreshAborted(c, d) \/ SettlerAborted(c, d)
      PROVE  FALSE
  BY <1>2 DEF RefreshAborted, SettlerAborted
<1>3. ~(TimePasses \/ Revoked \/ Stop \/ OrderlyExit \/ Killed)
  BY DEF TimePasses, Revoked, Stop, OrderlyExit, Killed
<1> QED
  BY <1>1, <1>2, <1>3 DEF Next

\* What MarkedOnEvidence asks of a step that marks the account.
Evidence(c) ==
  \/ /\ caller[c].stage = "mark"
     /\ caller[c].observed = cred.access
     /\ caller[c].message = "login required" => caller[c].earlier # cred.access
  \/ caller[c].stage = "ask" /\ refused'
  \/ caller[c].stage = "persist" /\ caller[c].probe = "required"
  \/ caller[c].stage = "settling"

LEMMA MarksRestOn ==
  ASSUME RefreshInv, Next, conn.availability = "active", conn'.availability = "reauth"
  PROVE  \E c \in Callers : Evidence(c)
<1>1. PICK c \in Callers :
        \/ Mark(c) \/ ProviderRefuses(c) \/ CommitRefresh(c) \/ CommitPrompt(c)
        \/ CommitExpired(c) \/ FailUpdates(c) \/ FinishSignIn(c)
  BY ConnectionWriters
<1>2. CASE Mark(c)
  <2>1. caller[c].stage = "mark" /\ caller[c].observed = cred.access
    BY <1>2 DEF Mark, StillStored
  <2>2. caller[c].message = "login required" => caller[c].earlier < caller[c].observed
    BY <2>1, CallerReads
  <2>3. caller[c].earlier \in Nat /\ caller[c].observed \in Nat
    BY CallerReads
  <2>4. caller[c].earlier < caller[c].observed => caller[c].earlier # cred.access
    BY <2>1, <2>3
  <2> QED
    BY <2>1, <2>2, <2>4 DEF Evidence
<1>3. CASE ProviderRefuses(c)
  BY <1>3 DEF ProviderRefuses, Evidence
<1>4. CASE CommitRefresh(c)
  <2>1. Active.availability = "active"
    BY Rows
  <2>2. caller[c].stage = "persist" /\ caller[c].probe = "required"
    BY <1>4, <2>1 DEF CommitRefresh
  <2> QED
    BY <2>2 DEF Evidence
<1>5. CASE CommitPrompt(c)
  BY <1>5 DEF CommitPrompt, Evidence
<1>6. CASE CommitExpired(c) \/ FailUpdates(c)
  BY <1>6 DEF CommitExpired, FailUpdates, Unfinished
<1>7. CASE FinishSignIn(c)
  BY <1>7, Rows DEF FinishSignIn
<1> QED
  BY <1>1, <1>2, <1>3, <1>4, <1>5, <1>6, <1>7

\* mark_reauthorization_required_if_current, handle_rejected_credential: an account is marked on evidence about
\* the credential that is stored.
THEOREM MarksHaveEvidence == Spec => MarkedOnEvidence
<1>1. RefreshInv /\ [Next]_vars =>
        [conn.availability = "active" /\ conn'.availability = "reauth" => \E c \in Callers : Evidence(c)]_vars
  BY MarksRestOn
<1>2. [][conn.availability = "active" /\ conn'.availability = "reauth" => \E c \in Callers : Evidence(c)]_vars
        <=> MarkedOnEvidence
  BY DEF MarkedOnEvidence, Evidence
<1> QED
  BY <1>1, <1>2, RefreshInvariant, PTL DEF Spec

LEMMA ReturnsWithNewer ==
  ASSUME RefreshInv, Next, conn.availability = "reauth", conn'.availability = "active"
  PROVE  cred'.access # cred.access
<1>1. PICK c \in Callers :
        \/ Mark(c) \/ ProviderRefuses(c) \/ CommitRefresh(c) \/ CommitPrompt(c)
        \/ CommitExpired(c) \/ FailUpdates(c) \/ FinishSignIn(c)
  BY ConnectionWriters
<1>2. \A text \in Messages : Reauth(text).availability = "reauth"
  BY Rows
<1>3. CASE Mark(c) \/ CommitPrompt(c) \/ CommitExpired(c) \/ FailUpdates(c)
  BY <1>1, <1>2, <1>3, CallerTypes, Names DEF Mark, CommitPrompt, CommitExpired, FailUpdates, Unfinished
<1>4. CASE ProviderRefuses(c)
  BY <1>2, <1>4, Names DEF ProviderRefuses, RefusedConnection
<1>5. CASE CommitRefresh(c)
  <2>1. Answered(caller[c]) /\ cred' = Fresh(caller[c].access, caller[c].refresh)
    BY <1>5 DEF CommitRefresh, Store, Answered
  <2>2. cred'.access = caller[c].access /\ cred.access < caller[c].access
    BY <2>1, WhileAnswered DEF Fresh
  <2> QED
    BY <2>2, CallerTypes, RowTypes
<1>6. CASE FinishSignIn(c)
  <2>1. cred' = Fresh(issued + 1, issued + 1)
    BY <1>6 DEF FinishSignIn, Store
  <2>2. cred'.access = issued + 1
    BY <2>1 DEF Fresh
  <2> QED
    BY <2>2, RowTypes
<1> QED
  BY <1>1, <1>3, <1>4, <1>5, <1>6

\* restore_refreshed_availability, finish_connection: an account returns to service only with a new access token.
THEOREM ReturnsAreNew == Spec => ReturnsWithANewToken
<1>1. RefreshInv /\ [Next]_vars =>
        [conn.availability = "reauth" /\ conn'.availability = "active" => cred'.access # cred.access]_vars
  BY ReturnsWithNewer
<1> QED
  BY <1>1, RefreshInvariant, PTL DEF Spec, ReturnsWithANewToken
=============================================================================
