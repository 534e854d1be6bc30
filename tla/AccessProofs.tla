----------------------------- MODULE AccessProofs -----------------------------
(***************************************************************************)
(* Proofs about the five components that decide who may use what, one      *)
(* after the other, for any values of their constants.  Each has an        *)
(* inductive invariant of its own:                                         *)
(*   OrgInv       what organization handlers under way still know          *)
(*   SessionsInv  which refresh tokens tabs, jar and rows have             *)
(*   StaffInv     the rows staff handlers lock                             *)
(*   AccessInv, KeysInv  the token buckets, and a user's keys              *)
(*   CatalogueInv how old the documents of the model list are              *)
(* The last part puts them together as Access does.                        *)
(***************************************************************************)
EXTENDS Access, FiniteSetTheorems, TLAPS

(***************************************************************************)
(* Organizations: every link to a shared account counts, an organization   *)
(* has one owner and a user one default at most, and a default is kept.    *)
(* OrgInv adds what each handler under way still knows: the rows it has    *)
(* locked are as it read them, and under the advisory lock a user's        *)
(* defaults are the ones it has cleared.                                   *)
(***************************************************************************)
\* A handler that makes a default, once it has the advisory lock of its user.
Choosing(t) == t.op \in Making /\ t.stage # "begun"

\* Only a membership is a default, and a user has one at most.
DefaultsFit ==
  \A u \in Users :
    /\ \A o \in default[u] : role[o][u] \in Accepted
    /\ \A o, p \in default[u] : o = p

\* An organization that exists has an owner and no second one; one that does not has no rows.
OwnersFit ==
  \A o \in Orgs :
    /\ o \in live => \E u \in Users : role[o][u] = "owner"
    /\ \A u, v \in Users : role[o][u] = "owner" /\ role[o][v] = "owner" => u = v
    /\ o \notin live => \A u \in Users : role[o][u] = "none"

\* What a handler has read and still holds.
TaskFits(t) ==
  /\ t.stage # "tripped"
  /\ t.op # "none" => t.user \in Users /\ t.org \in Orgs
  /\ t.op = "share" => t.conn \in Connections /\ owner[t.conn] = t.user /\ role[t.org][t.user] \in Accepted
  /\ t.op = "create" => t.org \notin live
  /\ t.op = "accept" => role[t.org][t.user] = "pending"
  /\ t.op = "choose" /\ t.stage # "begun" => t.saw
  /\ t.op = "choose" /\ t.set => role[t.org][t.user] \in Accepted
  /\ t.op \in Making /\ t.stage \in {"cleared", "set"} =>
       default[t.user] \subseteq t.cleared \cup {t.org} /\ t.org \notin t.cleared
  /\ t.op \in Making /\ t.stage = "set" /\ ~t.set =>
       t.op = "choose" /\ (t.org \in default[t.user] \/ role[t.org][t.user] \notin Accepted)

\* Two handlers: one past the advisory lock of a user, one with an invitation, one with a new organization.
Apart(t, s) ==
  /\ Choosing(t) /\ Choosing(s) => t.user # s.user
  /\ t.op = "accept" /\ s.op = "accept" => ~(t.user = s.user /\ t.org = s.org)
  /\ t.op = "create" /\ s.op # "none" => s.org # t.org

OrgInv ==
  /\ live \subseteq Orgs
  /\ role \in [Orgs -> [Users -> Roles]]
  /\ default \in [Users -> SUBSET Orgs]
  /\ owner \in [Connections -> Users \cup {"nobody"}]
  /\ shares \subseteq Share
  /\ task \in [Workers -> Task]
  /\ DefaultsFit /\ OwnersFit /\ EveryLinkCounts
  /\ \A w \in Workers : TaskFits(task[w])
  /\ \A w, v \in Workers : w # v => Apart(task[w], task[v])

-----------------------------------------------------------------------------
\* Steps in general

LEMMA OrgInitInv == Init => OrgInv
<1> SUFFICES ASSUME Init PROVE OrgInv
  OBVIOUS
<1>1. NoTask \in Task /\ NoTask.op = "none" /\ NoTask.stage = "begun"
  BY DEF NoTask, Task
<1>2. \A w \in Workers : task[w] = NoTask
  BY DEF Init
<1>3. \A w \in Workers : TaskFits(task[w])
  BY <1>1, <1>2 DEF TaskFits, Making
<1>4. \A w, v \in Workers : Apart(task[w], task[v])
  BY <1>1, <1>2 DEF Apart, Choosing, Making
<1>5. DefaultsFit /\ OwnersFit /\ EveryLinkCounts
  BY DEF Init, DefaultsFit, OwnersFit, EveryLinkCounts
<1>6. role \in [Orgs -> [Users -> Roles]]
  BY DEF Init, Roles
<1> QED
  BY <1>1, <1>2, <1>3, <1>4, <1>5, <1>6 DEF Init, OrgInv

\* A handler that does nothing fits, and is apart from every other.
LEMMA NoTaskFits ==
  /\ NoTask \in Task /\ TaskFits(NoTask)
  /\ \A s : Apart(NoTask, s) /\ Apart(s, NoTask)
<1>1. NoTask \in Task /\ NoTask.op = "none" /\ NoTask.stage = "begun"
  BY DEF NoTask, Task
<1>2. TaskFits(NoTask)
  BY <1>1 DEF TaskFits, Making
<1>3. \A s : Apart(NoTask, s) /\ Apart(s, NoTask)
  BY <1>1 DEF Apart, Choosing, Making
<1> QED
  BY <1>1, <1>2, <1>3

\* A handler goes on to t, and no row changes.
LEMMA TaskStep ==
  ASSUME OrgInv, NEW w \in Workers, NEW t \in Task, TaskFits(t),
         \A v \in Workers \ {w} : Apart(t, task[v]) /\ Apart(task[v], t),
         task' = [task EXCEPT ![w] = t], UNCHANGED <<live, role, default, owner, shares>>
  PROVE  OrgInv'
<1>1. task' \in [Workers -> Task] /\ \A v \in Workers : task'[v] = IF v = w THEN t ELSE task[v]
  BY DEF OrgInv
<1>2. \A v \in Workers : TaskFits(task[v])'
  <2>1. \A v \in Workers : TaskFits(task'[v])
    BY <1>1 DEF OrgInv
  <2> QED
    BY <2>1 DEF TaskFits
<1>3. \A v, u \in Workers : u # v => Apart(task[u], task[v])'
  <2>1. \A v, u \in Workers : u # v => Apart(task'[u], task'[v])
    BY <1>1 DEF OrgInv
  <2> QED
    BY <2>1 DEF Apart, Choosing
<1>4. (DefaultsFit /\ OwnersFit /\ EveryLinkCounts)'
  BY DEF OrgInv, DefaultsFit, OwnersFit, EveryLinkCounts
<1> QED
  BY <1>1, <1>2, <1>3, <1>4 DEF OrgInv

\* A handler is through, and the rows are left alone.
LEMMA RollBackKeeps ==
  ASSUME OrgInv, NEW w \in Workers, RollBack(w)
  PROVE  OrgInv'
  BY TaskStep, NoTaskFits DEF RollBack, Unchanged_rows

\* The four handlers that begin a transaction.
LEMMA BeginsKeep ==
  ASSUME OrgInv, NEW w \in Workers, NEW u \in Users, NEW o \in Orgs,
         \/ CreateOrganization(w, u, o) \/ AcceptInvitation(w, u, o) \/ SetDefaultOrganization(w, u, o)
         \/ \E c \in Connections : ShareAgent(w, u, o, c)
  PROVE  OrgInv'
<1>1. ASSUME NEW op \in {"create", "accept", "choose"}
      PROVE  LET t == [NoTask EXCEPT !.op = op, !.user = u, !.org = o] IN
             /\ t \in Task /\ t.op = op /\ t.user = u /\ t.org = o /\ t.stage = "begun" /\ t.set = FALSE
             /\ ~Choosing(t)
  BY DEF NoTask, Task, Choosing
<1>2. UNCHANGED <<live, role, default, owner, shares>>
  BY DEF CreateOrganization, AcceptInvitation, SetDefaultOrganization, ShareAgent, Unchanged_rows
<1>3. CASE CreateOrganization(w, u, o)
  <2> DEFINE t == [NoTask EXCEPT !.op = "create", !.user = u, !.org = o]
  <2>1. t \in Task /\ t.op = "create" /\ t.user = u /\ t.org = o /\ t.stage = "begun" /\ t.set = FALSE /\ ~Choosing(t)
    BY <1>1
  <2>2. task' = [task EXCEPT ![w] = t] /\ o \notin live /\ \A v \in Workers : task[v].org # o
    BY <1>3 DEF CreateOrganization, Begin
  <2> HIDE DEF t
  <2>3. TaskFits(t)
    BY <2>1, <2>2 DEF TaskFits, Making
  <2>4. \A v \in Workers \ {w} : Apart(t, task[v]) /\ Apart(task[v], t)
    BY <2>1, <2>2 DEF Apart
  <2> QED
    BY <1>2, <2>1, <2>2, <2>3, <2>4, TaskStep
<1>4. CASE AcceptInvitation(w, u, o)
  <2> DEFINE t == [NoTask EXCEPT !.op = "accept", !.user = u, !.org = o]
  <2>1. t \in Task /\ t.op = "accept" /\ t.user = u /\ t.org = o /\ t.stage = "begun" /\ t.set = FALSE /\ ~Choosing(t)
    BY <1>1
  <2>2. task' = [task EXCEPT ![w] = t] /\ role[o][u] = "pending" /\ RowFree(u, o)
    BY <1>4 DEF AcceptInvitation, Begin
  <2> HIDE DEF t
  <2>3. TaskFits(t)
    BY <2>1, <2>2 DEF TaskFits, Making
  <2>4. ASSUME NEW v \in Workers \ {w}
        PROVE  Apart(t, task[v]) /\ Apart(task[v], t)
    <3>1. ~(task[v].op = "accept" /\ task[v].user = u /\ task[v].org = o)
      BY <2>2 DEF RowFree, Holds
    <3>2. ~(task[v].op = "create" /\ task[v].org = o)
      BY <2>2 DEF OrgInv, OwnersFit, TaskFits
    <3> QED
      BY <2>1, <3>1, <3>2 DEF Apart
  <2> QED
    BY <1>2, <2>1, <2>2, <2>3, <2>4, TaskStep
<1>5. CASE SetDefaultOrganization(w, u, o)
  <2> DEFINE t == [NoTask EXCEPT !.op = "choose", !.user = u, !.org = o]
  <2>1. t \in Task /\ t.op = "choose" /\ t.user = u /\ t.org = o /\ t.stage = "begun" /\ t.set = FALSE /\ ~Choosing(t)
    BY <1>1
  <2>2. task' = [task EXCEPT ![w] = t] /\ o \in live
    BY <1>5 DEF SetDefaultOrganization, Begin
  <2> HIDE DEF t
  <2>3. TaskFits(t)
    BY <2>1, <2>2 DEF TaskFits, Making
  <2>4. \A v \in Workers \ {w} : Apart(t, task[v]) /\ Apart(task[v], t)
    BY <2>1, <2>2 DEF Apart, OrgInv, TaskFits
  <2> QED
    BY <1>2, <2>1, <2>2, <2>3, <2>4, TaskStep
<1>6. ASSUME NEW c \in Connections, ShareAgent(w, u, o, c)
      PROVE  OrgInv'
  <2> DEFINE t == [NoTask EXCEPT !.op = "share", !.user = u, !.org = o, !.conn = c]
  <2>1. /\ t \in Task /\ t.op = "share" /\ t.user = u /\ t.org = o /\ t.conn = c /\ t.stage = "begun"
        /\ t.set = FALSE /\ ~Choosing(t)
    BY DEF NoTask, Task, Choosing, Making
  <2>2. task' = [task EXCEPT ![w] = t] /\ role[o][u] \in Accepted /\ owner[c] = u
    BY <1>6 DEF ShareAgent, Begin
  <2> HIDE DEF t
  <2>3. TaskFits(t)
    BY <2>1, <2>2 DEF TaskFits, Making
  <2>4. ASSUME NEW v \in Workers \ {w}
        PROVE  Apart(t, task[v]) /\ Apart(task[v], t)
    <3>1. ~(task[v].op = "create" /\ task[v].org = o)
      BY <2>2 DEF OrgInv, OwnersFit, TaskFits, Accepted
    <3> QED
      BY <2>1, <3>1 DEF Apart
  <2> QED
    BY <1>2, <2>1, <2>2, <2>3, <2>4, TaskStep
<1> QED
  BY <1>3, <1>4, <1>5, <1>6

-----------------------------------------------------------------------------
\* Making a default

\* A handler gets the advisory lock, and gives up if its membership is gone.
LEMMA ChecksMemberKeeps ==
  ASSUME OrgInv, NEW w \in Workers, ChecksMember(w)
  PROVE  OrgInv'
<1> DEFINE t == task[w]
           saw == role[t.org][t.user] \in Accepted
           s == [t EXCEPT !.stage = "member", !.saw = saw]
<1>1. t \in Task /\ TaskFits(t) /\ t.op \in Making /\ t.stage = "begun" /\ AdvisoryFree(w)
  BY DEF OrgInv, ChecksMember
<1>2. saw \in BOOLEAN
  OBVIOUS
<1>3. UNCHANGED <<live, role, default, owner, shares>>
  BY DEF ChecksMember, Unchanged_rows
<1>4. task' = [task EXCEPT ![w] = IF IsMember(t) THEN s ELSE NoTask]
  BY DEF ChecksMember
<1>5. CASE IsMember(t)
  <2> HIDE DEF saw
  <2>1. /\ s \in Task /\ s.op = t.op /\ s.user = t.user /\ s.org = t.org /\ s.conn = t.conn
        /\ s.stage = "member" /\ s.saw = saw /\ s.set = t.set /\ s.cleared = t.cleared
    BY <1>1, <1>2 DEF Task
  <2>2. s.op = "choose" => s.saw
    BY <1>5, <2>1 DEF IsMember, saw
  <2> HIDE DEF s
  <2>3. TaskFits(s)
    BY <1>1, <2>1, <2>2 DEF TaskFits, Making
  <2>4. ASSUME NEW v \in Workers \ {w}
        PROVE  Apart(s, task[v]) /\ Apart(task[v], s)
    <3>1. Choosing(task[v]) => task[v].user # t.user
      BY <1>1 DEF AdvisoryFree, Choosing
    <3> QED
      BY <1>1, <2>1, <3>1 DEF OrgInv, Apart
  <2> QED
    BY <1>3, <1>4, <1>5, <2>1, <2>3, <2>4, TaskStep
<1>6. CASE ~IsMember(t)
  BY <1>3, <1>4, <1>6, TaskStep, NoTaskFits
<1> QED
  BY <1>5, <1>6

\* It clears the other defaults of its user, and has them all locked.
LEMMA ClearsOthersKeeps ==
  ASSUME OrgInv, NEW w \in Workers, ClearsOthers(w)
  PROVE  OrgInv'
<1> DEFINE t == task[w]
           others == default[t.user] \ {t.org}
           s == [t EXCEPT !.stage = "cleared", !.cleared = others]
<1>1. t \in Task /\ TaskFits(t) /\ t.op \in Making /\ t.stage = "member" /\ t.user \in Users
  BY DEF OrgInv, ClearsOthers, TaskFits, Making
<1>2. others \in SUBSET Orgs
  BY <1>1 DEF OrgInv
<1>3. UNCHANGED <<live, role, default, owner, shares>>
  BY DEF ClearsOthers, Unchanged_rows
<1>4. task' = [task EXCEPT ![w] = s]
  BY DEF ClearsOthers, OrgInv
<1> HIDE DEF others
<1>5. /\ s \in Task /\ s.op = t.op /\ s.user = t.user /\ s.org = t.org /\ s.conn = t.conn
      /\ s.stage = "cleared" /\ s.saw = t.saw /\ s.set = t.set /\ s.cleared = others
  BY <1>1, <1>2 DEF Task
<1> HIDE DEF s
<1>6. TaskFits(s)
  BY <1>1, <1>5 DEF TaskFits, Making, others
<1>7. \A v \in Workers \ {w} : Apart(s, task[v]) /\ Apart(task[v], s)
  BY <1>1, <1>5 DEF OrgInv, Apart, Choosing
<1> QED
  BY <1>3, <1>4, <1>5, <1>6, <1>7, TaskStep

\* It sets the new one, and never runs into the index.
LEMMA SetsDefaultKeeps ==
  ASSUME OrgInv, NEW w \in Workers, SetsDefault(w)
  PROVE  OrgInv'
<1> DEFINE t == task[w]
           sets == CanBeDefault(t) /\ t.org \notin default[t.user]
           s == [t EXCEPT !.stage = "set", !.set = sets]
<1>1. t \in Task /\ TaskFits(t) /\ t.op \in Making /\ t.stage = "cleared" /\ t.user \in Users /\ t.org \in Orgs
  BY DEF OrgInv, SetsDefault, TaskFits, Making
<1>2. sets \in BOOLEAN
  OBVIOUS
<1>3. UNCHANGED <<live, role, default, owner, shares>>
  BY DEF SetsDefault, Unchanged_rows
<1>4. default[t.user] \ (t.cleared \cup {t.org}) = {}
  BY <1>1 DEF TaskFits
<1>5. task' = [task EXCEPT ![w] = s]
  BY <1>4 DEF SetsDefault
<1>6. sets <=> CanBeDefault(t) /\ t.org \notin default[t.user]
  OBVIOUS
<1> HIDE DEF sets
<1>7. /\ s \in Task /\ s.op = t.op /\ s.user = t.user /\ s.org = t.org /\ s.conn = t.conn
      /\ s.stage = "set" /\ s.saw = t.saw /\ s.set = sets /\ s.cleared = t.cleared
  BY <1>1, <1>2 DEF Task
<1> HIDE DEF s
<1>8. TaskFits(s)
  <2>1. s.op \in {"create", "accept"} => t.org \notin default[t.user]
    <3>1. s.op \in {"create", "accept"} => role[t.org][t.user] \in {"none", "pending"}
      BY <1>1, <1>7 DEF TaskFits, OrgInv, OwnersFit
    <3> QED
      BY <1>1, <3>1 DEF OrgInv, DefaultsFit, Accepted
  <2>2. s.op \in {"create", "accept"} => s.set
    BY <1>6, <1>7, <2>1 DEF CanBeDefault
  <2>3. s.op = "choose" /\ s.set => role[s.org][s.user] \in Accepted
    BY <1>6, <1>7 DEF CanBeDefault
  <2>4. s.op = "choose" /\ ~s.set => s.org \in default[s.user] \/ role[s.org][s.user] \notin Accepted
    BY <1>6, <1>7 DEF CanBeDefault
  <2> QED
    BY <1>1, <1>7, <2>2, <2>3, <2>4 DEF TaskFits, Making
<1>9. \A v \in Workers \ {w} : Apart(s, task[v]) /\ Apart(task[v], s)
  BY <1>1, <1>7 DEF OrgInv, Apart, Choosing
<1> QED
  BY <1>3, <1>5, <1>7, <1>8, <1>9, TaskStep

\* It commits.
LEMMA CommitDefaultKeeps ==
  ASSUME OrgInv, NEW w \in Workers, CommitDefault(w)
  PROVE  OrgInv'
<1> DEFINE t == task[w]
           became == IF t.op = "create" THEN "owner" ELSE
                     IF t.op = "accept" THEN "member" ELSE role[t.org][t.user]
<1>1. /\ t \in Task /\ TaskFits(t) /\ t.op \in Making /\ t.stage = "set" /\ t.user \in Users /\ t.org \in Orgs
      /\ Choosing(t)
  BY DEF OrgInv, CommitDefault, TaskFits, Making, Choosing
<1>2. UNCHANGED <<owner, shares>>
  BY DEF CommitDefault
<1>3. /\ task' \in [Workers -> Task]
      /\ \A v \in Workers : task'[v] = IF v = w THEN NoTask ELSE task[v]
  BY NoTaskFits DEF CommitDefault, OrgInv
<1>4. live' = IF t.op = "create" THEN live \cup {t.org} ELSE live
  BY DEF CommitDefault
<1>5. /\ role' \in [Orgs -> [Users -> Roles]]
      /\ \A o \in Orgs, u \in Users : role'[o][u] = IF o = t.org /\ u = t.user THEN became ELSE role[o][u]
  <2>1. CASE t.op = "create"
    <3>1. role' = [role EXCEPT ![t.org][t.user] = "owner"]
      BY <2>1 DEF CommitDefault
    <3> QED
      BY <1>1, <2>1, <3>1 DEF OrgInv, Roles
  <2>2. CASE t.op = "accept"
    <3>1. role' = [role EXCEPT ![t.org][t.user] = "member"]
      BY <2>2 DEF CommitDefault
    <3> QED
      BY <1>1, <2>2, <3>1 DEF OrgInv, Roles
  <2>3. CASE t.op = "choose"
    <3>1. role' = role
      BY <2>3 DEF CommitDefault
    <3> QED
      BY <2>3, <3>1 DEF OrgInv
  <2> QED
    BY <1>1, <2>1, <2>2, <2>3 DEF Making
<1>6. /\ default' \in [Users -> SUBSET Orgs]
      /\ \A u \in Users : default'[u] =
           IF u = t.user THEN (default[u] \ t.cleared) \cup (IF t.set THEN {t.org} ELSE {}) ELSE default[u]
  BY <1>1 DEF CommitDefault, OrgInv
<1>7. became \in Accepted \/ became = role[t.org][t.user]
  BY DEF Accepted
<1>8. \A o \in Orgs, u \in Users : role[o][u] \in Accepted => role'[o][u] \in Accepted
  BY <1>5, <1>7
<1>9. DefaultsFit'
  <2>1. default[t.user] \ t.cleared \subseteq {t.org}
    BY <1>1 DEF TaskFits
  <2>2. t.set => role'[t.org][t.user] \in Accepted
    BY <1>1, <1>5 DEF TaskFits, Making, Accepted
  <2>3. ASSUME NEW u \in Users
        PROVE  (\A o \in default'[u] : role'[o][u] \in Accepted) /\ \A o, p \in default'[u] : o = p
    <3>1. default[u] \subseteq Orgs /\ (\A o \in default[u] : role[o][u] \in Accepted) /\ \A o, p \in default[u] : o = p
      BY DEF OrgInv, DefaultsFit
    <3>2. CASE u # t.user
      BY <1>6, <1>8, <3>1, <3>2
    <3>3. CASE u = t.user
      <4>1. default'[u] \subseteq {t.org}
        BY <1>6, <2>1, <3>3
      <4>2. \A o \in default'[u] : o \in default[u] \/ (t.set /\ o = t.org)
        BY <1>6, <3>3
      <4> QED
        BY <1>8, <2>2, <3>1, <3>3, <4>1, <4>2
    <3> QED
      BY <3>2, <3>3
  <2> QED
    BY <2>3 DEF DefaultsFit
<1>10. OwnersFit'
  <2>1. CASE t.op = "create"
    <3>1. t.org \notin live /\ \A u \in Users : role[t.org][u] = "none"
      BY <1>1, <2>1 DEF TaskFits, OrgInv, OwnersFit
    <3>2. role'[t.org][t.user] = "owner" /\ \A u \in Users \ {t.user} : role'[t.org][u] = "none"
      BY <1>1, <1>5, <2>1, <3>1
    <3>3. \A o \in Orgs \ {t.org}, u \in Users : role'[o][u] = role[o][u]
      BY <1>5
    <3>4. t.org \in live' /\ \A o \in Orgs \ {t.org} : o \in live' <=> o \in live
      BY <1>4, <2>1
    <3> QED
      BY <1>1, <3>2, <3>3, <3>4 DEF OwnersFit, OrgInv
  <2>2. CASE t.op = "accept"
    <3>1. t.org \in live /\ role[t.org][t.user] = "pending"
      BY <1>1, <2>2 DEF TaskFits, OrgInv, OwnersFit
    <3>2. \A o \in Orgs, u \in Users : role'[o][u] = "owner" <=> role[o][u] = "owner"
      BY <1>5, <2>2, <3>1
    <3>3. \A o \in Orgs, u \in Users : o \notin live => role'[o][u] = role[o][u]
      BY <1>5, <3>1
    <3> QED
      BY <1>4, <2>2, <3>2, <3>3 DEF OwnersFit, OrgInv
  <2>3. CASE t.op = "choose"
    <3>1. \A o \in Orgs, u \in Users : role'[o][u] = role[o][u]
      BY <1>5, <2>3
    <3> QED
      BY <1>4, <2>3, <3>1 DEF OwnersFit, OrgInv
  <2> QED
    BY <1>1, <2>1, <2>2, <2>3 DEF Making
<1>11. EveryLinkCounts'
  BY <1>2, <1>4, <1>8 DEF EveryLinkCounts, OrgInv, Share
<1>12. ASSUME NEW v \in Workers
       PROVE  TaskFits(task[v])'
  <2> DEFINE s == task[v]
  <2>1. CASE v = w
    <3>1. NoTask.op = "none" /\ NoTask.stage = "begun"
      BY DEF NoTask
    <3> QED
      BY <1>3, <2>1, <3>1 DEF TaskFits, Making
  <2>2. CASE v # w
    <3>1. TaskFits(s) /\ Apart(t, s) /\ Apart(s, t) /\ task'[v] = s
      BY <1>3, <2>2 DEF OrgInv
    <3>2. s.op = "create" => s.org \notin live'
      BY <1>1, <1>4, <3>1 DEF TaskFits, Apart
    <3>3. s.op = "accept" => role'[s.org][s.user] = "pending"
      BY <1>1, <1>5, <3>1 DEF TaskFits, Apart
    <3>4. s.op # "none" /\ role[s.org][s.user] \in Accepted => role'[s.org][s.user] \in Accepted
      BY <1>8, <3>1 DEF TaskFits
    <3>5. Choosing(s) => default'[s.user] = default[s.user] /\ role'[s.org][s.user] = role[s.org][s.user]
      BY <1>1, <1>5, <1>6, <3>1 DEF Apart, TaskFits, Choosing, Making
    <3>6. s.op \in Making /\ s.stage \in {"cleared", "set"} => Choosing(s)
      BY DEF Choosing
    <3> HIDE DEF s
    <3> QED
      BY <1>2, <3>1, <3>2, <3>3, <3>4, <3>5, <3>6 DEF TaskFits
  <2> QED
    BY <2>1, <2>2
<1>13. \A v, u \in Workers : v # u => Apart(task'[v], task'[u])
  BY <1>3, NoTaskFits DEF OrgInv
<1>14. \A v, u \in Workers : v # u => Apart(task[v], task[u])'
  BY <1>13 DEF Apart, Choosing
<1>15. live' \subseteq Orgs /\ owner' \in [Connections -> Users \cup {"nobody"}] /\ shares' \subseteq Share
  BY <1>1, <1>2, <1>4 DEF OrgInv
<1> QED
  BY <1>3, <1>5, <1>6, <1>9, <1>10, <1>11, <1>12, <1>14, <1>15 DEF OrgInv
-----------------------------------------------------------------------------
\* Members

\* A membership that nobody has locked ends, or an organization with all of its rows.
LEMMA RowsEnd ==
  ASSUME OrgInv, live' \subseteq live,
         role' \in [Orgs -> [Users -> Roles]], default' \in [Users -> SUBSET Orgs],
         UNCHANGED <<owner, task>>, shares' \subseteq shares,
         \A o \in Orgs, u \in Users :
           /\ role'[o][u] = role[o][u] \/ role'[o][u] = "none"
           /\ o \in default'[u] <=> o \in default[u] /\ role'[o][u] = role[o][u]
           /\ role'[o][u] # role[o][u] => RowFree(u, o)
           /\ role'[o][u] # role[o][u] /\ role[o][u] = "owner" => o \notin live'
           /\ o \notin live' => role'[o][u] = "none",
         \A s \in shares' : role'[s.org][s.sharer] = role[s.org][s.sharer]
  PROVE  OrgInv'
<1>1. DefaultsFit'
  BY DEF OrgInv, DefaultsFit
<1>2. OwnersFit'
  <2>1. ASSUME NEW o \in Orgs, o \in live'
        PROVE  \E u \in Users : role'[o][u] = "owner"
    <3>1. PICK u \in Users : role[o][u] = "owner"
      BY <2>1 DEF OrgInv, OwnersFit
    <3> QED
      BY <2>1, <3>1
  <2>2. \A o \in Orgs, u, v \in Users : role'[o][u] = "owner" /\ role'[o][v] = "owner" => u = v
    <3>1. \A o \in Orgs, u \in Users : role'[o][u] = "owner" => role[o][u] = "owner"
      OBVIOUS
    <3> QED
      BY <3>1 DEF OrgInv, OwnersFit
  <2> QED
    BY <2>1, <2>2 DEF OwnersFit
<1>3. EveryLinkCounts'
  <2> SUFFICES ASSUME NEW s \in shares'
               PROVE  owner'[s.conn] = s.sharer /\ role'[s.org][s.sharer] \in Accepted /\ s.org \in live'
    BY DEF EveryLinkCounts
  <2>1. s.org \in Orgs /\ s.sharer \in Users /\ s \in shares
    BY DEF OrgInv, Share
  <2>2. owner[s.conn] = s.sharer /\ role[s.org][s.sharer] \in Accepted
    BY <2>1 DEF OrgInv, EveryLinkCounts
  <2>3. role'[s.org][s.sharer] # "none"
    BY <2>2 DEF Accepted
  <2> QED
    BY <2>1, <2>2, <2>3
<1>4. ASSUME NEW v \in Workers
      PROVE  TaskFits(task[v])'
  <2> DEFINE t == task[v]
  <2>1. TaskFits(t) /\ task'[v] = t
    BY DEF OrgInv
  <2>2. t.op # "none" => t.org \in Orgs /\ t.user \in Users
    BY <2>1 DEF TaskFits
  <2>3. t.op \in {"share", "accept"} \/ (t.op = "choose" /\ t.set) => role'[t.org][t.user] = role[t.org][t.user]
    <3>1. t.op \in {"share", "accept"} \/ (t.op = "choose" /\ t.set) => ~RowFree(t.user, t.org)
      BY DEF RowFree, Holds
    <3> QED
      BY <2>2, <3>1
  <2>4. ASSUME t.op # "none"
        PROVE  /\ default'[t.user] \subseteq default[t.user]
               /\ t.org \in default[t.user] \/ role[t.org][t.user] \notin Accepted =>
                    t.org \in default'[t.user] \/ role'[t.org][t.user] \notin Accepted
    <3>1. default[t.user] \subseteq Orgs /\ default'[t.user] \subseteq Orgs
      BY <2>2, <2>4 DEF OrgInv
    <3>2. "none" \notin Accepted
      BY DEF Accepted
    <3> QED
      BY <2>2, <2>4, <3>1, <3>2
  <2> HIDE DEF t
  <2> QED
    BY <2>1, <2>2, <2>3, <2>4 DEF TaskFits, Making
<1>5. \A v, u \in Workers : v # u => Apart(task[v], task[u])'
  BY DEF OrgInv, Apart, Choosing
<1> QED
  BY <1>1, <1>2, <1>3, <1>4, <1>5 DEF OrgInv

LEMMA MembershipEndsKeeps ==
  ASSUME OrgInv, NEW u \in Users, NEW o \in Orgs,
         MembershipEnds(u, o), RowFree(u, o), role[o][u] \in {"pending", "member"}
  PROVE  OrgInv'
<1>1. /\ role' \in [Orgs -> [Users -> Roles]] /\ default' \in [Users -> SUBSET Orgs]
      /\ UNCHANGED <<live, owner, task>> /\ shares' \subseteq shares
      /\ \A s \in shares' : ~(s.org = o /\ s.sharer = u)
  BY DEF OrgInv, MembershipEnds, Roles, Unlinked
<1>2. \A p \in Orgs, v \in Users :
        /\ role'[p][v] = IF p = o /\ v = u THEN "none" ELSE role[p][v]
        /\ p \in default'[v] <=> p \in default[v] /\ ~(p = o /\ v = u)
  BY DEF OrgInv, MembershipEnds
<1>3. \A s \in shares' : role'[s.org][s.sharer] = role[s.org][s.sharer]
  BY <1>1, <1>2 DEF OrgInv, Share
<1>4. \A p \in Orgs, v \in Users : p \notin live' => role'[p][v] = "none"
  BY <1>1, <1>2 DEF OrgInv, OwnersFit
<1> QED
  BY <1>1, <1>2, <1>3, <1>4, RowsEnd

LEMMA DeleteOrganizationKeeps ==
  ASSUME OrgInv, NEW o \in Orgs, DeleteOrganization(o)
  PROVE  OrgInv'
<1>1. /\ role' \in [Orgs -> [Users -> Roles]] /\ default' \in [Users -> SUBSET Orgs]
      /\ UNCHANGED <<owner, task>> /\ shares' \subseteq shares /\ live' = live \ {o}
      /\ \A s \in shares' : s.org # o
  BY DEF OrgInv, DeleteOrganization, Roles
<1>2. \A p \in Orgs, v \in Users :
        /\ role'[p][v] = IF p = o THEN "none" ELSE role[p][v]
        /\ p \in default'[v] <=> p \in default[v] /\ p # o
  BY DEF OrgInv, DeleteOrganization
<1>3. \A v \in Users : role[o][v] # "none" => RowFree(v, o)
  BY DEF DeleteOrganization
<1>4. \A s \in shares' : role'[s.org][s.sharer] = role[s.org][s.sharer]
  BY <1>1, <1>2 DEF OrgInv, Share
<1>5. \A p \in Orgs, v \in Users : p \notin live' => role'[p][v] = "none"
  BY <1>1, <1>2 DEF OrgInv, OwnersFit
<1>6. \A p \in Orgs, v \in Users : p \in default[v] => role[p][v] # "none"
  BY DEF OrgInv, DefaultsFit, Accepted
<1>7. \A p \in Orgs, v \in Users :
        /\ role'[p][v] = role[p][v] \/ role'[p][v] = "none"
        /\ p \in default'[v] <=> p \in default[v] /\ role'[p][v] = role[p][v]
        /\ role'[p][v] # role[p][v] => RowFree(v, p) /\ p \notin live'
  BY <1>1, <1>2, <1>3, <1>6
<1> QED
  BY <1>1, <1>4, <1>5, <1>7, RowsEnd

LEMMA InviteMemberKeeps ==
  ASSUME OrgInv, NEW u \in Users, NEW o \in Orgs, InviteMember(o, u)
  PROVE  OrgInv'
<1>1. /\ role' \in [Orgs -> [Users -> Roles]] /\ o \in live /\ role[o][u] = "none"
      /\ \A p \in Orgs, v \in Users : role'[p][v] = IF p = o /\ v = u THEN "pending" ELSE role[p][v]
      /\ UNCHANGED <<live, default, owner, shares, task>>
  BY DEF OrgInv, InviteMember, Roles
<1>2. \A p \in Orgs, v \in Users :
        /\ role'[p][v] = "owner" <=> role[p][v] = "owner"
        /\ role'[p][v] \in Accepted <=> role[p][v] \in Accepted
        /\ role[p][v] = "pending" => role'[p][v] = "pending"
  BY <1>1 DEF Accepted
<1>3. DefaultsFit'
  BY <1>1, <1>2 DEF OrgInv, DefaultsFit
<1>4. OwnersFit'
  BY <1>1, <1>2 DEF OrgInv, OwnersFit
<1>5. EveryLinkCounts'
  BY <1>1, <1>2 DEF OrgInv, EveryLinkCounts, Share
<1>6. ASSUME NEW v \in Workers
      PROVE  TaskFits(task[v])'
  <2>1. TaskFits(task[v]) /\ task'[v] = task[v]
    BY <1>1 DEF OrgInv
  <2> QED
    BY <1>1, <1>2, <2>1 DEF TaskFits, Making
<1>7. \A v, x \in Workers : v # x => Apart(task[v], task[x])'
  BY <1>1 DEF OrgInv, Apart, Choosing
<1> QED
  BY <1>1, <1>3, <1>4, <1>5, <1>6, <1>7 DEF OrgInv

-----------------------------------------------------------------------------
\* Shared accounts

\* The memberships stay, and so does the owner of an account that is being shared.
LEMMA LinksStep ==
  ASSUME OrgInv, UNCHANGED <<live, role, default>>,
         owner' \in [Connections -> Users \cup {"nobody"}], shares' \subseteq Share, EveryLinkCounts',
         task' \in [Workers -> Task], \A v \in Workers : task'[v] = task[v] \/ task'[v] = NoTask,
         \A v \in Workers : task'[v].op = "share" => owner'[task[v].conn] = owner[task[v].conn]
  PROVE  OrgInv'
<1>1. DefaultsFit' /\ OwnersFit'
  BY DEF OrgInv, DefaultsFit, OwnersFit
<1>2. ASSUME NEW v \in Workers
      PROVE  TaskFits(task[v])'
  <2>1. TaskFits(task'[v])
    BY NoTaskFits DEF OrgInv
  <2>2. task'[v].op = "share" => owner'[task'[v].conn] = owner[task'[v].conn]
    BY DEF NoTask
  <2> QED
    BY <2>1, <2>2 DEF TaskFits
<1>3. \A v, u \in Workers : v # u => Apart(task'[v], task'[u])
  BY NoTaskFits DEF OrgInv
<1>4. \A v, u \in Workers : v # u => Apart(task[v], task[u])'
  BY <1>3 DEF Apart, Choosing
<1> QED
  BY <1>1, <1>2, <1>4 DEF OrgInv

LEMMA CommitShareKeeps ==
  ASSUME OrgInv, NEW w \in Workers, CommitShare(w)
  PROVE  OrgInv'
<1> DEFINE t == task[w]
           new == [org |-> t.org, conn |-> t.conn, sharer |-> t.user]
<1>1. /\ t.op = "share" /\ t.org \in Orgs /\ t.user \in Users /\ t.conn \in Connections
      /\ owner[t.conn] = t.user /\ role[t.org][t.user] \in Accepted
  BY DEF OrgInv, CommitShare, TaskFits
<1>2. new \in Share /\ owner[new.conn] = new.sharer /\ role[new.org][new.sharer] \in Accepted /\ new.org \in live
  BY <1>1 DEF Share, OrgInv, OwnersFit, Accepted
<1>3. UNCHANGED <<live, role, default, owner>> /\ shares' \subseteq shares \cup {new}
  BY DEF CommitShare
<1>4. task' \in [Workers -> Task] /\ \A v \in Workers : task'[v] = task[v] \/ task'[v] = NoTask
  BY NoTaskFits DEF OrgInv, CommitShare
<1> HIDE DEF new
<1>5. shares' \subseteq Share /\ EveryLinkCounts'
  BY <1>2, <1>3 DEF OrgInv, EveryLinkCounts
<1> QED
  BY <1>3, <1>4, <1>5, LinksStep DEF OrgInv

LEMMA AccountsKeep ==
  ASSUME OrgInv,
         \/ \E u \in Users, s \in shares : UnshareAgent(u, s)
         \/ \E c \in Connections : Disconnect(c)
         \/ \E c \in Connections, u \in Users : Connect(c, u) \/ Transfer(c, u)
  PROVE  OrgInv'
<1>1. UNCHANGED <<live, role, default, task>>
  BY DEF UnshareAgent, Disconnect, Connect, Transfer
<1>2. task' \in [Workers -> Task] /\ \A v \in Workers : task'[v] = task[v]
  BY <1>1 DEF OrgInv
<1>3. CASE \E u \in Users, s \in shares : UnshareAgent(u, s)
  <2>1. owner' = owner /\ shares' \subseteq shares
    BY <1>3 DEF UnshareAgent
  <2> QED
    BY <1>1, <1>2, <2>1, LinksStep DEF OrgInv, EveryLinkCounts
<1>4. ASSUME NEW c \in Connections, NEW x \in Users \cup {"nobody"},
             owner' = [owner EXCEPT ![c] = x], shares' = {s \in shares : s.conn # c}, ConnectionFree(c)
      PROVE  OrgInv'
  <2>1. /\ owner' \in [Connections -> Users \cup {"nobody"}]
        /\ \A d \in Connections : d # c => owner'[d] = owner[d]
    BY <1>4 DEF OrgInv
  <2>2. EveryLinkCounts' /\ shares' \subseteq Share
    BY <1>1, <1>4, <2>1 DEF OrgInv, EveryLinkCounts, Share
  <2>3. \A v \in Workers : task[v].op = "share" => task[v].conn \in Connections /\ task[v].conn # c
    BY <1>4 DEF ConnectionFree, OrgInv, TaskFits
  <2> QED
    BY <1>1, <1>2, <2>1, <2>2, <2>3, LinksStep
<1>5. ASSUME NEW c \in Connections, NEW u \in Users, Connect(c, u)
      PROVE  OrgInv'
  <2>1. owner' = [owner EXCEPT ![c] = u] /\ shares' = shares /\ owner[c] = "nobody"
    BY <1>5 DEF Connect
  <2>2. \A s \in shares : s.conn # c
    BY <2>1, OrganizationsAssumption DEF OrgInv, EveryLinkCounts, Share
  <2>3. \A v \in Workers : ~(task[v].op = "share" /\ task[v].conn = c)
    BY <1>5, OrganizationsAssumption DEF Connect
  <2> QED
    BY <1>4, <2>1, <2>2, <2>3 DEF ConnectionFree
<1>6. ASSUME NEW c \in Connections, NEW u \in Users, Transfer(c, u)
      PROVE  OrgInv'
  BY <1>4, <1>6 DEF Transfer, UnlinkedOnTransfer
<1>7. ASSUME NEW c \in Connections, Disconnect(c)
      PROVE  OrgInv'
  BY <1>4, <1>7 DEF Disconnect
<1> QED
  BY <1>3, <1>5, <1>6, <1>7
-----------------------------------------------------------------------------
\* The invariant and what follows

\* The steps that end a membership.
Ending(o, u) == DeclineInvitation(o, u) \/ RemoveMember(o, u) \/ LeaveOrganization(o, u)

LEMMA EndingEnds ==
  ASSUME NEW o \in Orgs, NEW u \in Users, Ending(o, u)
  PROVE  MembershipEnds(u, o) /\ RowFree(u, o) /\ role[o][u] \in {"pending", "member"}
  BY DEF Ending, DeclineInvitation, RemoveMember, LeaveOrganization, Removable

\* Steps that leave the rows of organizations alone, but for invitations.
Other ==
  \/ \E w \in Workers :
       \/ \E u \in Users, o \in Orgs :
            \/ CreateOrganization(w, u, o) \/ AcceptInvitation(w, u, o) \/ SetDefaultOrganization(w, u, o)
            \/ \E c \in Connections : ShareAgent(w, u, o, c)
       \/ ChecksMember(w) \/ ClearsOthers(w) \/ SetsDefault(w) \/ CommitShare(w) \/ RollBack(w)
  \/ \E o \in Orgs, u \in Users : InviteMember(o, u)
  \/ \E u \in Users, s \in shares : UnshareAgent(u, s)
  \/ \E c \in Connections : Disconnect(c)
  \/ \E c \in Connections, u \in Users : Connect(c, u) \/ Transfer(c, u)

LEMMA NextIsOneOf ==
  ASSUME [Next]_vars
  PROVE  \/ UNCHANGED vars
         \/ Other
         \/ \E w \in Workers : CommitDefault(w)
         \/ \E o \in Orgs, u \in Users : Ending(o, u)
         \/ \E o \in Orgs : DeleteOrganization(o)
  BY DEF Next, Other, Ending

LEMMA OtherKeeps ==
  ASSUME OrgInv, Other
  PROVE  OrgInv' /\ default' = default
<1>1. ASSUME NEW w \in Workers, NEW u \in Users, NEW o \in Orgs,
             \/ CreateOrganization(w, u, o) \/ AcceptInvitation(w, u, o) \/ SetDefaultOrganization(w, u, o)
             \/ \E c \in Connections : ShareAgent(w, u, o, c)
      PROVE  OrgInv' /\ default' = default
  <2>1. default' = default
    BY <1>1 DEF CreateOrganization, AcceptInvitation, SetDefaultOrganization, ShareAgent, Unchanged_rows
  <2> QED
    BY <1>1, <2>1, BeginsKeep
<1>2. ASSUME NEW w \in Workers,
             ChecksMember(w) \/ ClearsOthers(w) \/ SetsDefault(w) \/ CommitShare(w) \/ RollBack(w)
      PROVE  OrgInv' /\ default' = default
  <2>1. default' = default
    BY <1>2 DEF ChecksMember, ClearsOthers, SetsDefault, CommitShare, RollBack, Unchanged_rows
  <2> QED
    BY <1>2, <2>1, ChecksMemberKeeps, ClearsOthersKeeps, SetsDefaultKeeps, CommitShareKeeps, RollBackKeeps
<1>3. ASSUME NEW o \in Orgs, NEW u \in Users, InviteMember(o, u)
      PROVE  OrgInv' /\ default' = default
  <2>1. default' = default
    BY <1>3 DEF InviteMember
  <2> QED
    BY <1>3, <2>1, InviteMemberKeeps
<1>4. ASSUME \/ \E u \in Users, s \in shares : UnshareAgent(u, s)
             \/ \E c \in Connections : Disconnect(c)
             \/ \E c \in Connections, u \in Users : Connect(c, u) \/ Transfer(c, u)
      PROVE  OrgInv' /\ default' = default
  <2>1. default' = default
    BY <1>4 DEF UnshareAgent, Disconnect, Connect, Transfer
  <2> QED
    BY <1>4, <2>1, AccountsKeep
<1> QED
  BY <1>1, <1>2, <1>3, <1>4 DEF Other

LEMMA OrgNextInv == OrgInv /\ [Next]_vars => OrgInv'
<1> SUFFICES ASSUME OrgInv, [Next]_vars PROVE OrgInv'
  OBVIOUS
<1>1. CASE UNCHANGED vars
  <2>1. DefaultsFit' /\ OwnersFit' /\ EveryLinkCounts'
    BY <1>1 DEF vars, OrgInv, DefaultsFit, OwnersFit, EveryLinkCounts
  <2>2. \A w \in Workers : TaskFits(task[w])'
    BY <1>1 DEF vars, OrgInv, TaskFits
  <2>3. \A w, v \in Workers : w # v => Apart(task[w], task[v])'
    BY <1>1 DEF vars, OrgInv, Apart, Choosing
  <2> QED
    BY <1>1, <2>1, <2>2, <2>3 DEF vars, OrgInv
<1>2. ASSUME NEW o \in Orgs, NEW u \in Users, Ending(o, u)
      PROVE  OrgInv'
  BY <1>2, EndingEnds, MembershipEndsKeeps
<1> QED
  BY <1>1, <1>2, NextIsOneOf, OtherKeeps, CommitDefaultKeeps, DeleteOrganizationKeeps

\* What handlers have read and locked still says so, whatever the others do: the invariant the theorems
\* below rest on.
THEOREM OrgInvariant == Spec => []OrgInv
<1>1. Init => OrgInv
  BY OrgInitInv
<1>2. OrgInv /\ [Next]_vars => OrgInv'
  BY OrgNextInv
<1> QED
  BY <1>1, <1>2, PTL DEF Spec

\* share_agent, the trigger on transfers and the foreign keys: no link to a shared account outlives the
\* ownership or the membership it came from.
THEOREM LinksAlwaysCount == Spec => []EveryLinkCounts
<1>1. OrgInv => EveryLinkCounts
  BY DEF OrgInv
<1> QED
  BY <1>1, OrgInvariant, PTL

\* The two unique indexes: one owner for each organization, one default at most for each user, and no
\* handler that runs into the second.
THEOREM IndexesHold == Spec => []OneOwnerOneDefault
<1>1. OrgInv => OneOwnerOneDefault
  <2> SUFFICES ASSUME OrgInv PROVE OneOwnerOneDefault
    OBVIOUS
  <2>1. ASSUME NEW o \in Orgs, o \in live
        PROVE  Cardinality({u \in Users : role[o][u] = "owner"}) = 1
    <3>1. PICK u \in Users : role[o][u] = "owner"
      BY <2>1 DEF OrgInv, OwnersFit
    <3>2. {v \in Users : role[o][v] = "owner"} = {u}
      BY <3>1 DEF OrgInv, OwnersFit
    <3> QED
      BY <3>2, FS_Singleton
  <2>2. ASSUME NEW u \in Users
        PROVE  Cardinality(default[u]) <= 1
    <3>1. CASE default[u] = {}
      BY <3>1, FS_EmptySet
    <3>2. CASE default[u] # {}
      <4>1. PICK o : o \in default[u]
        BY <3>2
      <4>2. default[u] = {o}
        BY <4>1 DEF OrgInv, DefaultsFit
      <4>3. Cardinality({o}) = 1
        BY FS_Singleton
      <4> QED
        BY <4>2, <4>3
    <3> QED
      BY <3>1, <3>2
  <2>3. \A w \in Workers : task[w].stage # "tripped"
    BY DEF OrgInv, TaskFits
  <2>4. OneOwner
    BY <2>1 DEF OneOwner, OrgInv, OwnersFit
  <2> QED
    BY <2>2, <2>3, <2>4 DEF OneOwnerOneDefault, OneDefault
<1> QED
  BY <1>1, OrgInvariant, PTL

\* How user u may lose a default.
MayLose(u) ==
  \/ \A o \in default[u] : role'[o][u] = "none"
  \/ \E w \in Workers :
       /\ task[w].stage = "set" /\ task[w].op = "choose" /\ task[w].user = u
       /\ task[w].saw /\ role[task[w].org][u] \notin Accepted

\* make_default_organization: a default goes only with its membership, or for one whose membership ended
\* while it was being chosen.
THEOREM DefaultsAreKept == Spec => DefaultIsKept
<1>1. OrgInv /\ [Next]_vars => [\A u \in Users : default[u] # {} /\ default'[u] = {} => MayLose(u)]_vars
  <2> SUFFICES ASSUME OrgInv, [Next]_vars, ~UNCHANGED vars,
                      NEW u \in Users, default[u] # {}, default'[u] = {}
               PROVE  MayLose(u)
    OBVIOUS
  <2>1. default[u] \subseteq Orgs /\ \A o, p \in default[u] : o = p
    BY DEF OrgInv, DefaultsFit
  <2>2. ~Other
    BY OtherKeeps
  <2>3. ASSUME NEW w \in Workers, CommitDefault(w)
        PROVE  MayLose(u)
    <3> DEFINE t == task[w]
    <3>1. TaskFits(t) /\ t.op \in Making /\ t.stage = "set" /\ t.user \in Users
      BY <2>3 DEF OrgInv, CommitDefault, TaskFits, Making
    <3>2. \A v \in Users : default'[v] =
            IF v = t.user THEN (default[v] \ t.cleared) \cup (IF t.set THEN {t.org} ELSE {}) ELSE default[v]
      BY <2>3, <3>1 DEF CommitDefault, OrgInv
    <3>3. t.user = u /\ ~t.set /\ default[u] \subseteq t.cleared
      BY <3>2
    <3>4. t.op = "choose" /\ role[t.org][u] \notin Accepted
      BY <3>1, <3>3 DEF TaskFits
    <3>5. t.saw
      BY <3>1, <3>4 DEF TaskFits
    <3> QED
      BY <3>1, <3>3, <3>4, <3>5 DEF MayLose
  <2>4. ASSUME NEW o \in Orgs, NEW v \in Users, Ending(o, v)
        PROVE  MayLose(u)
    <3>1. default' = [default EXCEPT ![v] = @ \ {o}] /\ role' = [role EXCEPT ![o][v] = "none"]
      BY <2>4, EndingEnds DEF MembershipEnds
    <3>2. v = u /\ default[u] = {o}
      BY <2>1, <3>1 DEF OrgInv
    <3>3. role'[o][u] = "none"
      BY <3>1, <3>2 DEF OrgInv
    <3> QED
      BY <3>2, <3>3 DEF MayLose
  <2>5. ASSUME NEW o \in Orgs, DeleteOrganization(o)
        PROVE  MayLose(u)
    <3>1. default'[u] = default[u] \ {o} /\ role'[o][u] = "none"
      BY <2>5 DEF DeleteOrganization, OrgInv
    <3>2. default[u] \subseteq {o}
      BY <3>1
    <3> QED
      BY <3>1, <3>2 DEF MayLose
  <2> QED
    BY <2>2, <2>3, <2>4, <2>5, NextIsOneOf
<1> QED
  BY <1>1, OrgInvariant, PTL DEF Spec, DefaultIsKept, MayLose

(***************************************************************************)
(* Sessions: a browser whose answers arrive can go on, and a sign-out ends *)
(* its session.  SessionsInv follows every refresh token: which session    *)
(* gave it, and that the newest one is in the jar or on its way there.     *)
(***************************************************************************)
\* A refresh token that is somewhere was given by its session, or its session is gone.
Given(x) == x # NoToken => x.login \in Logins /\ x.no <= row[x.login].refresh

TokensWereGiven ==
  /\ Given(jar.refresh)
  /\ \A t \in Tabs : Given(tab[t].cookies.refresh)
  /\ \A x \in signedOut : x # NoToken /\ Given(x)

\* An open session has the token it was given last and the one before.
RowsFit ==
  \A s \in Logins :
    /\ row[s].refreshOk = TRUE => row[s].exists = TRUE
    /\ row[s].exists = TRUE => row[s].refresh = row[s].previous + 1

\* A refresh holds a row that is open, and rotates it with the token the row still has.
RefreshFits(q) ==
  /\ q.stage \in {"rotating", "renewing"} <=> q.login # "none"
  /\ q.login # "none" => q.op = "refresh" /\ row[q.login].exists = TRUE
  /\ q.stage = "rotating" => IsCurrent(q.login, q.cookies.refresh)
  /\ q.op = "none" => q.stage # "answered"

\* FOR UPDATE: one refresh at a time holds a row.
RowsAreLockedOnce == \A t, u \in Tabs : t # u /\ tab[t].login # "none" => tab[u].login # tab[t].login

\* A new refresh token on its way to the jar is the one its session has now, and nobody else has it yet.
AnswersFit ==
  \A t \in Tabs :
    LET x == tab[t].cookies.refresh IN
    tab[t].stage = "answered" /\ x # NoToken /\ row[x.login].exists = TRUE =>
      /\ x.no = row[x.login].refresh
      /\ jar.refresh # x
      /\ \A u \in Tabs \ {t} : tab[u].cookies.refresh # x

\* Unless an answer was lost, the jar has the token of its session, or the one before while the session's own
\* is on its way.
JarFits ==
  LET x == jar.refresh IN
  x # NoToken /\ row[x.login].exists = TRUE /\ x.login \notin lost =>
    \/ x.no = row[x.login].refresh
    \/ /\ x.no + 1 = row[x.login].refresh
       /\ \E t \in Tabs : tab[t].stage = "answered" /\ IsCurrent(x.login, tab[t].cookies.refresh)

SessionsInv ==
  /\ SessionsTypeOK
  /\ TokensWereGiven
  /\ RowsFit
  /\ \A t \in Tabs : RefreshFits(tab[t])
  /\ RowsAreLockedOnce
  /\ AnswersFit
  /\ JarFits
  /\ SignOutEndsTheSession
-----------------------------------------------------------------------------
\* The fields of rows, jar and tabs.
LEMMA SessionsTypes ==
  ASSUME SessionsInv
  PROVE  /\ MaxTokens \in Nat /\ MaxTokens > 0 /\ "none" \notin Logins
         /\ \A s \in Logins :
              /\ row[s] \in SessionRow
              /\ row[s].exists \in BOOLEAN /\ row[s].refreshOk \in BOOLEAN /\ row[s].grace \in BOOLEAN
              /\ row[s].access \in 0..MaxTokens /\ row[s].refresh \in 0..MaxTokens /\ row[s].previous \in 0..MaxTokens
         /\ jar \in Cookies /\ jar.refresh \in Token \cup {NoToken} /\ jar.access \in Token \cup {NoToken}
         /\ \A t \in Tabs :
              /\ tab[t] \in Tab /\ tab[t].cookies \in Cookies
              /\ tab[t].cookies.refresh \in Token \cup {NoToken} /\ tab[t].login \in Logins \cup {"none"}
  BY SessionsAssumption DEF SessionsInv, SessionsTypeOK, SessionRow, Cookies, Tab

\* A refresh token is of a session and has a number; no token is of none.
LEMMA TokenFields ==
  ASSUME NEW x \in Token \cup {NoToken}
  PROVE  /\ x # NoToken => x.login \in Logins /\ x.no \in Nat /\ x.no > 0 /\ x.no <= MaxTokens
         /\ x.login \in Logins => x # NoToken
  BY SessionsAssumption DEF Token, NoToken

\* No session gets a new refresh token, no jar another one, and no answer with one begins: what may move then.
LEMMA SessionsMove ==
  ASSUME SessionsInv, SessionsTypeOK', jar'.refresh = jar.refresh, lost \subseteq lost',
         \A s \in Logins :
           /\ row'[s].exists = TRUE => /\ row[s].exists = TRUE /\ row'[s].refresh = row[s].refresh
                                       /\ row'[s].previous = row[s].previous
           /\ row'[s].refreshOk = TRUE => row'[s].exists = TRUE
           /\ row[s].refresh <= row'[s].refresh,
         \A u \in Tabs : RefreshFits(tab[u])',
         RowsAreLockedOnce',
         \A u \in Tabs : tab'[u].cookies.refresh \in {tab[u].cookies.refresh, jar.refresh, NoToken},
         \A u \in Tabs : tab'[u].stage = "answered" => tab'[u].cookies.refresh = NoToken \/ tab'[u] = tab[u],
         \A u \in Tabs : tab[u].stage = "answered" /\ tab[u].cookies.refresh # NoToken =>
           tab'[u] = tab[u] \/ tab[u].cookies.refresh.login \in lost',
         \A x \in signedOut' \ signedOut :
           Given(x) /\ x # NoToken /\ (row'[x.login].exists = TRUE => row'[x.login].refresh > x.no + 1)
  PROVE  SessionsInv'
<1>1. \A x \in Token \cup {NoToken} : Given(x) => Given(x)'
  <2> SUFFICES ASSUME NEW x \in Token \cup {NoToken}, Given(x), x # NoToken
               PROVE  x.login \in Logins /\ x.no <= row'[x.login].refresh
    BY DEF Given
  <2>1. x.login \in Logins /\ x.no \in Nat /\ x.no <= row[x.login].refresh
    BY TokenFields DEF Given
  <2>2. row[x.login].refresh <= row'[x.login].refresh /\ row[x.login].refresh \in Nat /\ row'[x.login].refresh \in Nat
    BY <2>1, SessionsTypes DEF SessionsTypeOK, SessionRow
  <2> QED
    BY <2>1, <2>2
<1>2. TokensWereGiven'
  <2>1. Given(jar.refresh)'
    BY <1>1, SessionsTypes DEF SessionsInv, TokensWereGiven
  <2>2. ASSUME NEW u \in Tabs
        PROVE  Given(tab[u].cookies.refresh)'
    <3>1. Given(tab[u].cookies.refresh) /\ Given(jar.refresh) /\ Given(NoToken)
      BY DEF SessionsInv, TokensWereGiven, Given
    <3>2. tab'[u].cookies.refresh \in {tab[u].cookies.refresh, jar.refresh, NoToken}
      OBVIOUS
    <3>3. Given(tab'[u].cookies.refresh) /\ tab'[u].cookies.refresh \in Token \cup {NoToken}
      BY <3>1, <3>2, SessionsTypes
    <3> QED
      BY <1>1, <3>3
  <2>3. ASSUME NEW x \in signedOut'
        PROVE  x # NoToken /\ Given(x)'
    <3>1. x # NoToken /\ Given(x) /\ x \in Token
      BY <2>3 DEF SessionsInv, TokensWereGiven, SessionsTypeOK
    <3> QED
      BY <1>1, <3>1
  <2> QED
    BY <2>1, <2>2, <2>3 DEF TokensWereGiven
<1>3. RowsFit'
  BY DEF SessionsInv, RowsFit
<1>4. AnswersFit'
  <2> SUFFICES ASSUME NEW t \in Tabs, tab'[t].stage = "answered", tab'[t].cookies.refresh # NoToken,
                      row'[tab'[t].cookies.refresh.login].exists = TRUE
               PROVE  /\ tab'[t].cookies.refresh.no = row'[tab'[t].cookies.refresh.login].refresh
                      /\ jar'.refresh # tab'[t].cookies.refresh
                      /\ \A u \in Tabs \ {t} : tab'[u].cookies.refresh # tab'[t].cookies.refresh
    BY DEF AnswersFit
  <2> DEFINE x == tab[t].cookies.refresh
  <2>1. tab'[t] = tab[t] /\ x # NoToken /\ tab[t].stage = "answered"
    OBVIOUS
  <2>2. x.login \in Logins
    BY <2>1, SessionsTypes, TokenFields
  <2>3. row[x.login].exists = TRUE /\ row'[x.login].refresh = row[x.login].refresh
    BY <2>1, <2>2
  <2>4. x.no = row[x.login].refresh /\ jar.refresh # x /\ \A u \in Tabs \ {t} : tab[u].cookies.refresh # x
    BY <2>1, <2>3 DEF SessionsInv, AnswersFit
  <2>5. \A u \in Tabs \ {t} : tab'[u].cookies.refresh # x
    BY <2>1, <2>4
  <2> QED
    BY <2>1, <2>3, <2>4, <2>5
<1>5. JarFits'
  <2> DEFINE x == jar.refresh
  <2> SUFFICES ASSUME x # NoToken, row'[x.login].exists = TRUE, x.login \notin lost',
                      ~(x.no = row'[x.login].refresh)
               PROVE  /\ x.no + 1 = row'[x.login].refresh
                      /\ \E t \in Tabs : tab'[t].stage = "answered" /\ IsCurrent(x.login, tab[t].cookies.refresh)'
    BY DEF JarFits
  <2>1. x.login \in Logins
    BY SessionsTypes, TokenFields
  <2>2. row[x.login].exists = TRUE /\ row'[x.login].refresh = row[x.login].refresh /\ x.login \notin lost
    BY <2>1
  <2>3. x.no + 1 = row[x.login].refresh
    BY <2>2 DEF SessionsInv, JarFits
  <2>4. PICK t \in Tabs : tab[t].stage = "answered" /\ IsCurrent(x.login, tab[t].cookies.refresh)
    BY <2>2 DEF SessionsInv, JarFits
  <2>5. tab[t].cookies.refresh.login = x.login
    BY <2>4 DEF IsCurrent
  <2>6. tab[t].cookies.refresh # NoToken
    BY <2>1, <2>5, SessionsTypes, TokenFields
  <2>7. tab'[t] = tab[t]
    BY <2>4, <2>5, <2>6
  <2> QED
    BY <2>2, <2>3, <2>4, <2>7 DEF IsCurrent
<1>6. SignOutEndsTheSession'
  <2> SUFFICES ASSUME NEW x \in signedOut', row'[x.login].exists
               PROVE  row'[x.login].refresh > x.no + 1
    BY DEF SignOutEndsTheSession
  <2>1. x.login \in Logins
    BY DEF SessionsTypeOK, Token
  <2>2. row'[x.login].exists = TRUE
    BY <2>1 DEF SessionsTypeOK, SessionRow
  <2>3. CASE x \in signedOut
    <3>1. row[x.login].exists = TRUE /\ row'[x.login].refresh = row[x.login].refresh
      BY <2>1, <2>2
    <3> QED
      BY <2>3, <3>1 DEF SessionsInv, SignOutEndsTheSession
  <2> QED
    BY <2>2, <2>3
<1> QED
  BY <1>2, <1>3, <1>4, <1>5, <1>6 DEF SessionsInv

\* Nobody has signed in yet.
LEMMA SessionsInitInv == SessionsInit => SessionsInv
<1> SUFFICES ASSUME SessionsInit PROVE SessionsInv
  OBVIOUS
<1>1. MaxTokens \in Nat /\ "none" \notin Logins
  BY SessionsAssumption
<1>2. NoSession \in SessionRow /\ NoSession.exists = FALSE /\ NoSession.refreshOk = FALSE
  BY <1>1 DEF NoSession, SessionRow
<1>3. NoCookies \in Cookies /\ NoCookies.refresh = NoToken
  BY DEF NoCookies, Cookies
<1>4. NoRequest \in Tab /\ NoRequest.cookies = NoCookies /\ NoRequest.stage = "sent" /\ NoRequest.login = "none"
  BY <1>3 DEF NoRequest, Tab
<1>5. SessionsTypeOK
  BY <1>2, <1>3, <1>4 DEF SessionsInit, SessionsTypeOK
<1>6. \A t \in Tabs : tab[t] = NoRequest
  BY DEF SessionsInit
<1>7. \A s \in Logins : row[s] = NoSession
  BY DEF SessionsInit
<1>8. TokensWereGiven /\ JarFits /\ SignOutEndsTheSession
  BY <1>3, <1>4, <1>6 DEF SessionsInit, TokensWereGiven, Given, JarFits, SignOutEndsTheSession
<1>9. RowsFit /\ RowsAreLockedOnce /\ AnswersFit
  BY <1>2, <1>4, <1>6, <1>7 DEF RowsFit, RowsAreLockedOnce, AnswersFit
<1>10. \A t \in Tabs : RefreshFits(tab[t])
  BY <1>4, <1>6 DEF RefreshFits
<1> QED
  BY <1>5, <1>8, <1>9, <1>10 DEF SessionsInv

\* A tab without a request holds no row.
LEMMA NoRequestFits ==
  /\ NoRequest \in Tab /\ NoRequest.stage = "sent" /\ NoRequest.login = "none" /\ NoRequest.cookies = NoCookies
  /\ NoCookies \in Cookies /\ NoCookies.refresh = NoToken /\ RefreshFits(NoRequest)
  BY DEF NoRequest, NoCookies, Tab, Cookies, RefreshFits

\* One request moves, and nobody is answered.
LEMMA TabMoves ==
  ASSUME SessionsInv, NEW t \in Tabs, NEW q \in Tab, tab' = [tab EXCEPT ![t] = q],
         row' = row, jar' = jar, signedOut' = signedOut, lost \subseteq lost', lost' \subseteq Logins,
         RefreshFits(q), q.stage # "answered",
         q.login # "none" => \A u \in Tabs \ {t} : tab[u].login # q.login,
         q.cookies.refresh \in {tab[t].cookies.refresh, jar.refresh, NoToken},
         tab[t].stage = "answered" =>
           tab[t].cookies.refresh = NoToken \/ tab[t].cookies.refresh.login \in lost'
  PROVE  SessionsInv'
<1>1. \A u \in Tabs : tab'[u] = IF u = t THEN q ELSE tab[u]
  BY DEF SessionsInv, SessionsTypeOK
<1>2. SessionsTypeOK'
  BY DEF SessionsInv, SessionsTypeOK
<1>3. \A s \in Logins :
        /\ row'[s].exists = TRUE => /\ row[s].exists = TRUE /\ row'[s].refresh = row[s].refresh
                                    /\ row'[s].previous = row[s].previous
        /\ row'[s].refreshOk = TRUE => row'[s].exists = TRUE
        /\ row[s].refresh <= row'[s].refresh
  <2>1. \A s \in Logins : row[s].refresh \in Nat
    BY SessionsTypes
  <2> QED
    BY <2>1 DEF SessionsInv, RowsFit
<1>4. \A u \in Tabs : RefreshFits(tab[u])'
  BY <1>1 DEF SessionsInv, RefreshFits, IsCurrent
<1>5. RowsAreLockedOnce'
  BY <1>1 DEF SessionsInv, RowsAreLockedOnce
<1>6. \A u \in Tabs :
        /\ tab'[u].cookies.refresh \in {tab[u].cookies.refresh, jar.refresh, NoToken}
        /\ tab'[u].stage = "answered" => tab'[u].cookies.refresh = NoToken \/ tab'[u] = tab[u]
        /\ tab[u].stage = "answered" /\ tab[u].cookies.refresh # NoToken =>
             tab'[u] = tab[u] \/ tab[u].cookies.refresh.login \in lost'
  BY <1>1
<1> QED
  BY <1>2, <1>3, <1>4, <1>5, <1>6, SessionsMove

\* A tab sends a request with the cookies of the jar.
LEMMA SendKeeps ==
  ASSUME SessionsInv, NEW t \in Tabs, NEW op \in {"login", "refresh", "logout"}, Send(t, op)
  PROVE  SessionsInv'
<1> DEFINE q == [NoRequest EXCEPT !.op = op, !.cookies = Carried(op)]
<1>1. Carried(op) \in Cookies /\ Carried(op).refresh \in {jar.refresh, NoToken}
  BY SessionsTypes DEF Carried, Cookies
<1>2. q \in Tab /\ q.stage = "sent" /\ q.login = "none" /\ q.cookies = Carried(op)
  BY <1>1, NoRequestFits DEF Tab
<1>3. /\ tab' = [tab EXCEPT ![t] = q] /\ UNCHANGED <<row, jar, lost, signedOut>>
      /\ tab[t].stage # "answered"
  BY DEF Send, SessionsInv, RefreshFits
<1> HIDE DEF q
<1>4. RefreshFits(q)
  BY <1>2 DEF RefreshFits
<1>5. lost' \subseteq Logins
  BY <1>3 DEF SessionsInv, SessionsTypeOK
<1> QED
  BY <1>1, <1>2, <1>3, <1>4, <1>5, TabMoves

\* An answer is lost, and its session with it.
LEMMA AnswerIsLostKeeps ==
  ASSUME SessionsInv, NEW t \in Tabs, AnswerIsLost(t)
  PROVE  SessionsInv'
<1>1. tab' = [tab EXCEPT ![t] = NoRequest] /\ UNCHANGED <<row, jar, signedOut>>
  BY DEF AnswerIsLost
<1>2. tab[t].cookies.refresh # NoToken => tab[t].cookies.refresh.login \in Logins
  BY SessionsTypes, TokenFields
<1>3. /\ lost \subseteq lost' /\ lost' \subseteq Logins
      /\ tab[t].cookies.refresh = NoToken \/ tab[t].cookies.refresh.login \in lost'
  BY <1>2 DEF AnswerIsLost, SessionsInv, SessionsTypeOK
<1> QED
  BY <1>1, <1>3, NoRequestFits, TabMoves

\* The refresh is refused or fails.
LEMMA RefreshGivenUpKeeps ==
  ASSUME SessionsInv, NEW t \in Tabs, RefreshIsRefused(t) \/ RefreshFails(t)
  PROVE  SessionsInv'
<1>1. /\ tab' = [tab EXCEPT ![t] = NoRequest] /\ UNCHANGED <<row, jar, lost, signedOut>>
      /\ tab[t].stage # "answered"
  BY DEF RefreshIsRefused, RefreshFails
<1>2. lost' \subseteq Logins
  BY <1>1 DEF SessionsInv, SessionsTypeOK
<1> QED
  BY <1>1, <1>2, NoRequestFits, TabMoves

\* FOR UPDATE finds the row of the refresh token, and the refresh renews or rotates it.
LEMMA RefreshLocksKeeps ==
  ASSUME SessionsInv, NEW t \in Tabs, NEW s \in Logins, RefreshLocks(t, s)
  PROVE  SessionsInv'
<1> DEFINE stage == IF Rotates(s, tab[t].cookies.refresh) THEN "rotating" ELSE "renewing"
           q == [tab[t] EXCEPT !.stage = stage, !.login = s]
<1>1. tab[t] \in Tab /\ s # "none" /\ row[s].exists \in BOOLEAN
  BY SessionsTypes
<1>2. /\ tab[t].op = "refresh" /\ tab[t].stage = "sent" /\ row[s].exists = TRUE
      /\ UNCHANGED <<row, jar, lost, signedOut>>
      /\ \A u \in Tabs \ {t} : tab[u].login # s
  BY <1>1 DEF RefreshLocks, Refreshable, SessionRowFree
<1>3. tab' = [tab EXCEPT ![t] = q]
  BY DEF RefreshLocks, SessionsInv, SessionsTypeOK
<1>4. q \in Tab
  BY <1>1 DEF Tab
<1>5. q.stage = stage /\ q.login = s /\ q.op = tab[t].op /\ q.cookies = tab[t].cookies
  BY <1>1 DEF Tab
<1>6. stage = "rotating" => IsCurrent(s, tab[t].cookies.refresh)
  BY DEF Rotates
<1>7. stage \in {"rotating", "renewing"}
  OBVIOUS
<1> HIDE DEF q, stage
<1>8. RefreshFits(q)
  BY <1>1, <1>2, <1>5, <1>6, <1>7 DEF RefreshFits
<1>9. lost' \subseteq Logins
  BY <1>2 DEF SessionsInv, SessionsTypeOK
<1> QED
  BY <1>2, <1>3, <1>4, <1>5, <1>7, <1>8, <1>9, TabMoves

\* Time passes for a row or for a cookie.
LEMMA AgeingKeeps ==
  ASSUME SessionsInv, AccessCookieExpires \/ \E s \in Logins : GraceEnds(s) \/ RefreshExpires(s)
  PROVE  SessionsInv'
<1>1. UNCHANGED <<tab, lost, signedOut>> /\ jar'.refresh = jar.refresh /\ SessionsTypeOK'
  <2>1. CASE AccessCookieExpires
    <3>1. jar' \in Cookies /\ jar'.refresh = jar.refresh
      BY <2>1, SessionsTypes DEF AccessCookieExpires, Cookies
    <3> QED
      BY <2>1, <3>1 DEF AccessCookieExpires, SessionsInv, SessionsTypeOK
  <2>2. ASSUME NEW s \in Logins, GraceEnds(s) \/ RefreshExpires(s)
        PROVE  UNCHANGED <<tab, lost, signedOut>> /\ jar'.refresh = jar.refresh /\ SessionsTypeOK'
    <3>1. [row[s] EXCEPT !.grace = FALSE] \in SessionRow /\ [row[s] EXCEPT !.refreshOk = FALSE] \in SessionRow
      BY SessionsTypes DEF SessionRow
    <3> QED
      BY <2>2, <3>1 DEF GraceEnds, RefreshExpires, SessionsInv, SessionsTypeOK
  <2> QED
    BY <2>1, <2>2
<1>2. ASSUME NEW p \in Logins
      PROVE  /\ row'[p].exists = row[p].exists /\ row'[p].refresh = row[p].refresh
             /\ row'[p].previous = row[p].previous
             /\ row'[p].refreshOk = TRUE => row[p].refreshOk = TRUE
  BY SessionsTypes DEF AccessCookieExpires, GraceEnds, RefreshExpires, SessionsInv, SessionsTypeOK, SessionRow
<1>3. \A p \in Logins :
        /\ row'[p].exists = TRUE => /\ row[p].exists = TRUE /\ row'[p].refresh = row[p].refresh
                                    /\ row'[p].previous = row[p].previous
        /\ row'[p].refreshOk = TRUE => row'[p].exists = TRUE
        /\ row[p].refresh <= row'[p].refresh
  <2> SUFFICES ASSUME NEW p \in Logins
               PROVE  /\ row'[p].exists = TRUE => /\ row[p].exists = TRUE /\ row'[p].refresh = row[p].refresh
                                                  /\ row'[p].previous = row[p].previous
                      /\ row'[p].refreshOk = TRUE => row'[p].exists = TRUE
                      /\ row[p].refresh <= row'[p].refresh
    OBVIOUS
  <2>1. row[p].refresh \in Nat
    BY SessionsTypes
  <2>2. row[p].refreshOk = TRUE => row[p].exists = TRUE
    BY DEF SessionsInv, RowsFit
  <2>3. /\ row'[p].exists = row[p].exists /\ row'[p].refresh = row[p].refresh
        /\ row'[p].previous = row[p].previous
        /\ row'[p].refreshOk = TRUE => row[p].refreshOk = TRUE
    BY <1>2
  <2> QED
    BY <2>1, <2>2, <2>3
<1>4. \A u \in Tabs : RefreshFits(tab[u])'
  <2> SUFFICES ASSUME NEW u \in Tabs PROVE RefreshFits(tab[u])'
    OBVIOUS
  <2>1. RefreshFits(tab[u]) /\ tab'[u] = tab[u] /\ tab[u].login \in Logins \cup {"none"}
    BY <1>1, SessionsTypes DEF SessionsInv
  <2> QED
    BY <1>2, <2>1 DEF RefreshFits, IsCurrent
<1>5. RowsAreLockedOnce'
  BY <1>1 DEF SessionsInv, RowsAreLockedOnce
<1> QED
  BY <1>1, <1>3, <1>4, <1>5, SessionsMove

\* The sessions in gone are deleted, which no other request holds, and t goes on.
LEMMA DeleteMoves ==
  ASSUME SessionsInv, NEW t \in Tabs, NEW q \in Tab, NEW gone \in SUBSET Logins,
         tab' = [tab EXCEPT ![t] = q], Delete(gone) \/ row' = row,
         \A s \in gone : SessionRowFree(t, s),
         jar' = jar, lost' = lost, signedOut' \subseteq Token,
         tab[t].stage # "answered", q.login = "none", q.stage \notin {"rotating", "renewing"},
         q.op = "none" => q.stage # "answered",
         q.cookies.refresh \in {tab[t].cookies.refresh, NoToken},
         q.stage = "answered" => q.cookies.refresh = NoToken,
         \A x \in signedOut' \ signedOut :
           Given(x) /\ x # NoToken /\ (row'[x.login].exists = TRUE => row'[x.login].refresh > x.no + 1)
  PROVE  SessionsInv'
<1>1. \A u \in Tabs : tab'[u] = IF u = t THEN q ELSE tab[u]
  BY DEF SessionsInv, SessionsTypeOK
<1>2. Deleted \in SessionRow /\ Deleted.exists = FALSE /\ Deleted.refreshOk = FALSE /\ Deleted.refresh = MaxTokens
  <2>1. /\ NoSession \in SessionRow /\ NoSession.exists = FALSE /\ NoSession.refreshOk = FALSE
        /\ MaxTokens \in 0..MaxTokens
    BY SessionsTypes DEF NoSession, SessionRow
  <2> QED
    BY <2>1 DEF Deleted, SessionRow
<1>3. SessionsTypeOK'
  <2>1. row' \in [Logins -> SessionRow]
    BY <1>2 DEF Delete, SessionsInv, SessionsTypeOK
  <2> QED
    BY <2>1 DEF SessionsInv, SessionsTypeOK
<1>4. \A s \in Logins : row'[s] = row[s] \/ (s \in gone /\ row'[s] = Deleted)
  BY DEF Delete
<1>5. \A s \in Logins :
        /\ row'[s].exists = TRUE => /\ row[s].exists = TRUE /\ row'[s].refresh = row[s].refresh
                                    /\ row'[s].previous = row[s].previous
        /\ row'[s].refreshOk = TRUE => row'[s].exists = TRUE
        /\ row[s].refresh <= row'[s].refresh
  <2> SUFFICES ASSUME NEW s \in Logins
               PROVE  /\ row'[s].exists = TRUE => /\ row[s].exists = TRUE /\ row'[s].refresh = row[s].refresh
                                                  /\ row'[s].previous = row[s].previous
                      /\ row'[s].refreshOk = TRUE => row'[s].exists = TRUE
                      /\ row[s].refresh <= row'[s].refresh
    OBVIOUS
  <2>1. row[s].refresh \in Nat /\ row[s].refresh <= MaxTokens
    BY SessionsTypes
  <2>2. row[s].refreshOk = TRUE => row[s].exists = TRUE
    BY DEF SessionsInv, RowsFit
  <2> QED
    BY <1>2, <1>4, <2>1, <2>2
<1>6. \A u \in Tabs : RefreshFits(tab[u])'
  <2> SUFFICES ASSUME NEW u \in Tabs PROVE RefreshFits(tab[u])'
    OBVIOUS
  <2>1. CASE u = t
    BY <1>1, <2>1 DEF RefreshFits
  <2>2. CASE u # t
    <3>1. tab'[u] = tab[u] /\ RefreshFits(tab[u]) /\ tab[u].login \in Logins \cup {"none"}
      BY <1>1, <2>2, SessionsTypes DEF SessionsInv
    <3>2. tab[u].login # "none" => tab[u].login \notin gone
      BY <2>2 DEF SessionRowFree
    <3>3. tab[u].login # "none" => row'[tab[u].login] = row[tab[u].login]
      BY <1>4, <3>1, <3>2
    <3> QED
      BY <3>1, <3>3 DEF RefreshFits, IsCurrent
  <2> QED
    BY <2>1, <2>2
<1>7. RowsAreLockedOnce'
  BY <1>1 DEF SessionsInv, RowsAreLockedOnce
<1>8. \A u \in Tabs :
        /\ tab'[u].cookies.refresh \in {tab[u].cookies.refresh, jar.refresh, NoToken}
        /\ tab'[u].stage = "answered" => tab'[u].cookies.refresh = NoToken \/ tab'[u] = tab[u]
        /\ tab[u].stage = "answered" /\ tab[u].cookies.refresh # NoToken =>
             tab'[u] = tab[u] \/ tab[u].cookies.refresh.login \in lost'
  BY <1>1
<1> QED
  BY <1>3, <1>5, <1>6, <1>7, <1>8, SessionsMove

\* A sign-out deletes the session of its access cookie.
LEMMA DeleteByAccessKeeps ==
  ASSUME SessionsInv, NEW t \in Tabs, DeleteByAccess(t)
  PROVE  SessionsInv'
<1> DEFINE q == [tab[t] EXCEPT !.stage = "halfway"]
           gone == {s \in Logins : /\ row[s].exists /\ tab[t].cookies.access.login = s
                                   /\ row[s].access = tab[t].cookies.access.no}
<1>1. /\ tab[t].op = "logout" /\ tab[t].stage = "sent" /\ \A s \in gone : SessionRowFree(t, s)
      /\ Delete(gone) \/ row' = row
      /\ UNCHANGED <<jar, lost, signedOut>>
  BY DEF DeleteByAccess
<1>2. tab' = [tab EXCEPT ![t] = q]
  BY DEF DeleteByAccess, SessionsInv, SessionsTypeOK
<1>3. tab[t] \in Tab /\ RefreshFits(tab[t])
  BY SessionsTypes DEF SessionsInv
<1>4. q \in Tab /\ q.stage = "halfway" /\ q.login = tab[t].login /\ q.op = "logout" /\ q.cookies = tab[t].cookies
  BY <1>1, <1>3 DEF Tab
<1>5. tab[t].login = "none"
  BY <1>1, <1>3 DEF RefreshFits
<1>6. gone \in SUBSET Logins /\ signedOut' \subseteq Token
  BY <1>1 DEF SessionsInv, SessionsTypeOK
<1> HIDE DEF q, gone
<1> QED
  BY <1>1, <1>2, <1>4, <1>5, <1>6, DeleteMoves

\* A row the refresh cookie of a sign-out does not end has been refreshed twice since.
LEMMA DeleteByRefreshKeeps ==
  ASSUME SessionsInv, NEW t \in Tabs, DeleteByRefresh(t)
  PROVE  SessionsInv'
<1> DEFINE token == tab[t].cookies.refresh
           q == [tab[t] EXCEPT !.stage = "answered", !.cookies = NoCookies, !.login = "none"]
           gone == {s \in Logins : Ends(s, token)}
<1>1. /\ tab[t].op = "logout" /\ tab[t].stage = "halfway" /\ \A s \in gone : SessionRowFree(t, s)
      /\ \/ Delete(gone) /\ signedOut' = signedOut \cup ({token} \ {NoToken})
         \/ row' = row /\ signedOut' = signedOut
      /\ UNCHANGED <<jar, lost>>
  BY DEF DeleteByRefresh
<1>2. tab' = [tab EXCEPT ![t] = q]
  BY DEF DeleteByRefresh, Answer, SessionsInv, SessionsTypeOK
<1>3. tab[t] \in Tab /\ token \in Token \cup {NoToken} /\ Given(token)
  BY SessionsTypes DEF SessionsInv, TokensWereGiven
<1>4. q \in Tab /\ q.stage = "answered" /\ q.login = "none" /\ q.op = "logout" /\ q.cookies.refresh = NoToken
  BY <1>1, <1>3, NoRequestFits DEF Tab
<1>5. gone \in SUBSET Logins /\ signedOut' \subseteq Token
  BY <1>1, <1>3 DEF SessionsInv, SessionsTypeOK
<1>6. ASSUME NEW x \in signedOut' \ signedOut
      PROVE  Given(x) /\ x # NoToken /\ (row'[x.login].exists = TRUE => row'[x.login].refresh > x.no + 1)
  <2>1. x = token /\ x # NoToken /\ Delete(gone)
    BY <1>1
  <2>2. x.login \in Logins /\ x.no \in Nat /\ x.no <= row[x.login].refresh
    BY <1>3, <2>1, TokenFields DEF Given
  <2> DEFINE s == x.login
  <2>3. Deleted.exists = FALSE
    <3>1. NoSession.exists = FALSE /\ NoSession = [NoSession EXCEPT !.refresh = 0]
      BY DEF NoSession
    <3> QED
      BY <3>1 DEF Deleted
  <2>4. row'[s] = IF s \in gone THEN Deleted ELSE row[s]
    BY <2>1, <2>2 DEF Delete
  <2>5. ASSUME row'[s].exists = TRUE PROVE row'[s].refresh > x.no + 1
    <3>1. s \notin gone /\ row'[s] = row[s] /\ row[s].exists = TRUE
      BY <2>3, <2>4, <2>5
    <3>2. ~Ends(s, x)
      BY <2>1, <2>2, <3>1
    <3>3. row[s].refresh # x.no /\ row[s].previous # x.no
      BY <3>1, <3>2 DEF Ends, IsCurrent, IsPrevious
    <3>4. row[s].refresh = row[s].previous + 1
      BY <2>2, <3>1 DEF SessionsInv, RowsFit
    <3>5. row[s].previous \in Nat
      BY <2>2, SessionsTypes
    <3> QED
      BY <2>2, <3>1, <3>3, <3>4, <3>5
  <2> QED
    BY <1>3, <2>1, <2>5
<1> HIDE DEF q, gone, token
<1>7. Delete(gone) \/ row' = row
  BY <1>1
<1> QED
  BY <1>1, <1>2, <1>4, <1>5, <1>6, <1>7, DeleteMoves

\* A token of the grace time gets new access and no new refresh token.
LEMMA RenewAccessKeeps ==
  ASSUME SessionsInv, NEW t \in Tabs, NEW s \in Logins, RenewAccess(t, s)
  PROVE  SessionsInv'
<1> DEFINE cookies == [access |-> NextToken(s, row[s].access), refresh |-> NoToken]
           q == [tab[t] EXCEPT !.stage = "answered", !.cookies = cookies, !.login = "none"]
<1>1. /\ tab[t] \in Tab /\ RefreshFits(tab[t]) /\ row[s] \in SessionRow /\ s # "none"
      /\ MaxTokens \in Nat /\ row[s].access \in Nat /\ row[s].access < MaxTokens
      /\ tab[t].stage = "renewing" /\ tab[t].login = s /\ UNCHANGED <<jar, lost, signedOut>>
  BY SessionsTypes DEF SessionsInv, RenewAccess
<1>2. cookies \in Cookies /\ cookies.refresh = NoToken
  BY <1>1 DEF NextToken, Cookies, Token
<1>3. tab[t].op = "refresh" /\ row[s].exists = TRUE
  BY <1>1 DEF RefreshFits
<1>4. tab' = [tab EXCEPT ![t] = q]
  BY DEF RenewAccess, Answer, SessionsInv, SessionsTypeOK
<1> HIDE DEF cookies
<1>5. q \in Tab /\ q.stage = "answered" /\ q.login = "none" /\ q.op = "refresh" /\ q.cookies.refresh = NoToken
  BY <1>1, <1>2, <1>3 DEF Tab
<1> HIDE DEF q
<1>6. [row[s] EXCEPT !.access = @ + 1] \in SessionRow
  BY <1>1 DEF SessionRow
<1>7. SessionsTypeOK'
  BY <1>1, <1>4, <1>5, <1>6 DEF RenewAccess, SessionsInv, SessionsTypeOK
<1>8. \A u \in Tabs : tab'[u] = IF u = t THEN q ELSE tab[u]
  BY <1>4 DEF SessionsInv, SessionsTypeOK
<1>9. \A p \in Logins : /\ row'[p].exists = row[p].exists /\ row'[p].refresh = row[p].refresh
                        /\ row'[p].previous = row[p].previous /\ row'[p].refreshOk = row[p].refreshOk
  BY SessionsTypes DEF RenewAccess, SessionsInv, SessionsTypeOK, SessionRow
<1>10. \A p \in Logins :
        /\ row'[p].exists = TRUE => /\ row[p].exists = TRUE /\ row'[p].refresh = row[p].refresh
                                    /\ row'[p].previous = row[p].previous
        /\ row'[p].refreshOk = TRUE => row'[p].exists = TRUE
        /\ row[p].refresh <= row'[p].refresh
  <2> SUFFICES ASSUME NEW p \in Logins
               PROVE  /\ row'[p].exists = TRUE => /\ row[p].exists = TRUE /\ row'[p].refresh = row[p].refresh
                                                  /\ row'[p].previous = row[p].previous
                      /\ row'[p].refreshOk = TRUE => row'[p].exists = TRUE
                      /\ row[p].refresh <= row'[p].refresh
    OBVIOUS
  <2>1. row[p].refresh \in Nat
    BY SessionsTypes
  <2>2. row[p].refreshOk = TRUE => row[p].exists = TRUE
    BY DEF SessionsInv, RowsFit
  <2> QED
    BY <1>9, <2>1, <2>2
<1>11. \A u \in Tabs : RefreshFits(tab[u])'
  <2> SUFFICES ASSUME NEW u \in Tabs PROVE RefreshFits(tab[u])'
    OBVIOUS
  <2>1. RefreshFits(tab[u]) /\ tab[u].login \in Logins \cup {"none"}
    BY SessionsTypes DEF SessionsInv
  <2> QED
    BY <1>5, <1>8, <1>9, <2>1 DEF RefreshFits, IsCurrent
<1>12. RowsAreLockedOnce'
  BY <1>5, <1>8 DEF SessionsInv, RowsAreLockedOnce
<1>13. \A u \in Tabs :
        /\ tab'[u].cookies.refresh \in {tab[u].cookies.refresh, jar.refresh, NoToken}
        /\ tab'[u].stage = "answered" => tab'[u].cookies.refresh = NoToken \/ tab'[u] = tab[u]
        /\ tab[u].stage = "answered" /\ tab[u].cookies.refresh # NoToken =>
             tab'[u] = tab[u] \/ tab[u].cookies.refresh.login \in lost'
  BY <1>1, <1>5, <1>8
<1> QED
  BY <1>1, <1>7, <1>10, <1>11, <1>12, <1>13, SessionsMove

\* Two tokens of one session with one number are one.
LEMMA SameToken ==
  ASSUME NEW x \in Token \cup {NoToken}, NEW y \in Token \cup {NoToken},
         x.login \in Logins, x.login = y.login, x.no = y.no
  PROVE  x = y
<1>1. x \in Token /\ y \in Token
  BY TokenFields
<1> QED
  BY <1>1 DEF Token

\* Session s, which t made now or holds with the token it has, gives t its next refresh token.
LEMMA TokenIsGiven ==
  ASSUME SessionsInv, NEW t \in Tabs, NEW s \in Logins, NEW w \in SessionRow, NEW q \in Tab,
         row' = [row EXCEPT ![s] = w], tab' = [tab EXCEPT ![t] = q], UNCHANGED <<jar, lost, signedOut>>,
         w.exists = TRUE, w.refresh = row[s].refresh + 1, w.previous = row[s].refresh,
         q.stage = "answered", q.login = "none", q.op # "none",
         q.cookies.refresh = NextToken(s, row[s].refresh),
         \/ row[s] = NoSession /\ tab[t].stage = "sent"
         \/ /\ tab[t].stage = "rotating" /\ tab[t].login = s /\ row[s].exists = TRUE
            /\ IsCurrent(s, tab[t].cookies.refresh)
  PROVE  SessionsInv'
<1> DEFINE n == row[s].refresh
           x == NextToken(s, n)
<1>1. n \in Nat /\ s \in Logins /\ s # "none" /\ NoSession.refresh = 0 /\ NoSession.exists = FALSE
  BY SessionsTypes DEF NoSession
<1>2. x \in Token \cup {NoToken} /\ x # NoToken /\ x.login = s /\ x.no = n + 1
  <2>1. x = q.cookies.refresh /\ q.cookies.refresh \in Token \cup {NoToken}
    BY DEF Tab, Cookies
  <2>2. x.login = s /\ x.no = n + 1
    BY DEF NextToken
  <2> QED
    BY <2>1, <2>2, <1>1, TokenFields
<1> HIDE DEF x, n
<1>3. \A u \in Tabs : tab'[u] = IF u = t THEN q ELSE tab[u]
  BY DEF SessionsInv, SessionsTypeOK
<1>4. \A p \in Logins : row'[p] = IF p = s THEN w ELSE row[p]
  BY DEF SessionsInv, SessionsTypeOK
<1>5. q.cookies.refresh = x /\ w.refresh = n + 1 /\ w.previous = n
  BY DEF x, n
\* Whatever has a token of s is older than x.
<1>6. \A y \in Token \cup {NoToken} : Given(y) /\ y.login = s => y # NoToken /\ y.no <= n /\ y.no > 0 /\ y.no \in Nat
  BY <1>1, TokenFields DEF Given, n
<1>7. \A y \in Token \cup {NoToken} : Given(y) => y # x
  BY <1>1, <1>2, <1>6
<1>8. \A y \in Token \cup {NoToken} : Given(y) => Given(y)'
  <2> SUFFICES ASSUME NEW y \in Token \cup {NoToken}, Given(y), y # NoToken
               PROVE  y.login \in Logins /\ y.no <= row'[y.login].refresh
    BY DEF Given
  <2>1. y.login \in Logins /\ y.no \in Nat /\ y.no <= row[y.login].refresh
    BY TokenFields DEF Given
  <2>2. CASE y.login = s
    <3>1. y.no <= n /\ row'[y.login].refresh = n + 1
      BY <1>4, <1>5, <1>6, <2>1, <2>2
    <3> QED
      BY <1>1, <2>1, <3>1
  <2>3. CASE y.login # s
    BY <1>4, <2>1, <2>3
  <2> QED
    BY <2>2, <2>3
<1>9. SessionsTypeOK'
  BY DEF SessionsInv, SessionsTypeOK
<1>10. /\ jar.refresh \in Token \cup {NoToken} /\ Given(jar.refresh)
       /\ \A u \in Tabs : tab[u].cookies.refresh \in Token \cup {NoToken} /\ Given(tab[u].cookies.refresh)
       /\ \A y \in signedOut : y \in Token \cup {NoToken} /\ Given(y) /\ y # NoToken
  BY SessionsTypes DEF SessionsInv, TokensWereGiven, SessionsTypeOK
<1>11. TokensWereGiven'
  <2>1. x.login \in Logins /\ x.no <= row'[x.login].refresh
    BY <1>1, <1>2, <1>4, <1>5
  <2>2. ASSUME NEW u \in Tabs
        PROVE  Given(tab[u].cookies.refresh)'
    <3>1. CASE u = t
      <4>1. tab'[u].cookies.refresh = x
        BY <1>3, <1>5, <3>1
      <4> QED
        BY <2>1, <4>1 DEF Given
    <3>2. CASE u # t
      BY <1>3, <1>8, <1>10, <3>2
    <3> QED
      BY <3>1, <3>2
  <2>3. Given(jar.refresh)' /\ \A y \in signedOut' : y # NoToken /\ Given(y)'
    BY <1>8, <1>10
  <2> QED
    BY <2>2, <2>3 DEF TokensWereGiven
<1>12. RowsFit'
  BY <1>4, <1>5 DEF SessionsInv, RowsFit
<1>13. \A u \in Tabs \ {t} : tab[u].login # s
  <2> SUFFICES ASSUME NEW u \in Tabs \ {t}, tab[u].login = s PROVE FALSE
    OBVIOUS
  <2>1. row[s].exists = TRUE
    BY <1>1 DEF SessionsInv, RefreshFits
  <2> QED
    BY <1>1, <2>1 DEF SessionsInv, RowsAreLockedOnce
<1>14. \A u \in Tabs : RefreshFits(tab[u])'
  <2> SUFFICES ASSUME NEW u \in Tabs PROVE RefreshFits(tab[u])'
    OBVIOUS
  <2>1. CASE u = t
    BY <1>3, <2>1 DEF RefreshFits
  <2>2. CASE u # t
    <3>1. tab'[u] = tab[u] /\ RefreshFits(tab[u]) /\ tab[u].login \in Logins \cup {"none"} /\ tab[u].login # s
      BY <1>3, <1>13, <2>2, SessionsTypes DEF SessionsInv
    <3> QED
      BY <1>4, <3>1 DEF RefreshFits, IsCurrent
  <2> QED
    BY <2>1, <2>2
<1>15. RowsAreLockedOnce'
  BY <1>3, <1>13 DEF SessionsInv, RowsAreLockedOnce
\* No answer with a token of s is on its way.
<1>16. ASSUME NEW u \in Tabs, tab[u].stage = "answered", tab[u].cookies.refresh # NoToken
       PROVE  tab[u].cookies.refresh.login # s
  <2> SUFFICES ASSUME tab[u].cookies.refresh.login = s PROVE FALSE
    OBVIOUS
  <2> DEFINE y == tab[u].cookies.refresh
  <2>1. y \in Token \cup {NoToken} /\ y.no <= n /\ y.no > 0 /\ y.no \in Nat
    BY <1>6, <1>10
  <2>2. row[s].exists = TRUE /\ tab[t].stage = "rotating" /\ IsCurrent(s, tab[t].cookies.refresh)
    BY <1>1, <2>1 DEF n
  <2>3. y.no = row[s].refresh /\ \A v \in Tabs \ {u} : tab[v].cookies.refresh # y
    BY <1>16, <2>2 DEF SessionsInv, AnswersFit
  <2>4. tab[t].cookies.refresh # y
    BY <1>16, <2>2, <2>3
  <2>5. tab[t].cookies.refresh.login = s /\ tab[t].cookies.refresh.no = y.no
    BY <2>2, <2>3 DEF IsCurrent
  <2> HIDE DEF y
  <2>6. tab[t].cookies.refresh = y
    BY <1>10, <2>1, <2>5, SameToken DEF y
  <2> QED
    BY <2>4, <2>6
<1>17. AnswersFit'
  <2> SUFFICES ASSUME NEW u \in Tabs, tab'[u].stage = "answered", tab'[u].cookies.refresh # NoToken,
                      row'[tab'[u].cookies.refresh.login].exists = TRUE
               PROVE  /\ tab'[u].cookies.refresh.no = row'[tab'[u].cookies.refresh.login].refresh
                      /\ jar'.refresh # tab'[u].cookies.refresh
                      /\ \A v \in Tabs \ {u} : tab'[v].cookies.refresh # tab'[u].cookies.refresh
    BY DEF AnswersFit
  <2>1. CASE u = t
    <3>1. tab'[u].cookies.refresh = x
      BY <1>3, <1>5, <2>1
    <3>2. x.no = row'[x.login].refresh
      BY <1>2, <1>4, <1>5
    <3>3. jar'.refresh # x /\ \A v \in Tabs \ {u} : tab'[v].cookies.refresh # x
      BY <1>3, <1>7, <1>10, <2>1
    <3> QED
      BY <3>1, <3>2, <3>3
  <2>2. CASE u # t
    <3> DEFINE y == tab[u].cookies.refresh
    <3>1. tab'[u] = tab[u] /\ tab[u].stage = "answered" /\ y # NoToken /\ y \in Token \cup {NoToken}
      BY <1>3, <1>10, <2>2
    <3>2. y.login # s /\ y.login \in Logins
      BY <1>16, <3>1, TokenFields
    <3>3. row'[y.login] = row[y.login] /\ row[y.login].exists = TRUE
      BY <1>4, <3>1, <3>2
    <3>4. y.no = row[y.login].refresh /\ jar.refresh # y /\ \A v \in Tabs \ {u} : tab[v].cookies.refresh # y
      BY <3>1, <3>3 DEF SessionsInv, AnswersFit
    <3>5. x # y
      BY <1>2, <3>2
    <3>6. \A v \in Tabs \ {u} : tab'[v].cookies.refresh # y
      BY <1>3, <1>5, <3>4, <3>5
    <3> QED
      BY <3>1, <3>3, <3>4, <3>6
  <2> QED
    BY <2>1, <2>2
<1>18. JarFits'
  <2> DEFINE y == jar.refresh
  <2> SUFFICES ASSUME y # NoToken, row'[y.login].exists = TRUE, y.login \notin lost,
                      ~(y.no = row'[y.login].refresh)
               PROVE  /\ y.no + 1 = row'[y.login].refresh
                      /\ \E u \in Tabs : tab'[u].stage = "answered" /\ IsCurrent(y.login, tab[u].cookies.refresh)'
    BY DEF JarFits
  <2>1. y.login \in Logins
    BY <1>10, TokenFields
  <2>2. CASE y.login = s
    <3>1. y.no <= n /\ y.no > 0 /\ y.no \in Nat
      BY <1>6, <1>10, <2>2
    <3>2. row[s].exists = TRUE
      BY <1>1, <3>1 DEF n
    <3>3. y.no = n
      <4> SUFFICES ASSUME y.no # n PROVE FALSE
        OBVIOUS
      <4>1. PICK u \in Tabs : tab[u].stage = "answered" /\ IsCurrent(s, tab[u].cookies.refresh)
        BY <2>2, <3>2 DEF SessionsInv, JarFits, n
      <4>2. tab[u].cookies.refresh.login = s
        BY <4>1 DEF IsCurrent
      <4>3. tab[u].cookies.refresh # NoToken
        BY <1>10, <4>2, TokenFields
      <4> QED
        BY <1>16, <4>1, <4>2, <4>3
    <3>4. tab'[t].stage = "answered" /\ IsCurrent(s, tab[t].cookies.refresh)'
      BY <1>2, <1>3, <1>4, <1>5 DEF IsCurrent
    <3> QED
      BY <1>4, <1>5, <2>2, <3>3, <3>4
  <2>3. CASE y.login # s
    <3>1. row'[y.login] = row[y.login]
      BY <1>4, <2>1, <2>3
    <3>2. /\ y.no + 1 = row[y.login].refresh
          /\ \E u \in Tabs : tab[u].stage = "answered" /\ IsCurrent(y.login, tab[u].cookies.refresh)
      BY <3>1 DEF SessionsInv, JarFits
    <3>3. PICK u \in Tabs : tab[u].stage = "answered" /\ IsCurrent(y.login, tab[u].cookies.refresh)
      BY <3>2
    <3>4. tab'[u] = tab[u]
      BY <1>3, <3>3
    <3> QED
      BY <3>1, <3>2, <3>3, <3>4 DEF IsCurrent
  <2> QED
    BY <2>2, <2>3
<1>19. SignOutEndsTheSession'
  <2> SUFFICES ASSUME NEW y \in signedOut, row'[y.login].exists
               PROVE  row'[y.login].refresh > y.no + 1
    BY DEF SignOutEndsTheSession
  <2>1. y.login \in Logins
    BY <1>10, TokenFields
  <2>2. CASE y.login = s
    <3>1. y.no <= n /\ y.no > 0 /\ y.no \in Nat
      BY <1>6, <1>10, <2>2
    <3>2. row[s].exists = TRUE
      BY <1>1, <3>1 DEF n
    <3>3. n > y.no + 1
      BY <2>2, <3>2 DEF SessionsInv, SignOutEndsTheSession, n
    <3>4. row'[y.login].refresh = n + 1
      BY <1>4, <1>5, <2>1, <2>2
    <3> QED
      BY <1>1, <3>1, <3>3, <3>4
  <2>3. CASE y.login # s
    BY <1>4, <2>1, <2>3 DEF SessionsInv, SignOutEndsTheSession
  <2> QED
    BY <2>2, <2>3
<1> QED
  BY <1>9, <1>11, <1>12, <1>14, <1>15, <1>17, <1>18, <1>19 DEF SessionsInv

\* A sign-in makes a session and takes its first tokens.
LEMMA CreateSessionKeeps ==
  ASSUME SessionsInv, NEW t \in Tabs, NEW s \in Logins, CreateSession(t, s)
  PROVE  SessionsInv'
<1> DEFINE w == [NoSession EXCEPT !.exists = TRUE, !.access = 1, !.refresh = 1, !.refreshOk = TRUE]
           cookies == [access |-> NextToken(s, 0), refresh |-> NextToken(s, 0)]
           q == [tab[t] EXCEPT !.stage = "answered", !.cookies = cookies, !.login = "none"]
<1>1. /\ tab[t] \in Tab /\ MaxTokens \in Nat /\ MaxTokens > 0 /\ s # "none"
      /\ tab[t].op = "login" /\ tab[t].stage = "sent" /\ row[s] = NoSession
      /\ UNCHANGED <<jar, lost, signedOut>>
  BY SessionsTypes DEF CreateSession
<1>2. /\ NoSession \in SessionRow /\ NoSession.refresh = 0 /\ NoSession.previous = 0 /\ 1 \in 0..MaxTokens
      /\ 1 \in 1..MaxTokens
  BY <1>1 DEF NoSession, SessionRow
<1>3. w \in SessionRow /\ w.exists = TRUE /\ w.refresh = 1 /\ w.previous = 0
  BY <1>2 DEF SessionRow
<1>4. cookies \in Cookies /\ cookies.refresh = NextToken(s, row[s].refresh)
  BY <1>1, <1>2 DEF NextToken, Cookies, Token
<1>5. row' = [row EXCEPT ![s] = w] /\ tab' = [tab EXCEPT ![t] = q]
  BY DEF CreateSession, Answer, SessionsInv, SessionsTypeOK
<1> HIDE DEF cookies, w
<1>6. q \in Tab /\ q.stage = "answered" /\ q.login = "none" /\ q.op = "login" /\ q.cookies = cookies
  BY <1>1, <1>4 DEF Tab
<1> HIDE DEF q
<1>7. w.refresh = row[s].refresh + 1 /\ w.previous = row[s].refresh
  BY <1>1, <1>2, <1>3
<1>8. q.cookies.refresh = NextToken(s, row[s].refresh) /\ q.op # "none"
  BY <1>4, <1>6
<1> QED
  BY <1>1, <1>3, <1>5, <1>6, <1>7, <1>8, TokenIsGiven

\* A refresh takes the next token of the session it holds.
LEMMA RotateSessionKeeps ==
  ASSUME SessionsInv, NEW t \in Tabs, NEW s \in Logins, RotateSession(t, s)
  PROVE  SessionsInv'
<1> DEFINE w == [exists |-> TRUE, access |-> row[s].access + 1, refresh |-> row[s].refresh + 1,
                 refreshOk |-> TRUE, previous |-> row[s].refresh, grace |-> TRUE]
           cookies == [access |-> NextToken(s, row[s].access), refresh |-> NextToken(s, row[s].refresh)]
           q == [tab[t] EXCEPT !.stage = "answered", !.cookies = cookies, !.login = "none"]
<1>1. /\ tab[t] \in Tab /\ RefreshFits(tab[t]) /\ s # "none" /\ MaxTokens \in Nat
      /\ row[s].access \in Nat /\ row[s].access < MaxTokens
      /\ row[s].refresh \in Nat /\ row[s].refresh < MaxTokens
      /\ tab[t].stage = "rotating" /\ tab[t].login = s
      /\ UNCHANGED <<jar, lost, signedOut>>
  BY SessionsTypes DEF RotateSession, SessionsInv
<1>2. row[s].exists = TRUE /\ tab[t].op = "refresh" /\ IsCurrent(s, tab[t].cookies.refresh)
  BY <1>1 DEF RefreshFits
<1>3. w \in SessionRow /\ w.exists = TRUE /\ w.refresh = row[s].refresh + 1 /\ w.previous = row[s].refresh
  BY <1>1 DEF SessionRow
<1>4. cookies \in Cookies /\ cookies.refresh = NextToken(s, row[s].refresh)
  BY <1>1 DEF NextToken, Cookies, Token
<1>5. row' = [row EXCEPT ![s] = w] /\ tab' = [tab EXCEPT ![t] = q]
  BY DEF RotateSession, Answer, SessionsInv, SessionsTypeOK
<1> HIDE DEF cookies, w
<1>6. q \in Tab /\ q.stage = "answered" /\ q.login = "none" /\ q.op = "refresh" /\ q.cookies = cookies
  BY <1>1, <1>2, <1>4 DEF Tab
<1> HIDE DEF q
<1>7. q.cookies.refresh = NextToken(s, row[s].refresh) /\ q.op # "none"
  BY <1>4, <1>6
<1> QED
  BY <1>1, <1>2, <1>3, <1>5, <1>6, <1>7, TokenIsGiven

\* The jar takes the token its session has now, or keeps the one it had, or is emptied.
LEMMA ArriveKeeps ==
  ASSUME SessionsInv, NEW t \in Tabs, Arrive(t)
  PROVE  SessionsInv'
<1> DEFINE new == tab[t].cookies.refresh
<1>1. /\ tab[t].stage = "answered" /\ tab' = [tab EXCEPT ![t] = NoRequest] /\ UNCHANGED <<row, lost, signedOut>>
      /\ jar' = JarAfter(t)
  BY DEF Arrive
<1>2. \A u \in Tabs : tab'[u] = IF u = t THEN NoRequest ELSE tab[u]
  BY <1>1 DEF SessionsInv, SessionsTypeOK
<1>3. /\ \A u \in Tabs : tab[u].cookies.refresh \in Token \cup {NoToken} /\ Given(tab[u].cookies.refresh)
      /\ jar.refresh \in Token \cup {NoToken} /\ Given(jar.refresh)
      /\ tab[t].cookies \in Cookies
  BY SessionsTypes DEF SessionsInv, TokensWereGiven
<1>4. jar' \in Cookies /\ (jar'.refresh = new \/ (new = NoToken /\ jar'.refresh = jar.refresh))
  BY <1>1, <1>3 DEF JarAfter, Cookies
<1> HIDE DEF new
<1>5. SessionsTypeOK'
  BY <1>1, <1>4, NoRequestFits DEF SessionsInv, SessionsTypeOK
<1>6. TokensWereGiven'
  <2>1. \A y : Given(y) => Given(y)'
    BY <1>1 DEF Given
  <2>2. Given(jar'.refresh) /\ Given(NoToken)
    BY <1>3, <1>4 DEF new, Given
  <2>3. Given(jar.refresh)'
    BY <1>1, <2>2 DEF Given
  <2>4. \A u \in Tabs : Given(tab[u].cookies.refresh)'
    BY <1>2, <1>3, <2>1, <2>2, NoRequestFits
  <2>5. \A y \in signedOut' : y # NoToken /\ Given(y)'
    BY <1>1, <2>1 DEF SessionsInv, TokensWereGiven
  <2> QED
    BY <2>3, <2>4, <2>5 DEF TokensWereGiven
<1>7. RowsFit' /\ SignOutEndsTheSession'
  BY <1>1 DEF SessionsInv, RowsFit, SignOutEndsTheSession
<1>8. \A u \in Tabs : RefreshFits(tab[u])'
  BY <1>1, <1>2, NoRequestFits DEF SessionsInv, RefreshFits, IsCurrent
<1>9. RowsAreLockedOnce'
  BY <1>2, NoRequestFits DEF SessionsInv, RowsAreLockedOnce
<1>10. AnswersFit'
  <2> SUFFICES ASSUME NEW u \in Tabs, tab'[u].stage = "answered", tab'[u].cookies.refresh # NoToken,
                      row[tab'[u].cookies.refresh.login].exists = TRUE
               PROVE  /\ tab'[u].cookies.refresh.no = row[tab'[u].cookies.refresh.login].refresh
                      /\ jar'.refresh # tab'[u].cookies.refresh
                      /\ \A v \in Tabs \ {u} : tab'[v].cookies.refresh # tab'[u].cookies.refresh
    BY <1>1 DEF AnswersFit
  <2>1. u # t /\ tab'[u] = tab[u]
    BY <1>2, NoRequestFits
  <2> DEFINE y == tab[u].cookies.refresh
  <2>2. y.no = row[y.login].refresh /\ jar.refresh # y /\ \A v \in Tabs \ {u} : tab[v].cookies.refresh # y
    BY <2>1 DEF SessionsInv, AnswersFit
  <2>3. y # NoToken /\ new # y
    BY <2>1, <2>2 DEF new
  <2>4. \A v \in Tabs \ {u} : tab'[v].cookies.refresh # y
    BY <1>2, <2>2, <2>3, NoRequestFits
  <2>5. jar'.refresh # y
    BY <1>4, <2>2, <2>3
  <2> QED
    BY <2>1, <2>2, <2>4, <2>5
<1>11. JarFits'
  <2> DEFINE y == jar'.refresh
  <2> SUFFICES ASSUME y # NoToken, row[y.login].exists = TRUE, y.login \notin lost, ~(y.no = row[y.login].refresh)
               PROVE  /\ y.no + 1 = row[y.login].refresh
                      /\ \E u \in Tabs :
                           tab'[u].stage = "answered" /\ IsCurrent(y.login, tab'[u].cookies.refresh)
    BY <1>1 DEF JarFits, IsCurrent
  <2>1. y # new
    BY <1>1 DEF SessionsInv, AnswersFit, new
  <2>2. new = NoToken /\ y = jar.refresh
    BY <1>4, <2>1
  <2>3. /\ y.no + 1 = row[y.login].refresh
        /\ \E u \in Tabs : tab[u].stage = "answered" /\ IsCurrent(y.login, tab[u].cookies.refresh)
    BY <2>2 DEF SessionsInv, JarFits
  <2>4. PICK u \in Tabs : tab[u].stage = "answered" /\ IsCurrent(y.login, tab[u].cookies.refresh)
    BY <2>3
  <2>5. y.login \in Logins
    BY <1>3, <2>2, TokenFields
  <2>6. u # t
    <3> SUFFICES ASSUME u = t PROVE FALSE
      OBVIOUS
    <3>1. new.login = y.login
      BY <2>4 DEF IsCurrent, new
    <3> QED
      BY <1>3, <2>2, <2>5, <3>1, TokenFields DEF new
  <2>7. tab'[u] = tab[u]
    BY <1>2, <2>6
  <2>8. tab'[u].stage = "answered" /\ IsCurrent(y.login, tab'[u].cookies.refresh)
    BY <2>4, <2>7
  <2> QED
    BY <2>3, <2>8
<1> QED
  BY <1>5, <1>6, <1>7, <1>8, <1>9, <1>10, <1>11 DEF SessionsInv

\* Every step keeps SessionsInv.
LEMMA SessionsNextInv == SessionsInv /\ [SessionsNext]_sessionsVars => SessionsInv'
<1> SUFFICES ASSUME SessionsInv, [SessionsNext]_sessionsVars PROVE SessionsInv'
  OBVIOUS
<1>1. ASSUME NEW t \in Tabs, NEW op \in {"login", "refresh", "logout"}, Send(t, op)
      PROVE  SessionsInv'
  BY <1>1, SendKeeps
<1>2. ASSUME NEW t \in Tabs, Arrive(t) \/ AnswerIsLost(t)
      PROVE  SessionsInv'
  BY <1>2, ArriveKeeps, AnswerIsLostKeeps
<1>3. ASSUME AccessCookieExpires \/ \E s \in Logins : GraceEnds(s) \/ RefreshExpires(s)
      PROVE  SessionsInv'
  BY <1>3, AgeingKeeps
<1>4. ASSUME NEW t \in Tabs, NEW s \in Logins,
             CreateSession(t, s) \/ RefreshLocks(t, s) \/ RotateSession(t, s) \/ RenewAccess(t, s)
      PROVE  SessionsInv'
  BY <1>4, CreateSessionKeeps, RefreshLocksKeeps, RotateSessionKeeps, RenewAccessKeeps
<1>5. ASSUME NEW t \in Tabs,
             RefreshIsRefused(t) \/ RefreshFails(t) \/ DeleteByAccess(t) \/ DeleteByRefresh(t)
      PROVE  SessionsInv'
  BY <1>5, RefreshGivenUpKeeps, DeleteByAccessKeeps, DeleteByRefreshKeeps
<1>6. CASE UNCHANGED sessionsVars
  BY <1>6 DEF sessionsVars, SessionsInv, SessionsTypeOK, TokensWereGiven, Given, RowsFit, RefreshFits,
              IsCurrent, RowsAreLockedOnce, AnswersFit, JarFits, SignOutEndsTheSession
<1> QED
  BY <1>1, <1>2, <1>3, <1>4, <1>5, <1>6 DEF SessionsNext

\* Sessions, for any sessions, tabs and token numbers: the tokens that are about were given by their
\* sessions, a row is locked by one refresh, and the jar follows its session (sessions.rs).
THEOREM SessionsInvariant == SessionsSpec => []SessionsInv
<1>1. SessionsInit => SessionsInv
  BY SessionsInitInv
<1>2. SessionsInv /\ [SessionsNext]_sessionsVars => SessionsInv'
  BY SessionsNextInv
<1> QED
  BY <1>1, <1>2, PTL DEF SessionsSpec

\* Whose answers all arrived can go on: the refresh cookie of the jar is the token its session has, or
\* the one before within its grace time, and none of these is refused (sessions.rs).
THEOREM PeopleCanGoOn == SessionsSpec => []PersonCanGoOn
<1>1. SessionsInv => PersonCanGoOn
  <2> SUFFICES ASSUME SessionsInv, NEW s \in Logins, row[s].refreshOk, jar.refresh.login = s, s \notin lost
               PROVE  \/ Refreshable(s, jar.refresh)
                      \/ /\ IsPrevious(s, jar.refresh) /\ ~row[s].grace
                         /\ \E t \in Tabs : tab[t].stage = "answered" /\ IsCurrent(s, tab[t].cookies.refresh)
    BY DEF PersonCanGoOn
  <2>1. row[s].refreshOk = TRUE /\ row[s].grace \in BOOLEAN
    BY SessionsTypes
  <2>2. row[s].exists = TRUE /\ row[s].refresh = row[s].previous + 1
    BY <2>1 DEF SessionsInv, RowsFit
  <2>3. jar.refresh # NoToken /\ jar.refresh.no \in Nat /\ row[s].previous \in Nat
    BY SessionsTypes, TokenFields
  <2>4. CASE jar.refresh.no = row[s].refresh
    BY <2>1, <2>2, <2>4 DEF Refreshable, IsCurrent
  <2>5. CASE jar.refresh.no # row[s].refresh
    <3>1. /\ jar.refresh.no + 1 = row[s].refresh
          /\ \E t \in Tabs : tab[t].stage = "answered" /\ IsCurrent(s, tab[t].cookies.refresh)
      BY <2>2, <2>3, <2>5 DEF SessionsInv, JarFits
    <3>2. IsPrevious(s, jar.refresh)
      BY <2>2, <2>3, <3>1 DEF IsPrevious
    <3> QED
      BY <2>1, <2>2, <3>1, <3>2 DEF Refreshable
  <2> QED
    BY <2>4, <2>5
<1> QED
  BY <1>1, SessionsInvariant, PTL

\* After a sign-out with a refresh cookie its session is gone, or has been refreshed beyond that cookie.
THEOREM SignOutsEndSessions == SessionsSpec => []SignOutEndsTheSession
<1>1. SessionsInv => SignOutEndsTheSession
  BY DEF SessionsInv
<1> QED
  BY <1>1, SessionsInvariant, PTL

(***************************************************************************)
(* Staff: owners who demote or remove each other, for any number of people *)
(* and handlers.  Rows are locked by one handler at a time, so the other   *)
(* owner a handler has found stays one until that handler is through.      *)
(* That is what the lock gives, and all of it: a handler that found nobody *)
(* demotes whom it was asked to.                                           *)
(***************************************************************************)
\* What a handler under way has been asked.
TasksAreSound ==
  \A d \in Desks :
    /\ desk[d].op # "none" => desk[d].target \in People
    /\ desk[d].op \in {"add", "change"} => desk[d].role # "none"
    /\ desk[d].stage # "authorized" => desk[d].op # "none"
    /\ desk[d].stage = "authorized" => desk[d].saw = {}

\* A row is locked by one handler.
LocksAreExclusive ==
  \A d, e \in Desks : d # e => Held(d) \cap Held(e) = {}

\* A handler that holds its target, an owner, holds another one with it.
AnotherOwnerIsHeld ==
  \A d \in Desks :
    /\ desk[d].stage \in {"locked", "written"}
    /\ desk[d].target \in desk[d].saw \cap ActiveOwners
    => \E p \in desk[d].saw : p # desk[d].target /\ p \in ActiveOwners

\* What a snapshot has, and what a handler has written to, is a row that is there.
RowsAreThere ==
  \A d \in Desks :
    /\ \A p \in desk[d].saw : staff[p] # "none"
    /\ desk[d].stage = "written" => staff[desk[d].target] # "none"

StaffInv == StaffTypeOK /\ TasksAreSound /\ LocksAreExclusive /\ AnotherOwnerIsHeld /\ RowsAreThere

-----------------------------------------------------------------------------
LEMMA StaffInitInv == StaffInit => StaffInv
<1> SUFFICES ASSUME StaffInit PROVE StaffInv
  OBVIOUS
<1> USE DEF StaffInit, IdleDesk
<1>1. StaffTypeOK
  BY StaffAssumption DEF StaffTypeOK, Desk, StaffRoles
<1>2. TasksAreSound
  BY DEF TasksAreSound
<1>3. LocksAreExclusive
  BY DEF LocksAreExclusive, Held
<1>4. AnotherOwnerIsHeld
  BY DEF AnotherOwnerIsHeld
<1>5. RowsAreThere
  BY DEF RowsAreThere
<1> QED
  BY <1>1, <1>2, <1>3, <1>4, <1>5 DEF StaffInv

\* A step that changes no row, and lets one handler move without taking a lock, keeps the invariant
\* if it keeps what is said of that handler.
LEMMA StaffQuietStep ==
  ASSUME StaffInv, NEW d \in Desks, NEW t \in Desk,
         desk' = [desk EXCEPT ![d] = t], UNCHANGED <<staff, active>>,
         t.stage \in {"authorized", "locking"},
         t.op # "none" => t.target \in People,
         t.op \in {"add", "change"} => t.role # "none",
         t.stage # "authorized" => t.op # "none",
         t.stage = "authorized" => t.saw = {},
         \A p \in t.saw : staff[p] # "none"
  PROVE  StaffInv'
<1> USE DEF StaffInv
<1>1. /\ desk'[d] = t
      /\ \A e \in Desks : e # d => desk'[e] = desk[e]
  BY DEF StaffTypeOK
<1>2. StaffTypeOK'
  BY DEF StaffTypeOK
<1>3. TasksAreSound'
  BY <1>1 DEF TasksAreSound
<1>4. /\ Held(d)' = {}
      /\ \A e \in Desks : e # d => Held(e)' = Held(e)
  BY <1>1 DEF Held
<1>5. LocksAreExclusive'
  BY <1>4 DEF LocksAreExclusive
<1>6. ActiveOwners' = ActiveOwners
  BY DEF ActiveOwners
<1>7. AnotherOwnerIsHeld'
  BY <1>1, <1>6 DEF AnotherOwnerIsHeld
<1>8. RowsAreThere'
  BY <1>1 DEF RowsAreThere
<1> QED
  BY <1>2, <1>3, <1>5, <1>7, <1>8

LEMMA ForgetsOne ==
  ASSUME NEW q \in Desk, NEW p
  PROVE  /\ Forgets(q, p).op = q.op /\ Forgets(q, p).target = q.target /\ Forgets(q, p).role = q.role
         /\ Forgets(q, p).stage = q.stage /\ Forgets(q, p).saw = q.saw \ {p}
         /\ Forgets(q, p) \in Desk
  BY DEF Forgets, Desk

\* A handler that ends, having changed at most a row nobody else holds, keeps the invariant.
LEMMA StaffLastStep ==
  ASSUME StaffInv, NEW d \in Desks, NEW p \in People,
         desk'[d] = IdleDesk,
         \A e \in Desks \ {d} : desk'[e] = desk[e] \/ desk'[e] = Forgets(desk[e], p),
         staff'[p] # "none" \/ \A e \in Desks \ {d} : desk'[e] = Forgets(desk[e], p),
         \A e \in Desks \ {d} : p \notin Held(e),
         \A q \in People \ {p} : staff'[q] = staff[q] /\ (q \in active' <=> q \in active),
         StaffTypeOK'
  PROVE  StaffInv'
<1> USE DEF StaffInv
<1>1. \A e \in Desks \ {d} :
        /\ desk[e] \in Desk
        /\ desk'[e].op = desk[e].op /\ desk'[e].target = desk[e].target
        /\ desk'[e].role = desk[e].role /\ desk'[e].stage = desk[e].stage
        /\ desk'[e].saw = desk[e].saw \/ desk'[e].saw = desk[e].saw \ {p}
        /\ staff'[p] # "none" \/ p \notin desk'[e].saw
  BY ForgetsOne DEF StaffTypeOK
<1>2. \A e \in Desks \ {d} : desk'[e].stage \in {"locked", "written"} =>
        /\ desk'[e].saw = desk[e].saw /\ p \notin desk[e].saw
        /\ desk[e].stage = "written" => desk[e].target # p
  <2> SUFFICES ASSUME NEW e \in Desks \ {d}, desk'[e].stage \in {"locked", "written"}
               PROVE  /\ desk'[e].saw = desk[e].saw /\ p \notin desk[e].saw
                      /\ desk[e].stage = "written" => desk[e].target # p
    OBVIOUS
  <2>1. desk[e].stage \in {"locked", "written"} /\ p \notin Held(e)
    BY <1>1
  <2>2. p \notin desk[e].saw /\ (desk[e].stage = "written" => desk[e].target # p)
    BY <2>1 DEF Held
  <2>3. desk[e].saw \ {p} = desk[e].saw
    BY <2>2
  <2> QED
    BY <1>1, <2>2, <2>3
<1>3. desk'[d].op = "none" /\ desk'[d].stage = "authorized" /\ desk'[d].saw = {}
  BY DEF IdleDesk
<1>4. TasksAreSound'
  <2> SUFFICES ASSUME NEW e \in Desks
               PROVE  /\ desk'[e].op # "none" => desk'[e].target \in People
                      /\ desk'[e].op \in {"add", "change"} => desk'[e].role # "none"
                      /\ desk'[e].stage # "authorized" => desk'[e].op # "none"
                      /\ desk'[e].stage = "authorized" => desk'[e].saw = {}
    BY DEF TasksAreSound
  <2>1. CASE e = d
    BY <1>3, <2>1
  <2>2. CASE e # d
    BY <1>1, <2>2 DEF TasksAreSound
  <2> QED
    BY <2>1, <2>2
<1>5. /\ Held(d)' = {}
      /\ \A e \in Desks : e # d => Held(e)' = Held(e)
  BY <1>1, <1>2, <1>3 DEF Held
<1>6. LocksAreExclusive'
  BY <1>5 DEF LocksAreExclusive
<1>7. \A q \in People \ {p} : q \in ActiveOwners' <=> q \in ActiveOwners
  BY DEF ActiveOwners
<1>8. AnotherOwnerIsHeld'
  <2> SUFFICES ASSUME NEW e \in Desks, desk'[e].stage \in {"locked", "written"},
                      desk'[e].target \in desk'[e].saw \cap ActiveOwners'
               PROVE  \E q \in desk'[e].saw : q # desk'[e].target /\ q \in ActiveOwners'
    BY DEF AnotherOwnerIsHeld
  <2>1. e # d
    BY <1>3
  <2>2. desk'[e].saw = desk[e].saw /\ desk[e].saw \subseteq People \ {p}
    BY <1>1, <1>2, <2>1 DEF Desk
  <2>3. desk[e].target \in desk[e].saw \cap ActiveOwners
    BY <1>1, <1>7, <2>1, <2>2
  <2>4. PICK q \in desk[e].saw : q # desk[e].target /\ q \in ActiveOwners
    BY <1>1, <2>1, <2>3 DEF AnotherOwnerIsHeld
  <2> QED
    BY <1>1, <1>7, <2>1, <2>2, <2>4
<1>9. RowsAreThere'
  <2> SUFFICES ASSUME NEW e \in Desks
               PROVE  /\ \A q \in desk'[e].saw : staff'[q] # "none"
                      /\ desk'[e].stage = "written" => staff'[desk'[e].target] # "none"
    BY DEF RowsAreThere
  <2>1. CASE e = d
    BY <1>3, <2>1
  <2>2. CASE e # d
    <3>1. desk[e].saw \subseteq People /\ (desk[e].stage = "written" => desk[e].target \in People)
      BY <1>1, <2>2 DEF Desk, TasksAreSound
    <3>2. \A q \in desk'[e].saw : staff'[q] # "none"
      BY <1>1, <2>2, <3>1 DEF RowsAreThere
    <3>3. desk'[e].stage = "written" => staff'[desk'[e].target] # "none"
      BY <1>1, <1>2, <2>2, <3>1 DEF RowsAreThere
    <3> QED
      BY <3>2, <3>3
  <2> QED
    BY <2>1, <2>2
<1> QED
  BY <1>4, <1>6, <1>8, <1>9

-----------------------------------------------------------------------------
LEMMA StaffNextInv == StaffInv /\ [StaffNext]_staffVars => StaffInv'
<1> SUFFICES ASSUME StaffInv, [StaffNext]_staffVars PROVE StaffInv'
  OBVIOUS
<1> USE DEF StaffInv
<1>1. ASSUME NEW d \in Desks, NEW by \in People, NEW op \in {"add", "change", "remove"},
             NEW target \in People, NEW given \in GivenRoles \cup {"none"},
             Authorized(d, by, op, target, given)
      PROVE  StaffInv'
  <2> DEFINE t == [IdleDesk EXCEPT !.op = op, !.target = target, !.role = given]
  <2>1. t.op = op /\ t.target = target /\ t.role = given /\ t.stage = "authorized" /\ t.saw = {}
    BY DEF IdleDesk
  <2>2. t \in Desk
    <3>1. given \in StaffRoles \cup {"none"}
      BY StaffAssumption
    <3> QED
      BY <3>1 DEF IdleDesk, Desk
  <2> HIDE DEF t
  <2>3. op \in {"add", "change"} => given # "none"
    BY <1>1 DEF Authorized
  <2>4. desk' = [desk EXCEPT ![d] = t] /\ UNCHANGED <<staff, active>>
    BY <1>1 DEF Authorized, t
  <2>5. \A p \in t.saw : staff[p] # "none"
    BY <2>1
  <2> QED
    BY <2>1, <2>2, <2>3, <2>4, <2>5, StaffQuietStep
<1>2. ASSUME NEW d \in Desks, Leaves(d), UNCHANGED <<staff, active>>
      PROVE  StaffInv'
  <2>1. IdleDesk \in Desk /\ IdleDesk.op = "none" /\ IdleDesk.stage = "authorized" /\ IdleDesk.saw = {}
    BY DEF IdleDesk, Desk
  <2> QED
    BY <1>2, <2>1, StaffQuietStep DEF Leaves
<1>4. ASSUME NEW d \in Desks, InsertsRow(d)
      PROVE  StaffInv'
  <2> DEFINE p == desk[d].target
  <2>1. p \in People /\ desk[d].role \in StaffRoles
    BY <1>4 DEF InsertsRow, TasksAreSound, StaffTypeOK, Desk
  <2>2. CASE staff[p] # "none"
    BY <1>2, <1>4, <2>2 DEF InsertsRow
  <2>3. CASE staff[p] = "none"
    <3>1. StaffTypeOK'
      BY <1>4, <2>1 DEF InsertsRow, Leaves, StaffTypeOK, IdleDesk, Desk, StaffRoles
    <3>2. \A q \in People \ {p} : staff'[q] = staff[q] /\ (q \in active' <=> q \in active)
      BY <1>4, <2>1 DEF InsertsRow, StaffTypeOK
    <3>3. \A e \in Desks \ {d} : p \notin Held(e)
      BY <2>3 DEF RowsAreThere, Held
    <3>4. desk'[d] = IdleDesk /\ \A e \in Desks \ {d} : desk'[e] = desk[e]
      BY <1>4 DEF InsertsRow, Leaves, StaffTypeOK
    <3>5. staff'[p] # "none"
      BY <1>4, <2>1, <2>3 DEF InsertsRow, StaffTypeOK, StaffRoles
    <3> QED
      BY <2>1, <3>1, <3>2, <3>3, <3>4, <3>5, StaffLastStep
  <2> QED
    BY <2>2, <2>3
<1>3. ASSUME NEW d \in Desks, SeesOwners(d)
      PROVE  StaffInv'
  <2> DEFINE t == [desk[d] EXCEPT !.stage = "locking", !.saw = ActiveOwners]
  <2>1. t \in Desk /\ t.stage = "locking"
    <3>1. desk[d] \in Desk /\ ActiveOwners \in SUBSET People
      BY DEF StaffTypeOK, ActiveOwners
    <3> QED
      BY <3>1 DEF Desk
  <2>2. t.op = desk[d].op /\ t.target = desk[d].target /\ t.role = desk[d].role
    BY DEF StaffTypeOK, Desk
  <2>3. desk' = [desk EXCEPT ![d] = t] /\ UNCHANGED <<staff, active>>
    BY <1>3 DEF SeesOwners, StaffTypeOK
  <2>4. t.op # "none"
    BY <1>3, <2>2 DEF SeesOwners, NeedsAnotherOwner
  <2>5. \A p \in t.saw : staff[p] # "none"
    BY DEF ActiveOwners
  <2> HIDE DEF t
  <2>6. /\ t.op # "none" => t.target \in People
        /\ t.op \in {"add", "change"} => t.role # "none"
    BY <2>2 DEF TasksAreSound
  <2> QED
    BY <2>1, <2>3, <2>4, <2>5, <2>6, StaffQuietStep
<1>5. ASSUME NEW d \in Desks, LocksOwners(d), At(d, "locked")
      PROVE  StaffInv'
  <2>1. /\ desk'[d] = [desk[d] EXCEPT !.stage = "locked"]
        /\ \A e \in Desks : e # d => desk'[e] = desk[e]
        /\ UNCHANGED <<staff, active>>
    BY <1>5 DEF At, StaffTypeOK, LocksOwners
  <2>2. /\ desk'[d].stage = "locked" /\ desk'[d].op = desk[d].op
        /\ desk'[d].target = desk[d].target /\ desk'[d].role = desk[d].role
        /\ desk'[d].saw = desk[d].saw
    BY <2>1 DEF StaffTypeOK, Desk
  <2>3. StaffTypeOK'
    BY <1>5, <2>1 DEF StaffTypeOK, Desk, At
  <2>4. TasksAreSound'
    BY <1>5, <2>1, <2>2 DEF TasksAreSound, LocksOwners
  <2>5. /\ Held(d)' = desk[d].saw
        /\ \A e \in Desks : e # d => Held(e)' = Held(e)
    BY <2>1, <2>2 DEF Held
  <2>6. \A e \in Desks : e # d => desk[d].saw \cap Held(e) = {}
    BY <1>5 DEF LocksOwners, OwnersFree, StaffRowFree
  <2>7. LocksAreExclusive'
    BY <2>5, <2>6 DEF LocksAreExclusive
  <2>8. ActiveOwners' = ActiveOwners
    BY <2>1 DEF ActiveOwners
  <2>9. StillOwners(d) # {desk[d].target}
    BY <1>5, <2>2 DEF LocksOwners, Leaves, IdleDesk, StaffTypeOK
  <2>10. AnotherOwnerIsHeld'
    BY <2>1, <2>2, <2>8, <2>9 DEF AnotherOwnerIsHeld, StillOwners
  <2>11. RowsAreThere'
    <3> SUFFICES ASSUME NEW e \in Desks
                 PROVE  /\ \A p \in desk'[e].saw : staff'[p] # "none"
                        /\ desk'[e].stage = "written" => staff'[desk'[e].target] # "none"
      BY DEF RowsAreThere
    <3>1. staff' = staff
      BY <2>1
    <3>2. CASE e = d
      BY <2>2, <3>1, <3>2 DEF RowsAreThere
    <3>3. CASE e # d
      BY <2>1, <3>1, <3>3 DEF RowsAreThere
    <3> QED
      BY <3>2, <3>3
  <2> QED
    BY <2>3, <2>4, <2>7, <2>10, <2>11
<1>6. ASSUME NEW d \in Desks, WritesRow(d), At(d, "written")
      PROVE  StaffInv'
  <2>1. /\ desk'[d] = [desk[d] EXCEPT !.stage = "written"]
        /\ \A e \in Desks : e # d => desk'[e] = desk[e]
        /\ UNCHANGED <<staff, active>>
    BY <1>6 DEF At, StaffTypeOK, WritesRow
  <2>2. /\ desk'[d].stage = "written" /\ desk'[d].op = desk[d].op
        /\ desk'[d].target = desk[d].target /\ desk'[d].role = desk[d].role
        /\ desk'[d].saw = desk[d].saw
    BY <2>1 DEF StaffTypeOK, Desk
  <2>3. StaffTypeOK'
    BY <1>6, <2>1 DEF StaffTypeOK, Desk, At
  <2>4. TasksAreSound'
    BY <1>6, <2>1, <2>2 DEF TasksAreSound, WritesRow
  <2>5. /\ Held(d)' = desk[d].saw \cup {desk[d].target}
        /\ \A e \in Desks : e # d => Held(e)' = Held(e)
    BY <2>1, <2>2 DEF Held
  <2>6. desk[d].stage = "locked" \/ desk[d].saw = {}
    BY <1>6 DEF WritesRow, TasksAreSound
  <2>7. desk[d].saw \subseteq Held(d)
    BY <2>6 DEF Held
  <2>8. \A e \in Desks : e # d => desk[d].target \notin Held(e) /\ desk[d].saw \cap Held(e) = {}
    BY <1>6, <2>7 DEF WritesRow, StaffRowFree, LocksAreExclusive
  <2>9. LocksAreExclusive'
    BY <2>5, <2>8 DEF LocksAreExclusive
  <2>10. ActiveOwners' = ActiveOwners
    BY <2>1 DEF ActiveOwners
  <2>11. AnotherOwnerIsHeld'
    BY <2>1, <2>2, <2>6, <2>10 DEF AnotherOwnerIsHeld
  <2>12. staff[desk[d].target] # "none"
    <3>1. ~Leaves(d)
      BY <2>2 DEF Leaves, IdleDesk, StaffTypeOK
    <3> QED
      BY <1>6, <3>1 DEF WritesRow
  <2>13. RowsAreThere'
    <3> SUFFICES ASSUME NEW e \in Desks
                 PROVE  /\ \A p \in desk'[e].saw : staff'[p] # "none"
                        /\ desk'[e].stage = "written" => staff'[desk'[e].target] # "none"
      BY DEF RowsAreThere
    <3>1. staff' = staff
      BY <2>1
    <3>2. CASE e = d
      BY <2>2, <2>12, <3>1, <3>2 DEF RowsAreThere
    <3>3. CASE e # d
      BY <2>1, <3>1, <3>3 DEF RowsAreThere
    <3> QED
      BY <3>2, <3>3
  <2> QED
    BY <2>3, <2>4, <2>9, <2>11, <2>13
<1>7. ASSUME NEW d \in Desks, CommitsRow(d)
      PROVE  StaffInv'
  <2> DEFINE p == desk[d].target
  <2>1. p \in People /\ desk[d].op # "none" /\ desk[d].role \in StaffRoles \cup {"none"}
    BY <1>7 DEF CommitsRow, TasksAreSound, StaffTypeOK, Desk
  <2>2. desk[d].op # "remove" => desk[d].role # "none"
    BY <2>1 DEF TasksAreSound, StaffTypeOK, Desk
  <2>3. /\ \A q \in People \ {p} : staff'[q] = staff[q] /\ (q \in active' <=> q \in active)
        /\ staff'[p] = desk[d].role
        /\ p \in active' => desk[d].op # "remove"
    BY <1>7, <2>1 DEF CommitsRow, StaffTypeOK
  <2>4. staff' \in [People -> StaffRoles \cup {"none"}] /\ active' \subseteq active
    BY <1>7, <2>1 DEF CommitsRow, StaffTypeOK
  <2>5. /\ desk' \in [Desks -> Desk]
        /\ desk'[d] = IdleDesk
        /\ \A e \in Desks \ {d} : desk'[e] = desk[e] \/ desk'[e] = Forgets(desk[e], p)
        /\ desk[d].op = "remove" => \A e \in Desks \ {d} : desk'[e] = Forgets(desk[e], p)
    <3>1. IdleDesk \in Desk
      BY DEF IdleDesk, Desk
    <3>2. CASE desk[d].op = "remove"
      <4>1. desk' = [e \in Desks |-> IF e = d THEN IdleDesk ELSE Forgets(desk[e], p)]
        BY <1>7, <3>2 DEF CommitsRow
      <4>2. \A e \in Desks : Forgets(desk[e], p) \in Desk
        BY ForgetsOne DEF StaffTypeOK
      <4> QED
        BY <3>1, <4>1, <4>2
    <3>3. CASE desk[d].op # "remove"
      BY <1>7, <3>1, <3>3 DEF CommitsRow, Leaves, StaffTypeOK
    <3> QED
      BY <3>2, <3>3
  <2>6. active' \subseteq {q \in People : staff'[q] # "none"}
    BY <2>2, <2>3, <2>4 DEF StaffTypeOK
  <2>7. StaffTypeOK'
    BY <2>4, <2>5, <2>6 DEF StaffTypeOK
  <2>8. p \in Held(d)
    BY <1>7 DEF CommitsRow, Held
  <2>9. \A e \in Desks \ {d} : p \notin Held(e)
    BY <2>8 DEF LocksAreExclusive
  <2>10. staff'[p] # "none" \/ \A e \in Desks \ {d} : desk'[e] = Forgets(desk[e], p)
    BY <2>2, <2>3, <2>5
  <2> HIDE DEF p
  <2> QED
    BY <2>1, <2>3, <2>5, <2>7, <2>9, <2>10, StaffLastStep
<1>8. CASE UNCHANGED staffVars
  BY <1>8 DEF staffVars, StaffTypeOK, TasksAreSound, LocksAreExclusive, AnotherOwnerIsHeld, RowsAreThere, Held,
               ActiveOwners
<1>9. ASSUME NEW d \in Desks, LocksOwners(d)
      PROVE  StaffInv'
  BY <1>2, <1>5, <1>9 DEF LocksOwners
<1>10. ASSUME NEW d \in Desks, WritesRow(d)
      PROVE  StaffInv'
  BY <1>2, <1>6, <1>10 DEF WritesRow
<1>11. ASSUME NEW d \in Desks, RollsBack(d)
      PROVE  StaffInv'
  BY <1>2, <1>11 DEF RollsBack
<1> QED
  BY <1>1, <1>3, <1>4, <1>7, <1>8, <1>9, <1>10, <1>11 DEF StaffNext

\* The rows of ensure_another_owner (FOR UPDATE) are locked by one handler at a time, as rows and not as
\* persons, and a handler that holds the row of an owner it may demote holds another owner's with it.
THEOREM StaffInvariant == StaffSpec => []StaffInv
<1>1. StaffInit => StaffInv
  BY StaffInitInv
<1>2. StaffInv /\ [StaffNext]_staffVars => StaffInv'
  BY StaffNextInv
<1> QED
  BY <1>1, <1>2, PTL DEF StaffSpec

-----------------------------------------------------------------------------
\* Any step from a state of the invariant that leaves the shop without an owner is the commit of a handler
\* whose locking statement returned nobody who still is an owner, nor the person it demotes.
LEMMA OwnerKeptStep ==
  ASSUME StaffInv, [StaffNext]_staffVars, ActiveOwners # {}, ActiveOwners' = {}
  PROVE  \E d \in Desks : /\ desk[d].stage = "written" /\ desk[d].target \notin desk[d].saw
                          /\ StillOwners(d) = {}
<1> USE DEF StaffInv
<1>1. CASE UNCHANGED <<staff, active>>
  BY <1>1 DEF ActiveOwners
<1>2. ASSUME NEW d \in Desks, InsertsRow(d) PROVE FALSE
  <2>1. PICK q \in ActiveOwners : TRUE
    OBVIOUS
  <2>2. q \in active' /\ staff'[q] = "owner"
    BY <1>2, <2>1 DEF InsertsRow, ActiveOwners, StaffTypeOK
  <2> QED
    BY <2>2 DEF ActiveOwners
<1>3. ASSUME NEW d \in Desks, CommitsRow(d)
      PROVE  desk[d].target \notin desk[d].saw /\ StillOwners(d) = {}
  <2> DEFINE p == desk[d].target
  <2>1. \A q \in ActiveOwners : q # p => q \in ActiveOwners'
    BY <1>3 DEF CommitsRow, Leaves, ActiveOwners, StaffTypeOK
  <2>2. ActiveOwners = {p}
    BY <2>1
  <2>3. p \notin desk[d].saw
    BY <1>3, <2>2 DEF CommitsRow, AnotherOwnerIsHeld
  <2> QED
    BY <2>2, <2>3 DEF StillOwners
<1>4. CASE UNCHANGED staffVars
  BY <1>1, <1>4 DEF staffVars
<1>5. CASE StaffNext
  <2>1. PICK d \in Desks :
          \/ \E by \in People, op \in {"add", "change", "remove"}, target \in People,
                given \in GivenRoles \cup {"none"} : Authorized(d, by, op, target, given)
          \/ InsertsRow(d) \/ SeesOwners(d) \/ LocksOwners(d) \/ WritesRow(d) \/ CommitsRow(d)
          \/ RollsBack(d)
    BY <1>5 DEF StaffNext
  <2>2. UNCHANGED <<staff, active>> \/ InsertsRow(d) \/ CommitsRow(d)
    BY <2>1 DEF Authorized, SeesOwners, LocksOwners, WritesRow, RollsBack
  <2>3. CommitsRow(d) => desk[d].stage = "written"
    BY DEF CommitsRow
  <2> QED
    BY <1>1, <1>2, <1>3, <2>2, <2>3
<1> QED
  BY <1>4, <1>5

\* Two owners who demote or remove each other at the same moment leave one, for any number of them, as long as
\* the locking statement of ensure_another_owner returned an owner that still is one: the last owner is only
\* taken by a handler for which it returned nobody.  (That such handlers exist is what ShopHasAnOwner shows.)
THEOREM AnOwnerStays == StaffSpec => OwnerKept
<1> DEFINE Lost == ActiveOwners # {} /\ ActiveOwners' = {} =>
                     \E d \in Desks : /\ desk[d].stage = "written" /\ desk[d].target \notin desk[d].saw
                                      /\ StillOwners(d) = {}
<1>1. StaffInv /\ [StaffNext]_staffVars => [Lost]_staffVars
  BY OwnerKeptStep
<1> HIDE DEF Lost
<1>2. StaffSpec => [][Lost]_staffVars
  BY <1>1, StaffInvariant, PTL DEF StaffSpec
<1> QED
  BY <1>2 DEF OwnerKept, Lost

(***************************************************************************)
(* Gateway access: the token buckets and the number of keys a user holds.  *)
(* AccessInv is the inductive invariant of the limiter; KeysInv is the one *)
(* of the keys.                                                            *)
(***************************************************************************)
\* What a take finds for a subject, bucket or none.
Level(b) == IF b = NoBucket THEN Full ELSE Refilled(b)

\* A bucket was touched no later than now, and holds what the table that forgets nothing does.
BucketIsSound(b, used) ==
  /\ b \in Bucket \cup {NoBucket}
  /\ b # NoBucket => b.updated <= clock
  /\ used \in 0..Full
  /\ Level(b) = Full - used

BucketsAreSound ==
  \A s \in BucketSets :
    /\ buckets[s] \in [Subjects(s) -> Bucket \cup {NoBucket}]
    /\ spent[s] \in [Subjects(s) -> 0..Full]
    /\ \A i \in Subjects(s) : BucketIsSound(buckets[s][i], spent[s][i])

\* A key whose request was not refused is one of those; a request comes from somewhere.
CallsAreSound ==
  \A c \in Calls :
    /\ call[c].stage = "unrefused" /\ call[c].key # "nothing" => call[c].key \in unrefused
    /\ call[c].op = "use" => call[c].client \in Clients

AccessInv ==
  /\ AccessTypeOK
  /\ buckets = [s \in BucketSets |-> buckets[s]] /\ spent = [s \in BucketSets |-> spent[s]]
  /\ BucketsAreSound
  /\ CallsAreSound
  /\ RefusedKeysGetNoBucket

-----------------------------------------------------------------------------
\* Arithmetic of one bucket

LEMMA FullIsNat == Full \in Nat /\ Cost \in Nat /\ Cost > 0
  BY AccessAssumption DEF Full

\* Refilling stays within a full bucket.
LEMMA RefilledIsBounded ==
  ASSUME NEW b \in Bucket, b.updated <= clock, clock \in 0..MaxClock
  PROVE  Refilled(b) \in 0..Full /\ b.tokens \in 0..Full /\ b.updated \in Nat
  BY FullIsNat, AccessAssumption DEF Refilled, AtMost, Bucket

\* The sweep drops a bucket only when it is full.
LEMMA SweptIsSound ==
  ASSUME NEW s \in BucketSets, NEW i \in Subjects(s), clock \in 0..MaxClock,
         BucketIsSound(buckets[s][i], spent[s][i])
  PROVE  /\ BucketIsSound(Swept(s)[i], spent[s][i])
         /\ Swept(s)[i] # NoBucket => Swept(s)[i] = buckets[s][i]
<1> DEFINE b == buckets[s][i]
<1>1. Swept(s)[i] = b \/ (Swept(s)[i] = NoBucket /\ b # NoBucket /\ ~Kept(b))
  BY DEF Swept
<1>2. CASE Swept(s)[i] = b
  BY <1>2
<1>3. CASE Swept(s)[i] = NoBucket /\ b # NoBucket /\ ~Kept(b)
  <2>1. b \in Bucket /\ b.updated <= clock /\ spent[s][i] \in 0..Full /\ Refilled(b) = Full - spent[s][i]
    BY <1>3 DEF BucketIsSound, Level
  <2>2. Refilled(b) \in 0..Full /\ ~(Refilled(b) < Full)
    BY <1>3, <2>1, RefilledIsBounded DEF Kept
  <2>3. spent[s][i] = 0 /\ Full - spent[s][i] = Full
    BY <2>1, <2>2, FullIsNat
  <2> QED
    BY <1>3, <2>1, <2>3 DEF BucketIsSound, Level
<1> QED
  BY <1>1, <1>2, <1>3

\* A bucket that is opened is full.
LEMMA OpenedIsSound ==
  ASSUME NEW s \in BucketSets, NEW i \in Subjects(s), NEW create \in BOOLEAN, clock \in 0..MaxClock,
         BucketIsSound(buckets[s][i], spent[s][i])
  PROVE  /\ BucketIsSound(Opened(s, i, create), spent[s][i])
         /\ Opened(s, i, create) # NoBucket => create \/ buckets[s][i] # NoBucket
<1> DEFINE b == Swept(s)[i]
           fresh == [tokens |-> Full, updated |-> clock]
<1>1. /\ BucketIsSound(b, spent[s][i])
      /\ b # NoBucket => b = buckets[s][i]
  BY SweptIsSound
<1>2. Opened(s, i, create) = IF b = NoBucket /\ create THEN fresh ELSE b
  BY DEF Opened
<1>3. CASE b = NoBucket /\ create
  <2>1. fresh \in Bucket /\ fresh.updated = clock /\ fresh.tokens = Full
    BY FullIsNat DEF Bucket
  <2>2. Refilled(fresh) = Full
    BY <2>1, FullIsNat, AccessAssumption DEF Refilled, AtMost
  <2>3. fresh # NoBucket
    BY AccessAssumption DEF NoBucket
  <2>4. clock <= clock /\ spent[s][i] \in 0..Full /\ Full - spent[s][i] = Full
    BY <1>1, <1>3, AccessAssumption DEF BucketIsSound, Level
  <2> HIDE DEF fresh
  <2> QED
    BY <1>2, <1>3, <2>1, <2>2, <2>3, <2>4 DEF BucketIsSound, Level
<1>4. CASE ~(b = NoBucket /\ create)
  BY <1>1, <1>2, <1>4
<1> QED
  BY <1>3, <1>4

\* A take spends a token of the bucket when the table would have given one.
LEMMA TakenIsSound ==
  ASSUME NEW b \in Bucket, NEW used \in 0..Full, BucketIsSound(b, used), b # NoBucket, clock \in 0..MaxClock
  PROVE  BucketIsSound(TakenFrom(b), IF Full - used >= Cost THEN used + Cost ELSE used)
<1> DEFINE r == Refilled(b)
           t == TakenFrom(b)
           left == IF r < Cost THEN r ELSE r - Cost
           more == IF Full - used >= Cost THEN used + Cost ELSE used
<1>1. r \in 0..Full /\ r = Full - used
  BY RefilledIsBounded DEF BucketIsSound, Level
<1>2. left \in 0..Full /\ more \in 0..Full /\ left = Full - more
  BY <1>1, FullIsNat
<1>3. t = [tokens |-> left, updated |-> clock]
  BY DEF TakenFrom
<1> HIDE DEF r, left, more, t
<1>4. t \in Bucket /\ t.updated = clock /\ t.tokens = left
  BY <1>2, <1>3 DEF Bucket
<1>5. t # NoBucket
  BY <1>4, AccessAssumption DEF NoBucket
<1>6. Refilled(t) = left
  BY <1>2, <1>4, FullIsNat, AccessAssumption DEF Refilled, AtMost
<1>7. clock <= clock
  BY AccessAssumption
<1> QED
  BY <1>2, <1>4, <1>5, <1>6, <1>7 DEF BucketIsSound, Level, more, t

-----------------------------------------------------------------------------
\* The bucket sets

\* What one take does to the sets.
LEMMA TakesKeepsBuckets ==
  ASSUME AccessInv, NEW s \in BucketSets, NEW i \in Subjects(s), NEW create \in BOOLEAN,
         Takes(One(s, i, create)), clock' = clock
  PROVE  /\ BucketsAreSound'
         /\ buckets' = [x \in BucketSets |-> buckets'[x]] /\ spent' = [x \in BucketSets |-> spent'[x]]
         /\ operations' \in [BucketSets -> 0..PruneEvery - 1]
         /\ \A k \in Presented : buckets'["keys"][k] # NoBucket =>
              buckets["keys"][k] # NoBucket \/ (s = "keys" /\ k = i /\ create)
<1> DEFINE asked == One(s, i, create)
           b == Opened(s, i, create)
           n == spent[s][i]
<1> USE DEF AccessInv
<1>1. DOMAIN asked = {s} /\ asked[s].of = i /\ asked[s].create = create
  BY DEF One
<1>2. clock \in 0..MaxClock
  BY DEF AccessTypeOK
<1>3. \A x \in BucketSets : x # s => buckets'[x] = buckets[x] /\ spent'[x] = spent[x]
  BY <1>1 DEF Takes
<1>4. buckets'[s] = [Swept(s) EXCEPT ![i] = IF b = NoBucket THEN NoBucket ELSE TakenFrom(b)]
  BY <1>1 DEF Takes
<1>5. spent'[s] = IF b # NoBucket /\ Full - n >= Cost THEN [spent[s] EXCEPT ![i] = @ + Cost] ELSE spent[s]
  BY <1>1 DEF Takes
<1>6. /\ buckets[s] \in [Subjects(s) -> Bucket \cup {NoBucket}]
      /\ spent[s] \in [Subjects(s) -> 0..Full]
      /\ \A j \in Subjects(s) : BucketIsSound(buckets[s][j], spent[s][j])
  BY DEF BucketsAreSound
<1>7. \A j \in Subjects(s) : /\ BucketIsSound(Swept(s)[j], spent[s][j])
                             /\ Swept(s)[j] # NoBucket => Swept(s)[j] = buckets[s][j]
  BY <1>2, <1>6, SweptIsSound
<1>8. /\ BucketIsSound(b, n)
      /\ b # NoBucket => create \/ buckets[s][i] # NoBucket
  BY <1>2, <1>6, OpenedIsSound
<1>9. Swept(s) \in [Subjects(s) -> Bucket \cup {NoBucket}]
  BY <1>6 DEF Swept
<1>10. BucketIsSound(buckets'[s][i], spent'[s][i])
  <2>1. CASE b = NoBucket
    <3>1. buckets'[s][i] = NoBucket /\ spent'[s][i] = n
      BY <1>4, <1>5, <1>9, <2>1
    <3> QED
      BY <1>8, <2>1, <3>1
  <2>2. CASE b # NoBucket
    <3>1. buckets'[s][i] = TakenFrom(b)
      BY <1>4, <1>9, <2>2
    <3>2. spent'[s][i] = IF Full - n >= Cost THEN n + Cost ELSE n
      BY <1>5, <1>6, <2>2
    <3>3. b \in Bucket /\ n \in 0..Full
      BY <1>8, <2>2 DEF BucketIsSound
    <3> HIDE DEF b, n
    <3> QED
      BY <1>2, <1>8, <2>2, <3>1, <3>2, <3>3, TakenIsSound
  <2> QED
    BY <2>1, <2>2
<1>11. \A j \in Subjects(s) : j # i => buckets'[s][j] = Swept(s)[j] /\ spent'[s][j] = spent[s][j]
  BY <1>4, <1>5, <1>6, <1>9
<1>12. \A j \in Subjects(s) : BucketIsSound(buckets'[s][j], spent'[s][j])
  BY <1>7, <1>10, <1>11
<1>13. DOMAIN buckets'[s] = Subjects(s) /\ DOMAIN spent'[s] = Subjects(s)
  BY <1>4, <1>5, <1>6, <1>9
<1>14. \A j \in Subjects(s) : buckets'[s][j] \in Bucket \cup {NoBucket} /\ spent'[s][j] \in 0..Full
  BY <1>12 DEF BucketIsSound
<1>15. /\ buckets'[s] = [j \in Subjects(s) |-> buckets'[s][j]]
       /\ spent'[s] = [j \in Subjects(s) |-> spent'[s][j]]
  BY <1>4, <1>5, <1>6, <1>9
<1>16. \A x \in BucketSets : \A j \in Subjects(x) :
         BucketIsSound(buckets'[x][j], spent'[x][j]) => BucketIsSound(buckets[x][j], spent[x][j])' 
  BY DEF BucketIsSound, Level, Refilled
<1>17. BucketsAreSound'
  <2> SUFFICES ASSUME NEW x \in BucketSets
               PROVE  /\ buckets'[x] \in [Subjects(x) -> Bucket \cup {NoBucket}]
                      /\ spent'[x] \in [Subjects(x) -> 0..Full]
                      /\ \A j \in Subjects(x) : BucketIsSound(buckets'[x][j], spent'[x][j])
    BY <1>16 DEF BucketsAreSound
  <2>1. CASE x = s
    BY <1>12, <1>14, <1>15, <2>1
  <2>2. CASE x # s
    BY <1>3, <2>2 DEF BucketsAreSound
  <2> QED
    BY <2>1, <2>2
<1>18. buckets' = [x \in BucketSets |-> buckets'[x]] /\ spent' = [x \in BucketSets |-> spent'[x]]
  BY DEF Takes
<1>19. operations' \in [BucketSets -> 0..PruneEvery - 1]
  BY AccessAssumption DEF Takes, AccessTypeOK
<1>20. ASSUME NEW k \in Presented, buckets'["keys"][k] # NoBucket
       PROVE  buckets["keys"][k] # NoBucket \/ (s = "keys" /\ k = i /\ create)
  <2>1. CASE s # "keys"
    BY <1>3, <1>20, <2>1 DEF BucketSets
  <2>2. CASE s = "keys" /\ k # i
    BY <1>7, <1>11, <1>20, <2>2 DEF Subjects
  <2>3. CASE s = "keys" /\ k = i
    BY <1>4, <1>8, <1>9, <1>20, <2>3
  <2> QED
    BY <2>1, <2>2, <2>3
<1> QED
  BY <1>17, <1>18, <1>19, <1>20

\* A step that leaves the sets and the clock alone.
LEMMA NoTakesKeepsBuckets ==
  ASSUME AccessInv, NoTakes, clock' = clock
  PROVE  /\ BucketsAreSound'
         /\ buckets' = [x \in BucketSets |-> buckets'[x]] /\ spent' = [x \in BucketSets |-> spent'[x]]
         /\ operations' \in [BucketSets -> 0..PruneEvery - 1]
         /\ buckets' = buckets
<1> USE DEF AccessInv, NoTakes
<1>1. BucketsAreSound'
  BY DEF BucketsAreSound, BucketIsSound, Level, Refilled
<1> QED
  BY <1>1 DEF AccessTypeOK

\* The parts of the invariant that a step has to keep, beside the sets.
LEMMA AccessParts ==
  ASSUME BucketsAreSound', clock' \in 0..MaxClock, operations' \in [BucketSets -> 0..PruneEvery - 1],
         gatewayKey' \in [GatewayKeys -> KeyRow], call' \in [Calls -> Call], unrefused' \subseteq Presented,
         buckets' = [s \in BucketSets |-> buckets'[s]], spent' = [s \in BucketSets |-> spent'[s]],
         CallsAreSound', RefusedKeysGetNoBucket'
  PROVE  AccessInv'
  BY DEF AccessInv, AccessTypeOK, BucketsAreSound

LEMMA AccessInitInv == AccessInit => AccessInv
<1> SUFFICES ASSUME AccessInit PROVE AccessInv
  OBVIOUS
<1> USE DEF AccessInit
<1>1. \A s \in BucketSets : \A i \in Subjects(s) : BucketIsSound(buckets[s][i], spent[s][i])
  BY FullIsNat DEF BucketIsSound, Level
<1>2. BucketsAreSound
  BY <1>1, FullIsNat DEF BucketsAreSound
<1>3. gatewayKey \in [GatewayKeys -> KeyRow] /\ call \in [Calls -> Call]
  BY DEF KeyRow, Call, NoCall
<1>4. operations \in [BucketSets -> 0..PruneEvery - 1] /\ clock \in 0..MaxClock
  BY AccessAssumption
<1>5. CallsAreSound
  BY DEF CallsAreSound, NoCall
<1>6. RefusedKeysGetNoBucket
  BY DEF RefusedKeysGetNoBucket, BucketSets, Subjects
<1> QED
  BY <1>2, <1>3, <1>4, <1>5, <1>6 DEF AccessInv, AccessTypeOK, BucketsAreSound

\* A tick refills every bucket by one unit.
LEMMA TickKeepsBucket ==
  ASSUME NEW b, NEW used, BucketIsSound(b, used), clock \in 0..MaxClock, clock' = clock + 1
  PROVE  BucketIsSound(b, IF used = 0 THEN 0 ELSE used - 1)'
<1> DEFINE less == IF used = 0 THEN 0 ELSE used - 1
<1>1. used \in 0..Full /\ less \in 0..Full /\ b \in Bucket \cup {NoBucket}
  BY FullIsNat DEF BucketIsSound
<1>2. CASE b = NoBucket
  <2>1. used = 0
    BY <1>1, <1>2, FullIsNat DEF BucketIsSound, Level
  <2> QED
    BY <1>1, <1>2, <2>1, FullIsNat DEF BucketIsSound, Level
<1>3. CASE b # NoBucket
  <2>1. b.tokens \in 0..Full /\ b.updated \in Nat /\ b.updated <= clock /\ clock \in Nat
    BY <1>1, <1>3, AccessAssumption DEF BucketIsSound, Bucket
  <2> DEFINE n == b.tokens + (clock - b.updated)
  <2>2. AtMost(n, Full) = Full - used
    BY <1>3 DEF BucketIsSound, Level, Refilled
  <2>3. n \in Nat /\ b.tokens + (clock' - b.updated) = n + 1 /\ b.updated <= clock'
    BY <2>1, FullIsNat
  <2> HIDE DEF n
  <2>4. AtMost(b.tokens + (clock' - b.updated), Full) = Full - less
    <3>1. CASE used = 0
      BY <1>1, <2>2, <2>3, <3>1, FullIsNat DEF AtMost
    <3>2. CASE used # 0
      BY <1>1, <2>2, <2>3, <3>2, FullIsNat DEF AtMost
    <3> QED
      BY <3>1, <3>2
  <2> HIDE DEF less
  <2>5. BucketIsSound(b, less)'
    BY <1>1, <1>3, <2>3, <2>4 DEF BucketIsSound, Level, Refilled
  <2> QED
    BY <2>5 DEF less
<1> QED
  BY <1>2, <1>3

LEMMA TickInv == AccessInv /\ Tick => AccessInv'
<1> SUFFICES ASSUME AccessInv, Tick PROVE AccessInv'
  OBVIOUS
<1> USE DEF AccessInv, Tick
<1>1. clock \in 0..MaxClock /\ clock' \in 0..MaxClock /\ clock' = clock + 1
  BY AccessAssumption DEF AccessTypeOK
<1>2. \A s \in BucketSets : \A i \in Subjects(s) : BucketIsSound(buckets[s][i], spent[s][i])'
  <2> SUFFICES ASSUME NEW s \in BucketSets, NEW i \in Subjects(s)
               PROVE  BucketIsSound(buckets[s][i], spent[s][i])'
    OBVIOUS
  <2>1. buckets'[s][i] = buckets[s][i] /\ spent'[s][i] = IF spent[s][i] = 0 THEN 0 ELSE spent[s][i] - 1
    OBVIOUS
  <2>2. BucketIsSound(buckets[s][i], spent[s][i])
    BY DEF BucketsAreSound
  <2>3. ASSUME NEW b, NEW used, b = buckets[s][i], used = spent[s][i]
        PROVE  BucketIsSound(b, IF used = 0 THEN 0 ELSE used - 1)'
    BY <1>1, <2>2, <2>3, TickKeepsBucket
  <2> QED
    BY <2>1, <2>3 DEF BucketIsSound, Level, Refilled
<1>3. \A s \in BucketSets : /\ buckets'[s] \in [Subjects(s) -> Bucket \cup {NoBucket}]
                            /\ spent'[s] \in [Subjects(s) -> 0..Full]
  BY FullIsNat DEF BucketsAreSound
<1>4. BucketsAreSound'
  BY <1>2, <1>3 DEF BucketsAreSound
<1>5. CallsAreSound' /\ RefusedKeysGetNoBucket'
  BY DEF CallsAreSound, RefusedKeysGetNoBucket
<1>6. /\ operations' \in [BucketSets -> 0..PruneEvery - 1]
      /\ gatewayKey' \in [GatewayKeys -> KeyRow] /\ call' \in [Calls -> Call] /\ unrefused' \subseteq Presented
      /\ buckets' = [s \in BucketSets |-> buckets'[s]] /\ spent' = [s \in BucketSets |-> spent'[s]]
  BY DEF AccessTypeOK
<1> QED
  BY <1>1, <1>4, <1>5, <1>6, AccessParts

-----------------------------------------------------------------------------
LEMMA AccessNextInv == AccessInv /\ [AccessNext]_accessVars => AccessInv'
<1> SUFFICES ASSUME AccessInv, [AccessNext]_accessVars PROVE AccessInv'
  OBVIOUS
<1>1. clock \in 0..MaxClock /\ gatewayKey \in [GatewayKeys -> KeyRow] /\ call \in [Calls -> Call]
      /\ unrefused \subseteq Presented
  BY DEF AccessInv, AccessTypeOK
<1>2. CallsAreSound /\ RefusedKeysGetNoBucket
  BY DEF AccessInv
<1>3. NoCall \in Call /\ NoCall.op = "none" /\ NoCall.stage = "inside" /\ NoCall.key = "nothing"
  BY DEF NoCall, Call
<1>4. ASSUME NEW c \in Calls, NEW client \in Clients, NEW k \in Presented, Arrives(c, client, k)
      PROVE  AccessInv'
  <2>1. Takes(One("keys", k, FALSE)) /\ UNCHANGED <<gatewayKey, clock, unrefused>>
    BY <1>4 DEF Arrives, CreatesOnArrival
  <2>2. "keys" \in BucketSets /\ k \in Subjects("keys")
    BY DEF BucketSets, Subjects
  <2>3. /\ BucketsAreSound'
        /\ buckets' = [x \in BucketSets |-> buckets'[x]] /\ spent' = [x \in BucketSets |-> spent'[x]]
        /\ operations' \in [BucketSets -> 0..PruneEvery - 1]
        /\ \A x \in Presented : buckets'["keys"][x] # NoBucket => buckets["keys"][x] # NoBucket
    BY <2>1, <2>2, TakesKeepsBuckets
  <2>4. PICK n \in BOOLEAN :
          call' \in {call, [call EXCEPT ![c] = [NoCall EXCEPT !.op = "use", !.key = k, !.client = client,
                                                              !.counted = n]]}
    BY <1>4 DEF Arrives
  <2>5. call' \in [Calls -> Call]
    <3>1. [NoCall EXCEPT !.op = "use", !.key = k, !.client = client, !.counted = n] \in Call
      BY DEF NoCall, Call
    <3> QED
      BY <1>1, <2>4, <3>1
  <2>6. CallsAreSound'
    BY <1>1, <1>2, <2>1, <2>4 DEF CallsAreSound, NoCall
  <2>7. RefusedKeysGetNoBucket'
    BY <1>2, <2>1, <2>3 DEF RefusedKeysGetNoBucket
  <2> QED
    BY <1>1, <2>1, <2>3, <2>5, <2>6, <2>7, AccessParts
<1>5. ASSUME NoTakes, clock' = clock, gatewayKey' \in [GatewayKeys -> KeyRow], call' \in [Calls -> Call],
             unrefused \subseteq unrefused', unrefused' \subseteq Presented, CallsAreSound'
      PROVE  AccessInv'
  <2>1. RefusedKeysGetNoBucket'
    BY <1>2, <1>5 DEF RefusedKeysGetNoBucket, NoTakes
  <2> QED
    BY <1>1, <1>5, <2>1, NoTakesKeepsBuckets, AccessParts
<1>6. ASSUME NEW c \in Calls, NEW client \in Clients, ArrivesWithoutKey(c, client)
      PROVE  AccessInv'
  <2>1. call' = [call EXCEPT ![c] = [NoCall EXCEPT !.op = "use", !.client = client]]
    BY <1>6 DEF ArrivesWithoutKey
  <2>2. call' \in [Calls -> Call]
    BY <1>1, <2>1 DEF NoCall, Call
  <2>3. CallsAreSound'
    BY <1>1, <1>2, <1>6, <2>1 DEF CallsAreSound, NoCall, ArrivesWithoutKey
  <2> QED
    BY <1>1, <1>5, <1>6, <2>2, <2>3 DEF ArrivesWithoutKey
<1>7. ASSUME NEW c \in Calls, NEW stage \in {"unrefused", "refused"}, NEW K \in SUBSET Presented,
             call' = [call EXCEPT ![c].stage = stage], unrefused' = unrefused \cup K,
             stage = "unrefused" /\ call[c].key # "nothing" => call[c].key \in K,
             NoTakes, UNCHANGED <<gatewayKey, clock>>
      PROVE  AccessInv'
  <2>1. call' \in [Calls -> Call]
    BY <1>1, <1>7 DEF Call
  <2>2. CallsAreSound'
    <3>1. \A d \in Calls :
            /\ call'[d].key = call[d].key /\ call'[d].op = call[d].op /\ call'[d].client = call[d].client
            /\ d # c => call'[d].stage = call[d].stage
      BY <1>1, <1>7 DEF Call
    <3>2. call'[c].stage = stage
      BY <1>1, <1>7 DEF Call
    <3>3. unrefused \subseteq unrefused' /\ K \subseteq unrefused'
      BY <1>7
    <3> QED
      BY <1>2, <1>7, <3>1, <3>2, <3>3 DEF CallsAreSound
  <2>3. unrefused \subseteq unrefused' /\ unrefused' \subseteq Presented
    BY <1>1, <1>7
  <2> QED
    BY <1>1, <1>5, <1>7, <2>1, <2>2, <2>3
<1>16. ASSUME NEW c \in Calls, Authorizes(c)
       PROVE  AccessInv'
  <2> DEFINE k == call[c].key
             valid == k \in GatewayKeys /\ gatewayKey[k].state = "active"
  <2>1. CASE valid
    <3>1. /\ call' = [call EXCEPT ![c].stage = "unrefused"] /\ unrefused' = unrefused \cup {k}
          /\ NoTakes /\ UNCHANGED <<gatewayKey, clock>>
      BY <1>16, <2>1 DEF Authorizes
    <3>2. {k} \in SUBSET Presented
      BY <2>1 DEF Presented
    <3> QED
      BY <1>7, <3>1, <3>2
  <2>2. CASE ~valid
    <3>1. /\ call' = [call EXCEPT ![c].stage = "refused"] /\ unrefused' = unrefused \cup {}
          /\ NoTakes /\ UNCHANGED <<gatewayKey, clock>>
      BY <1>16, <2>2 DEF Authorizes
    <3>2. {} \in SUBSET Presented /\ "refused" \in {"unrefused", "refused"} /\ "refused" # "unrefused"
      OBVIOUS
    <3> QED
      BY <1>7, <3>1, <3>2
  <2> QED
    BY <2>1, <2>2
<1>17. ASSUME NEW c \in Calls, AnswersUnjudged(c)
       PROVE  AccessInv'
  <2> DEFINE K == {call[c].key} \ {"nothing"}
  <2>1. /\ call' = [call EXCEPT ![c].stage = "unrefused"] /\ unrefused' = unrefused \cup K
        /\ NoTakes /\ UNCHANGED <<gatewayKey, clock>>
    BY <1>17 DEF AnswersUnjudged
  <2>2. K \in SUBSET Presented
    BY <1>1 DEF Call
  <2>3. call[c].key # "nothing" => call[c].key \in K
    OBVIOUS
  <2> HIDE DEF K
  <2> QED
    BY <1>7, <2>1, <2>2, <2>3
<1>8. ASSUME NEW c \in Calls, call' = [call EXCEPT ![c] = NoCall], unrefused' = unrefused
      PROVE  call' \in [Calls -> Call] /\ CallsAreSound'
  BY <1>1, <1>2, <1>3, <1>8 DEF CallsAreSound
<1>9. ASSUME NEW c \in Calls, Answers(c)
      PROVE  AccessInv'
  <2>1. call' = [call EXCEPT ![c] = NoCall] /\ UNCHANGED <<gatewayKey, clock, unrefused>>
    BY <1>9 DEF Answers
  <2>2. call' \in [Calls -> Call] /\ CallsAreSound'
    BY <1>8, <2>1
  <2>3. ASSUME NEW s \in BucketSets, NEW i \in Subjects(s), Takes(One(s, i, TRUE)),
               s = "keys" => i \in unrefused
        PROVE  AccessInv'
    <3>1. /\ BucketsAreSound'
          /\ buckets' = [x \in BucketSets |-> buckets'[x]] /\ spent' = [x \in BucketSets |-> spent'[x]]
          /\ operations' \in [BucketSets -> 0..PruneEvery - 1]
          /\ \A k \in Presented : buckets'["keys"][k] # NoBucket =>
               buckets["keys"][k] # NoBucket \/ (s = "keys" /\ k = i)
      BY <2>1, <2>3, TakesKeepsBuckets
    <3>2. RefusedKeysGetNoBucket'
      BY <1>2, <2>1, <2>3, <3>1 DEF RefusedKeysGetNoBucket
    <3> QED
      BY <1>1, <2>1, <2>2, <3>1, <3>2, AccessParts
  <2>4. CASE call[c].stage # "refused" /\ FirstUse(c) /\ Takes(One("keys", call[c].key, TRUE))
    <3>1. call[c].key # "nothing" /\ call[c].stage = "unrefused"
      BY <1>1, <1>9, <2>4 DEF Answers, FirstUse, Call
    <3>2. call[c].key \in unrefused /\ call[c].key \in Presented
      BY <1>1, <1>2, <3>1 DEF CallsAreSound
    <3> QED
      BY <2>3, <2>4, <3>2 DEF BucketSets, Subjects
  <2>5. CASE call[c].stage = "refused" /\ Takes(One("failures", call[c].client, TRUE))
    <3>1. call[c].client \in Clients
      BY <1>2, <1>9 DEF Answers, CallsAreSound
    <3> QED
      BY <2>3, <2>5, <3>1 DEF BucketSets, Subjects
  <2>6. CASE NoTakes
    BY <1>1, <1>5, <2>1, <2>2, <2>6
  <2> QED
    BY <1>9, <2>4, <2>5, <2>6 DEF Answers
<1>10. ASSUME NEW c \in Calls, Dropped(c)
       PROVE  AccessInv'
  BY <1>1, <1>5, <1>8, <1>10 DEF Dropped
<1>11. ASSUME NEW u \in Customers, Takes(One("users", u, TRUE)), clock' = clock, unrefused' = unrefused,
              gatewayKey' \in [GatewayKeys -> KeyRow], call' \in [Calls -> Call], CallsAreSound'
       PROVE  AccessInv'
  <2>1. "users" \in BucketSets /\ u \in Subjects("users")
    BY DEF BucketSets, Subjects
  <2>2. /\ BucketsAreSound'
        /\ buckets' = [x \in BucketSets |-> buckets'[x]] /\ spent' = [x \in BucketSets |-> spent'[x]]
        /\ operations' \in [BucketSets -> 0..PruneEvery - 1]
        /\ \A k \in Presented : buckets'["keys"][k] # NoBucket => buckets["keys"][k] # NoBucket
    BY <1>11, <2>1, TakesKeepsBuckets
  <2>3. RefusedKeysGetNoBucket'
    BY <1>2, <1>11, <2>2 DEF RefusedKeysGetNoBucket
  <2> QED
    BY <1>1, <1>11, <2>2, <2>3, AccessParts
<1>12. ASSUME NEW c \in Calls, NEW u \in Customers, CountsKeys(c, u)
       PROVE  AccessInv'
  <2>1. call' \in {call, [call EXCEPT ![c] = [NoCall EXCEPT !.op = "make", !.user = u]]}
    BY <1>12 DEF CountsKeys
  <2>2. call' \in [Calls -> Call]
    BY <1>1, <2>1 DEF NoCall, Call
  <2>3. CallsAreSound'
    BY <1>1, <1>2, <1>12, <2>1 DEF CallsAreSound, NoCall, CountsKeys
  <2> QED
    BY <1>1, <1>11, <1>12, <2>2, <2>3 DEF CountsKeys
<1>13. ASSUME NEW c \in Calls, NEW k \in GatewayKeys, InsertsKey(c, k)
       PROVE  AccessInv'
  <2>1. gatewayKey' \in [GatewayKeys -> KeyRow]
    BY <1>1, <1>13 DEF InsertsKey, KeyRow, Call
  <2> QED
    BY <1>1, <1>5, <1>8, <1>13, <2>1 DEF InsertsKey
<1>14. ASSUME NEW u \in Customers, NEW k \in GatewayKeys, RevokesKey(u, k)
       PROVE  AccessInv'
  <2>1. gatewayKey' \in [GatewayKeys -> KeyRow]
    BY <1>1, <1>14 DEF RevokesKey, KeyRow
  <2>2. CallsAreSound'
    BY <1>2, <1>14 DEF CallsAreSound, RevokesKey
  <2> QED
    BY <1>1, <1>11, <1>14, <2>1, <2>2 DEF RevokesKey
<1>15. CASE UNCHANGED accessVars
  <2>1. CallsAreSound' /\ NoTakes /\ clock' = clock
    BY <1>2, <1>15 DEF CallsAreSound, NoTakes, accessVars
  <2> QED
    BY <1>1, <1>5, <1>15, <2>1 DEF accessVars
<1> QED
  BY <1>4, <1>6, <1>16, <1>17, <1>9, <1>10, <1>12, <1>13, <1>14, <1>15, TickInv DEF AccessNext

\* Every bucket is sound, and a bucket of a key means that a request with it had an answer that did not refuse it.
THEOREM AccessInvariant == AccessSpec => []AccessInv
<1>1. AccessInit => AccessInv
  BY AccessInitInv
<1>2. AccessInv /\ [AccessNext]_accessVars => AccessInv'
  BY AccessNextInv
<1> QED
  BY <1>1, <1>2, PTL DEF AccessSpec

\* Nobody is given more or fewer tokens than a table that forgets nothing gives (core/rate_limit.rs), and a string
\* that was only ever refused has no bucket (limit_gateway, api/limits/mod.rs), for any burst, any cost of a token,
\* any interval between sweeps and any number of keys, addresses and requests, whatever the database does.
THEOREM LimitsAlwaysHold == AccessSpec => []LimitsHold
<1>1. AccessInv => LimitsHold
  BY DEF AccessInv, BucketsAreSound, BucketIsSound, Level, LimitsHold, NobodyIsForgotten
<1> QED
  BY <1>1, AccessInvariant, PTL

-----------------------------------------------------------------------------
\* The keys of a user

KeysUnderWay(u) == {c \in Calls : call[c].op = "make" /\ call[c].user = u}

\* Who is about to make a key was counted when the limit was not reached.
KeysInv ==
  \A u \in Customers :
    /\ IsFiniteSet(ActiveOf(u))
    /\ Cardinality(ActiveOf(u)) + Cardinality(KeysUnderWay(u)) < MaxActive + Cardinality(Calls)

LEMMA KeysUnderWayAreFinite ==
  /\ Cardinality(Calls) \in Nat
  /\ \A u : /\ IsFiniteSet(KeysUnderWay(u))
            /\ Cardinality(KeysUnderWay(u)) \in Nat /\ Cardinality(KeysUnderWay(u)) <= Cardinality(Calls)
<1>1. IsFiniteSet(Calls) /\ \A u : KeysUnderWay(u) \subseteq Calls
  BY AccessAssumption DEF KeysUnderWay
<1> QED
  BY <1>1, FS_Subset, FS_CardinalityType

LEMMA KeysInitInv == AccessInit => KeysInv
<1> SUFFICES ASSUME AccessInit, NEW u \in Customers
             PROVE  /\ IsFiniteSet(ActiveOf(u))
                    /\ Cardinality(ActiveOf(u)) + Cardinality(KeysUnderWay(u)) < MaxActive + Cardinality(Calls)
  BY DEF KeysInv
<1>1. ActiveOf(u) = {} /\ KeysUnderWay(u) = {}
  BY DEF AccessInit, ActiveOf, KeysUnderWay, NoCall
<1>2. IsFiniteSet({}) /\ Cardinality({}) = 0
  BY FS_EmptySet
<1> QED
  BY <1>1, <1>2, KeysUnderWayAreFinite, AccessAssumption

\* Nobody is given a key, and nobody else is on the way to one.
LEMMA KeysShrink ==
  ASSUME KeysInv, NEW u \in Customers, ActiveOf(u)' \subseteq ActiveOf(u), KeysUnderWay(u)' \subseteq KeysUnderWay(u)
  PROVE  /\ IsFiniteSet(ActiveOf(u)')
         /\ Cardinality(ActiveOf(u)') + Cardinality(KeysUnderWay(u)') < MaxActive + Cardinality(Calls)
<1>1. /\ IsFiniteSet(ActiveOf(u)) /\ Cardinality(ActiveOf(u)) \in Nat
      /\ Cardinality(ActiveOf(u)) + Cardinality(KeysUnderWay(u)) < MaxActive + Cardinality(Calls)
  BY FS_CardinalityType DEF KeysInv
<1>2. /\ IsFiniteSet(ActiveOf(u)') /\ Cardinality(ActiveOf(u)') \in Nat
      /\ Cardinality(ActiveOf(u)') <= Cardinality(ActiveOf(u))
  BY <1>1, FS_Subset, FS_CardinalityType
<1>3. Cardinality(KeysUnderWay(u)') \in Nat /\ Cardinality(KeysUnderWay(u)') <= Cardinality(KeysUnderWay(u))
  BY KeysUnderWayAreFinite, FS_Subset, FS_CardinalityType
<1> QED
  BY <1>1, <1>2, <1>3, KeysUnderWayAreFinite, AccessAssumption

LEMMA KeysNextInv == AccessInv /\ KeysInv /\ [AccessNext]_accessVars => KeysInv'
<1> SUFFICES ASSUME AccessInv, KeysInv, [AccessNext]_accessVars, NEW u \in Customers
             PROVE  /\ IsFiniteSet(ActiveOf(u)')
                    /\ Cardinality(ActiveOf(u)') + Cardinality(KeysUnderWay(u)') < MaxActive + Cardinality(Calls)
  BY DEF KeysInv
<1>1. gatewayKey \in [GatewayKeys -> KeyRow] /\ call \in [Calls -> Call]
  BY DEF AccessInv, AccessTypeOK
<1>2. CASE gatewayKey' = gatewayKey /\ KeysUnderWay(u)' \subseteq KeysUnderWay(u)
  BY <1>2, KeysShrink DEF ActiveOf
<1>3. ASSUME NEW c \in Calls, NEW v \in Customers, CountsKeys(c, v)
      PROVE  /\ IsFiniteSet(ActiveOf(u)')
             /\ Cardinality(ActiveOf(u)') + Cardinality(KeysUnderWay(u)') < MaxActive + Cardinality(Calls)
  <2>1. gatewayKey' = gatewayKey /\ ActiveOf(u)' = ActiveOf(u)
    BY <1>3 DEF CountsKeys, ActiveOf
  <2>2. CASE call' = call
    BY <1>2, <2>1, <2>2 DEF KeysUnderWay
  <2>3. CASE /\ MayHoldAnother(v)
             /\ call' = [call EXCEPT ![c] = [NoCall EXCEPT !.op = "make", !.user = v]]
    <3>1. CASE u = v
      <4>1. Cardinality(ActiveOf(u)) < MaxActive
        BY <2>3, <3>1 DEF MayHoldAnother
      <4>2. IsFiniteSet(ActiveOf(u)) /\ Cardinality(ActiveOf(u)) \in Nat
        BY FS_CardinalityType DEF KeysInv
      <4>3. KeysUnderWay(u)' \subseteq Calls
        BY DEF KeysUnderWay
      <4>4. Cardinality(KeysUnderWay(u)') \in Nat /\ Cardinality(KeysUnderWay(u)') <= Cardinality(Calls)
        BY <4>3, AccessAssumption, FS_Subset, FS_CardinalityType
      <4> QED
        BY <2>1, <4>1, <4>2, <4>4, KeysUnderWayAreFinite, AccessAssumption
    <3>2. CASE u # v
      BY <1>1, <1>2, <2>1, <2>3, <3>2 DEF KeysUnderWay, NoCall
    <3> QED
      BY <3>1, <3>2
  <2> QED
    BY <1>3, <2>2, <2>3 DEF CountsKeys
<1>4. ASSUME NEW c \in Calls, NEW k \in GatewayKeys, InsertsKey(c, k)
      PROVE  /\ IsFiniteSet(ActiveOf(u)')
             /\ Cardinality(ActiveOf(u)') + Cardinality(KeysUnderWay(u)') < MaxActive + Cardinality(Calls)
  <2>1. /\ gatewayKey' = [gatewayKey EXCEPT ![k] = [state |-> "active", user |-> call[c].user]]
        /\ call' = [call EXCEPT ![c] = NoCall] /\ call[c].op = "make" /\ gatewayKey[k].state = "unmade"
    BY <1>4 DEF InsertsKey
  <2>2. KeysUnderWay(u)' = KeysUnderWay(u) \ {c}
    BY <1>1, <2>1 DEF KeysUnderWay, NoCall
  <2>3. CASE call[c].user = u
    <3>1. ActiveOf(u)' = ActiveOf(u) \cup {k} /\ c \in KeysUnderWay(u) /\ k \notin ActiveOf(u)
      BY <1>1, <2>1, <2>3 DEF ActiveOf, KeysUnderWay
    <3>2. /\ IsFiniteSet(ActiveOf(u)) /\ Cardinality(ActiveOf(u)) \in Nat
          /\ Cardinality(ActiveOf(u)) + Cardinality(KeysUnderWay(u)) < MaxActive + Cardinality(Calls)
      BY FS_CardinalityType DEF KeysInv
    <3>3. IsFiniteSet(ActiveOf(u)') /\ Cardinality(ActiveOf(u)') = Cardinality(ActiveOf(u)) + 1
      BY <3>1, <3>2, FS_AddElement
    <3>4. Cardinality(KeysUnderWay(u)') = Cardinality(KeysUnderWay(u)) - 1
      BY <2>2, <3>1, KeysUnderWayAreFinite, FS_RemoveElement
    <3> QED
      BY <3>2, <3>3, <3>4, KeysUnderWayAreFinite, AccessAssumption
  <2>4. CASE call[c].user # u
    <3>1. ActiveOf(u)' \subseteq ActiveOf(u)
      BY <1>1, <2>1, <2>4 DEF ActiveOf
    <3> QED
      BY <2>2, <3>1, KeysShrink
  <2> QED
    BY <2>3, <2>4
<1>5. ASSUME NEW v \in Customers, NEW k \in GatewayKeys, RevokesKey(v, k)
      PROVE  /\ IsFiniteSet(ActiveOf(u)')
             /\ Cardinality(ActiveOf(u)') + Cardinality(KeysUnderWay(u)') < MaxActive + Cardinality(Calls)
  <2>1. gatewayKey' \in {gatewayKey, [gatewayKey EXCEPT ![k].state = "revoked"]} /\ call' = call
    BY <1>5 DEF RevokesKey
  <2>2. ActiveOf(u)' \subseteq ActiveOf(u) /\ KeysUnderWay(u)' \subseteq KeysUnderWay(u)
    BY <1>1, <2>1 DEF ActiveOf, KeysUnderWay, KeyRow
  <2> QED
    BY <2>2, KeysShrink
<1>6. ASSUME NEW c \in Calls, NEW client \in Clients, NEW k \in Presented, Arrives(c, client, k)
      PROVE  gatewayKey' = gatewayKey /\ KeysUnderWay(u)' \subseteq KeysUnderWay(u)
  <2>1. PICK n \in BOOLEAN :
          call' \in {call, [call EXCEPT ![c] = [NoCall EXCEPT !.op = "use", !.key = k, !.client = client,
                                                              !.counted = n]]}
    BY <1>6 DEF Arrives
  <2> QED
    BY <1>1, <1>6, <2>1 DEF Arrives, KeysUnderWay, NoCall
<1>7. ASSUME NEW c \in Calls, NEW client \in Clients, ArrivesWithoutKey(c, client)
      PROVE  gatewayKey' = gatewayKey /\ KeysUnderWay(u)' \subseteq KeysUnderWay(u)
  BY <1>1, <1>7 DEF ArrivesWithoutKey, KeysUnderWay, NoCall
<1>8. ASSUME NEW c \in Calls, Authorizes(c) \/ AnswersUnjudged(c)
      PROVE  gatewayKey' = gatewayKey /\ KeysUnderWay(u)' \subseteq KeysUnderWay(u)
  <2>1. PICK stage \in {"unrefused", "refused"} : call' = [call EXCEPT ![c].stage = stage]
    BY <1>8 DEF Authorizes, AnswersUnjudged
  <2>2. \A d \in Calls : call'[d].op = call[d].op /\ call'[d].user = call[d].user
    BY <1>1, <2>1 DEF Call
  <2> QED
    BY <1>8, <2>2 DEF Authorizes, AnswersUnjudged, KeysUnderWay
<1>9. ASSUME NEW c \in Calls, Answers(c) \/ Dropped(c)
      PROVE  gatewayKey' = gatewayKey /\ KeysUnderWay(u)' \subseteq KeysUnderWay(u)
  <2>1. gatewayKey' = gatewayKey /\ call' = [call EXCEPT ![c] = NoCall]
    BY <1>9 DEF Answers, Dropped
  <2>2. \A d \in Calls : call'[d] = IF d = c THEN NoCall ELSE call[d]
    BY <1>1, <2>1
  <2> QED
    BY <2>1, <2>2 DEF KeysUnderWay, NoCall
<1>10. Tick \/ UNCHANGED accessVars => gatewayKey' = gatewayKey /\ KeysUnderWay(u)' \subseteq KeysUnderWay(u)
  BY DEF Tick, accessVars, KeysUnderWay
<1> QED
  BY <1>2, <1>3, <1>4, <1>5, <1>6, <1>7, <1>8, <1>9, <1>10 DEF AccessNext

\* However many requests for a key are under way together, a user ends with fewer active keys than
\* MAX_ACTIVE_KEYS and the requests under way (service/keys.rs counts before it inserts).
THEOREM KeysStayCapped == AccessSpec => []KeysAreCapped
<1>1. AccessInit => KeysInv
  BY KeysInitInv
<1>2. AccessInv /\ KeysInv /\ [AccessNext]_accessVars => KeysInv'
  BY KeysNextInv
<1>3. KeysInv => KeysAreCapped
  <2> SUFFICES ASSUME KeysInv, NEW u \in Customers
               PROVE  Cardinality(ActiveOf(u)) < MaxActive + Cardinality(Calls)
    BY DEF KeysAreCapped
  <2>1. /\ IsFiniteSet(ActiveOf(u)) /\ Cardinality(ActiveOf(u)) \in Nat
        /\ Cardinality(ActiveOf(u)) + Cardinality(KeysUnderWay(u)) < MaxActive + Cardinality(Calls)
    BY FS_CardinalityType DEF KeysInv
  <2> QED
    BY <2>1, KeysUnderWayAreFinite, AccessAssumption
<1> QED
  BY <1>1, <1>2, <1>3, AccessInvariant, PTL DEF AccessSpec

(***************************************************************************)
(* The model list: what is shown is current.  CatalogueInv says of every   *)
(* fetch under way that it reads documents published since it began.       *)
(***************************************************************************)
\* The copy that is published, and those to come, have not been replaced.
NotReplacedYet == \A n \in Copies : n >= docs => replaced[n] = Never

\* The copy in the cache was still published a fetch before it was kept.
CacheWasCurrent ==
  docsCache.copy # 0 =>
    /\ docsCache.at <= time
    /\ replaced[docsCache.copy] + FetchLimit >= docsCache.at

\* A fetch under way began within its limit, and the copy it reads was published since; a reader that
\* found the cache empty knows it as long as the cache stays empty.
FetchFits(q) ==
  /\ q.stage \in {"fetching", "reading"} =>
       /\ q.documented = TRUE
       /\ q.began <= time /\ time <= q.began + FetchLimit
       /\ docsCache.copy = 0 => q.early = TRUE
  /\ q.stage = "reading" => q.got # 0 /\ replaced[q.got] >= q.began

\* What ShownIsCurrent says of one request.
AnswerFits(q) ==
  q.stage = "answered" =>
    /\ q.shown \subseteq q.live
    /\ q.documented = TRUE =>
         /\ q.failed = FALSE => q.got # 0 /\ replaced[q.got] + Ttl + FetchLimit > time
         /\ q.got = 0 => q.early = TRUE

CatalogueInv ==
  /\ CatalogueTypeOK
  /\ NotReplacedYet
  /\ CacheWasCurrent
  /\ \A r \in Readers : FetchFits(reader[r]) /\ AnswerFits(reader[r])
-----------------------------------------------------------------------------
\* A request moves on, and neither the copies nor the cache change.
LEMMA ReaderMoves ==
  ASSUME CatalogueInv, NEW r \in Readers, NEW q \in Reader, FetchFits(q), AnswerFits(q),
         reader' = [reader EXCEPT ![r] = q], UNCHANGED <<time, docs, replaced, docsCache>>
  PROVE  CatalogueInv'
<1>1. \A p \in Readers : reader'[p] = IF p = r THEN q ELSE reader[p]
  BY DEF CatalogueInv, CatalogueTypeOK
<1>2. CatalogueTypeOK'
  BY DEF CatalogueInv, CatalogueTypeOK
<1>3. NotReplacedYet' /\ CacheWasCurrent'
  BY DEF CatalogueInv, NotReplacedYet, CacheWasCurrent
<1>4. ASSUME NEW p \in Readers
      PROVE  FetchFits(reader[p])' /\ AnswerFits(reader[p])'
  <2>1. FetchFits(reader'[p]) /\ AnswerFits(reader'[p])
    BY <1>1 DEF CatalogueInv
  <2> QED
    BY <2>1 DEF FetchFits, AnswerFits
<1> QED
  BY <1>2, <1>3, <1>4 DEF CatalogueInv

\* What was offered comes from the account's own list.
LEMMA OfferedIsListed ==
  ASSUME NEW r \in Readers, NEW n \in Copies, CatalogueTypeOK
  PROVE  Offered(r, n) \subseteq reader[r].live /\ Offered(r, n) \in SUBSET Models
  BY CatalogueAssumption DEF Offered, CatalogueTypeOK, Reader

\* The answer that Shown makes.
AnswerOf(r, n, failed) ==
  [reader[r] EXCEPT !.stage = "answered", !.got = n, !.failed = failed, !.shown = Offered(r, n)]

\* The fields of an answer that Shown makes.
LEMMA AnswerFields ==
  ASSUME CatalogueTypeOK, NEW r \in Readers, NEW n \in Copies, NEW failed \in BOOLEAN, Shown(r, n, failed)
  PROVE  /\ reader' = [reader EXCEPT ![r] = AnswerOf(r, n, failed)]
         /\ AnswerOf(r, n, failed) \in Reader
         /\ AnswerOf(r, n, failed).stage = "answered"
         /\ AnswerOf(r, n, failed).got = n
         /\ AnswerOf(r, n, failed).failed = failed
         /\ AnswerOf(r, n, failed).documented = reader[r].documented
         /\ AnswerOf(r, n, failed).early = reader[r].early
         /\ AnswerOf(r, n, failed).shown \subseteq AnswerOf(r, n, failed).live
<1>1. Offered(r, n) \subseteq reader[r].live /\ Offered(r, n) \in SUBSET Models
  BY OfferedIsListed
<1> HIDE DEF Copies, Offered
<1>2. reader[r] \in Reader
  BY DEF CatalogueTypeOK
<1>3. AnswerOf(r, n, failed) \in Reader
  BY <1>1, <1>2 DEF AnswerOf, Reader
<1>4. reader' = [reader EXCEPT ![r] = AnswerOf(r, n, failed)]
  BY <1>2 DEF Shown, AnswerOf, CatalogueTypeOK
<1> QED
  BY <1>1, <1>2, <1>3, <1>4 DEF AnswerOf, Reader

\* Nothing has been asked for.
LEMMA CatalogueInitInv == CatalogueInit => CatalogueInv
<1> SUFFICES ASSUME CatalogueInit PROVE CatalogueInv
  OBVIOUS
<1>1. 0 \in Copies /\ 1 \in Published /\ MaxTime \in Nat
  BY CatalogueAssumption DEF Published
<1> HIDE DEF Copies
<1>2. NoReader \in Reader /\ NoReader.stage = "idle"
  BY <1>1 DEF NoReader, Reader
<1>3. CatalogueTypeOK
  BY <1>1, <1>2 DEF CatalogueInit, CatalogueTypeOK, Never
<1>4. \A r \in Readers : reader[r].stage = "idle"
  BY <1>2 DEF CatalogueInit
<1> QED
  BY <1>3, <1>4 DEF CatalogueInit, CatalogueInv, NotReplacedYet, CacheWasCurrent, FetchFits, AnswerFits

\* Time passes as far as the fetches under way allow.
LEMMA TimePassesKeeps ==
  ASSUME CatalogueInv, TimePasses
  PROVE  CatalogueInv'
<1>1. time \in Nat /\ MaxTime \in Nat /\ FetchLimit \in Nat /\ Ttl \in Nat /\ time' = time + 1 /\ time' \in 0..MaxTime
  BY CatalogueAssumption DEF CatalogueInv, CatalogueTypeOK, TimePasses
<1>2. CatalogueTypeOK'
  BY <1>1 DEF CatalogueInv, CatalogueTypeOK, TimePasses
<1>3. NotReplacedYet' /\ CacheWasCurrent'
  BY <1>1 DEF CatalogueInv, CatalogueTypeOK, NotReplacedYet, CacheWasCurrent, TimePasses
<1>4. ASSUME NEW r \in Readers
      PROVE  FetchFits(reader[r])' /\ AnswerFits(reader[r])'
  <2>1. CanWait(r) /\ FetchFits(reader[r]) /\ AnswerFits(reader[r]) /\ reader[r].began \in Nat
    BY DEF CatalogueInv, CatalogueTypeOK, Reader, TimePasses
  <2> QED
    BY <1>1, <2>1 DEF FetchFits, AnswerFits, CanWait, TimePasses
<1> QED
  BY <1>2, <1>3, <1>4 DEF CatalogueInv

\* The documents are published anew.
LEMMA PublishesKeeps ==
  ASSUME CatalogueInv, Publishes
  PROVE  CatalogueInv'
<1>1. /\ time \in Nat /\ MaxTime \in Nat /\ FetchLimit \in Nat /\ Ttl \in Nat \ {0}
      /\ docs \in Published /\ docs \in Nat /\ time <= MaxTime
  BY CatalogueAssumption DEF CatalogueInv, CatalogueTypeOK, Published
<1>2. \A n \in Copies : n \in Nat /\ replaced[n] \in Nat /\ replaced'[n] = IF n = docs THEN time ELSE replaced[n]
  BY CatalogueAssumption DEF CatalogueInv, CatalogueTypeOK, Publishes, Never
<1>3. docs \in Copies /\ replaced[docs] = Never
  BY <1>1 DEF CatalogueInv, NotReplacedYet, Published
<1> HIDE DEF Copies
<1>4. CatalogueTypeOK'
  BY <1>1 DEF CatalogueInv, CatalogueTypeOK, Publishes, Published, Never
<1>5. NotReplacedYet'
  BY <1>1, <1>2 DEF CatalogueInv, NotReplacedYet, Publishes
<1>6. CacheWasCurrent'
  <2>1. docsCache.copy \in Copies /\ docsCache.at \in Nat
    BY DEF CatalogueInv, CatalogueTypeOK
  <2> QED
    BY <1>1, <1>2, <2>1 DEF CatalogueInv, CacheWasCurrent, Publishes
<1>7. ASSUME NEW r \in Readers
      PROVE  FetchFits(reader[r])' /\ AnswerFits(reader[r])'
  <2>1. FetchFits(reader[r]) /\ AnswerFits(reader[r]) /\ reader[r].began \in Nat /\ reader[r].got \in Copies
    BY DEF CatalogueInv, CatalogueTypeOK, Reader
  <2> QED
    BY <1>1, <1>2, <2>1 DEF FetchFits, AnswerFits, Publishes
<1> QED
  BY <1>4, <1>5, <1>6, <1>7 DEF CatalogueInv

\* The account is asked and lists its models.
LEMMA ListingKeeps ==
  ASSUME CatalogueInv, NEW r \in Readers,
         \/ \E documented \in BOOLEAN : AsksAccount(r, documented)
         \/ \E list \in Lists : AccountLists(r, list)
         \/ AccountFails(r)
         \/ Answered(r)
  PROVE  CatalogueInv'
<1>1. reader[r] \in Reader /\ MaxTime \in Nat /\ 0 \in Copies
  BY CatalogueAssumption DEF CatalogueInv, CatalogueTypeOK
<1>2. NoReader \in Reader /\ NoReader.stage = "idle"
  BY <1>1 DEF NoReader, Reader
<1>3. ASSUME NEW documented \in BOOLEAN, AsksAccount(r, documented)
      PROVE  CatalogueInv'
  <2> DEFINE q == [NoReader EXCEPT !.stage = "asking", !.documented = documented]
  <2>1. q \in Reader /\ q.stage = "asking"
    BY <1>2 DEF Reader
  <2>2. FetchFits(q) /\ AnswerFits(q)
    BY <2>1 DEF FetchFits, AnswerFits
  <2>3. reader' = [reader EXCEPT ![r] = q] /\ UNCHANGED <<time, docs, replaced, docsCache>>
    BY <1>3 DEF AsksAccount
  <2> QED
    BY <2>1, <2>2, <2>3, ReaderMoves
<1>4. ASSUME NEW list \in Lists, AccountLists(r, list)
      PROVE  CatalogueInv'
  <2> DEFINE q == [reader[r] EXCEPT !.stage = "listed", !.live = list]
  <2>1. list \in SUBSET Models
    BY CatalogueAssumption
  <2>2. q \in Reader /\ q.stage = "listed"
    BY <1>1, <2>1 DEF Reader
  <2>3. FetchFits(q) /\ AnswerFits(q)
    BY <2>2 DEF FetchFits, AnswerFits
  <2>4. reader' = [reader EXCEPT ![r] = q] /\ UNCHANGED <<time, docs, replaced, docsCache>>
    BY <1>4 DEF AccountLists, CatalogueInv, CatalogueTypeOK
  <2> QED
    BY <2>2, <2>3, <2>4, ReaderMoves
<1>5. ASSUME AccountFails(r) \/ Answered(r)
      PROVE  CatalogueInv'
  <2>1. FetchFits(NoReader) /\ AnswerFits(NoReader)
    BY <1>2 DEF FetchFits, AnswerFits
  <2>2. reader' = [reader EXCEPT ![r] = NoReader] /\ UNCHANGED <<time, docs, replaced, docsCache>>
    BY <1>5 DEF AccountFails, Answered
  <2> QED
    BY <1>2, <2>1, <2>2, ReaderMoves
<1> QED
  BY <1>3, <1>4, <1>5

\* What a copy was read for: numbers the proofs below need.
LEMMA CatalogueNumbers ==
  ASSUME CatalogueInv
  PROVE  /\ time \in Nat /\ time <= MaxTime /\ MaxTime \in Nat
         /\ FetchLimit \in Nat /\ Ttl \in Nat \ {0}
         /\ docs \in Copies /\ docs # 0 /\ docs \in Nat
         /\ docsCache.at \in Nat /\ docsCache.copy \in Copies
         /\ \A n \in Copies : replaced[n] \in Nat
         /\ \A r \in Readers : reader[r] \in Reader /\ reader[r].began \in Nat /\ reader[r].got \in Copies
  BY CatalogueAssumption DEF CatalogueInv, CatalogueTypeOK, Published, Never, Reader

\* A copy younger than its time to live is shown; else it is fetched.
LEMMA LooksInCacheKeeps ==
  ASSUME CatalogueInv, NEW r \in Readers, LooksInCache(r)
  PROVE  CatalogueInv'
<1>1. CatalogueTypeOK /\ reader[r].documented = TRUE /\ UNCHANGED <<time, docs, replaced, docsCache>>
  BY CatalogueNumbers DEF CatalogueInv, LooksInCache, Reader
<1>2. CASE Fresh
  <2> DEFINE n == docsCache.copy
             q == AnswerOf(r, n, FALSE)
  <2>1. Shown(r, n, FALSE) /\ n \in Copies
    BY <1>2, CatalogueNumbers DEF LooksInCache
  <2>2. n # 0 /\ replaced[n] + Ttl + FetchLimit > time
    BY <1>2, CatalogueNumbers DEF Fresh, CatalogueInv, CacheWasCurrent
  <2>3. /\ reader' = [reader EXCEPT ![r] = q] /\ q \in Reader
        /\ q.stage = "answered" /\ q.got = n /\ q.shown \subseteq q.live
    BY <1>1, <2>1, AnswerFields
  <2> HIDE DEF q, n
  <2>4. FetchFits(q) /\ AnswerFits(q)
    BY <2>2, <2>3 DEF FetchFits, AnswerFits
  <2> QED
    BY <1>1, <2>3, <2>4, ReaderMoves
<1>3. CASE ~Fresh
  <2> DEFINE q == [reader[r] EXCEPT !.stage = "fetching", !.began = time, !.early = (docsCache.copy = 0)]
  <2>1. time \in 0..MaxTime /\ reader[r] \in Reader /\ time <= time + FetchLimit
    BY CatalogueNumbers
  <2>2. q \in Reader
    BY <2>1 DEF Reader
  <2>3. q.stage = "fetching" /\ q.began = time /\ q.documented = reader[r].documented
    BY <2>1 DEF Reader
  <2>4. docsCache.copy = 0 => q.early = TRUE
    BY <2>1 DEF Reader
  <2>5. reader' = [reader EXCEPT ![r] = q]
    BY <1>3 DEF LooksInCache, CatalogueInv, CatalogueTypeOK
  <2> HIDE DEF q
  <2>6. FetchFits(q) /\ AnswerFits(q)
    BY <1>1, <2>1, <2>3, <2>4 DEF FetchFits, AnswerFits
  <2> QED
    BY <1>1, <2>2, <2>5, <2>6, ReaderMoves
<1> QED
  BY <1>2, <1>3

\* The documents as they are published at that moment are on their way.
LEMMA SendsDocsKeeps ==
  ASSUME CatalogueInv, NEW r \in Readers, SendsDocs(r)
  PROVE  CatalogueInv'
<1> DEFINE q == [reader[r] EXCEPT !.stage = "reading", !.got = docs]
<1>1. docs \in Copies /\ docs # 0 /\ reader[r] \in Reader
  BY CatalogueNumbers
<1>2. q \in Reader
  BY <1>1 DEF Reader
<1>3. /\ q.stage = "reading" /\ q.got = docs /\ q.began = reader[r].began
      /\ q.documented = reader[r].documented /\ q.early = reader[r].early
  BY <1>1 DEF Reader
<1>4. reader' = [reader EXCEPT ![r] = q] /\ UNCHANGED <<time, docs, replaced, docsCache>>
  BY DEF SendsDocs, CatalogueInv, CatalogueTypeOK
<1>5. replaced[docs] = Never /\ docs >= docs
  BY CatalogueNumbers DEF CatalogueInv, NotReplacedYet
<1>6. reader[r].stage = "fetching" /\ FetchFits(reader[r])
  BY DEF SendsDocs, CatalogueInv
<1> HIDE DEF q, Copies
<1>7. FetchFits(q) /\ AnswerFits(q)
  BY <1>1, <1>3, <1>5, <1>6, CatalogueNumbers DEF FetchFits, AnswerFits, Never
<1> QED
  BY <1>2, <1>4, <1>7, ReaderMoves

\* A fetch that fails shows the copy of the cache, if there is one.
LEMMA FetchFailsKeeps ==
  ASSUME CatalogueInv, NEW r \in Readers, FetchFails(r)
  PROVE  CatalogueInv'
<1> DEFINE n == docsCache.copy
           q == AnswerOf(r, n, TRUE)
<1>1. CatalogueTypeOK /\ Shown(r, n, TRUE) /\ n \in Copies /\ UNCHANGED <<time, docs, replaced, docsCache>>
  BY CatalogueNumbers DEF CatalogueInv, FetchFails, Fallback
<1>2. /\ reader' = [reader EXCEPT ![r] = q] /\ q \in Reader
      /\ q.stage = "answered" /\ q.got = n /\ q.failed = TRUE /\ q.early = reader[r].early
      /\ q.shown \subseteq q.live
  BY <1>1, AnswerFields
<1>3. n = 0 => reader[r].early = TRUE
  BY DEF FetchFails, CatalogueInv, FetchFits
<1> HIDE DEF q, n
<1>4. FetchFits(q) /\ AnswerFits(q)
  BY <1>2, <1>3 DEF FetchFits, AnswerFits
<1> QED
  BY <1>1, <1>2, <1>4, ReaderMoves

\* A provider that lists its own models needs no documents.
LEMMA KnowsItselfKeeps ==
  ASSUME CatalogueInv, NEW r \in Readers, KnowsItself(r)
  PROVE  CatalogueInv'
<1> DEFINE q == AnswerOf(r, 0, FALSE)
<1>1. CatalogueTypeOK /\ Shown(r, 0, FALSE) /\ 0 \in Copies /\ UNCHANGED <<time, docs, replaced, docsCache>>
  BY CatalogueAssumption DEF CatalogueInv, KnowsItself
<1>2. /\ reader' = [reader EXCEPT ![r] = q] /\ q \in Reader
      /\ q.stage = "answered" /\ q.documented = reader[r].documented /\ q.shown \subseteq q.live
  BY <1>1, AnswerFields
<1>3. reader[r].documented = FALSE
  BY CatalogueNumbers DEF KnowsItself, Reader
<1> HIDE DEF q
<1>4. FetchFits(q) /\ AnswerFits(q)
  BY <1>2, <1>3 DEF FetchFits, AnswerFits
<1> QED
  BY <1>1, <1>2, <1>4, ReaderMoves

\* The copy that is kept was published when its fetch began, or later.
LEMMA KeepsDocsKeeps ==
  ASSUME CatalogueInv, NEW r \in Readers, KeepsDocs(r)
  PROVE  CatalogueInv'
<1> DEFINE n == reader[r].got
           q == AnswerOf(r, n, FALSE)
<1>1. /\ CatalogueTypeOK /\ Shown(r, n, FALSE) /\ n \in Copies /\ UNCHANGED <<time, docs, replaced>>
      /\ docsCache' = [at |-> time, copy |-> n]
  BY CatalogueNumbers DEF CatalogueInv, KeepsDocs
<1>2. /\ reader' = [reader EXCEPT ![r] = q] /\ q \in Reader
      /\ q.stage = "answered" /\ q.got = n /\ q.shown \subseteq q.live
  BY <1>1, AnswerFields
<1>3. n # 0 /\ replaced[n] + FetchLimit >= time
  <2>1. reader[r].stage = "reading" /\ FetchFits(reader[r])
    BY DEF KeepsDocs, CatalogueInv
  <2>2. n # 0 /\ replaced[n] >= reader[r].began /\ time <= reader[r].began + FetchLimit
    BY <2>1 DEF FetchFits
  <2>3. n \in Copies /\ replaced[n] \in Nat /\ reader[r].began \in Nat /\ FetchLimit \in Nat /\ time \in Nat
    BY CatalogueNumbers
  <2> HIDE DEF n
  <2> QED
    BY <2>2, <2>3
<1>4. replaced[n] + Ttl + FetchLimit > time
  BY <1>1, <1>3, CatalogueNumbers
<1> HIDE DEF q, n
<1>5. CatalogueTypeOK'
  BY <1>1, <1>2, CatalogueNumbers DEF CatalogueTypeOK
<1>6. NotReplacedYet' /\ CacheWasCurrent'
  BY <1>1, <1>3, CatalogueNumbers DEF CatalogueInv, NotReplacedYet, CacheWasCurrent
<1>7. ASSUME NEW p \in Readers
      PROVE  FetchFits(reader[p])' /\ AnswerFits(reader[p])'
  <2>1. CASE p = r
    <3>1. reader'[p] = q
      BY <1>2, <2>1 DEF CatalogueInv, CatalogueTypeOK
    <3> QED
      BY <1>1, <1>2, <1>3, <1>4, <3>1 DEF FetchFits, AnswerFits
  <2>2. CASE p # r
    <3>1. reader'[p] = reader[p]
      BY <1>2, <2>2
    <3>2. FetchFits(reader[p]) /\ AnswerFits(reader[p])
      BY DEF CatalogueInv
    <3> QED
      BY <1>1, <1>3, <3>1, <3>2 DEF FetchFits, AnswerFits
  <2> QED
    BY <2>1, <2>2
<1> QED
  BY <1>5, <1>6, <1>7 DEF CatalogueInv

\* Every step keeps CatalogueInv.
LEMMA CatalogueNextInv == CatalogueInv /\ [CatalogueNext]_catalogueVars => CatalogueInv'
<1> SUFFICES ASSUME CatalogueInv, [CatalogueNext]_catalogueVars PROVE CatalogueInv'
  OBVIOUS
<1>1. CASE TimePasses
  BY <1>1, TimePassesKeeps
<1>2. CASE Publishes
  BY <1>2, PublishesKeeps
<1>3. ASSUME NEW r \in Readers,
             \/ \E documented \in BOOLEAN : AsksAccount(r, documented)
             \/ \E list \in Lists : AccountLists(r, list)
             \/ AccountFails(r)
             \/ Answered(r)
      PROVE  CatalogueInv'
  BY <1>3, ListingKeeps
<1>4. ASSUME NEW r \in Readers,
             \/ LooksInCache(r) \/ SendsDocs(r) \/ KeepsDocs(r) \/ FetchFails(r) \/ KnowsItself(r)
      PROVE  CatalogueInv'
  BY <1>4, LooksInCacheKeeps, SendsDocsKeeps, KeepsDocsKeeps, FetchFailsKeeps, KnowsItselfKeeps
<1>5. CASE UNCHANGED catalogueVars
  BY <1>5 DEF catalogueVars, CatalogueInv, CatalogueTypeOK, NotReplacedYet, CacheWasCurrent,
              FetchFits, AnswerFits
<1> QED
  BY <1>1, <1>2, <1>3, <1>4, <1>5 DEF CatalogueNext

\* The model list, for any models, copies, readers and times: what the cache holds was published when it
\* was fetched (catalogue.rs).
THEOREM CatalogueInvariant == CatalogueSpec => []CatalogueInv
<1>1. CatalogueInit => CatalogueInv
  BY CatalogueInitInv
<1>2. CatalogueInv /\ [CatalogueNext]_catalogueVars => CatalogueInv'
  BY CatalogueNextInv
<1> QED
  BY <1>1, <1>2, PTL DEF CatalogueSpec

\* A list that is shown has models the account listed, from documents that were current a time to live and
\* a fetch ago at most, or from none while nobody has fetched any (catalogue.rs).
THEOREM ShownStaysCurrent == CatalogueSpec => []ShownIsCurrent
<1>1. CatalogueInv => ShownIsCurrent
  <2> SUFFICES ASSUME CatalogueInv, NEW r \in Readers, reader[r].stage = "answered"
               PROVE  /\ reader[r].shown \subseteq reader[r].live
                      /\ reader[r].documented =>
                           /\ ~reader[r].failed => reader[r].got # 0 /\ replaced[reader[r].got] + Ttl + FetchLimit > time
                           /\ reader[r].got = 0 => reader[r].early
    BY DEF ShownIsCurrent
  <2>1. reader[r].documented \in BOOLEAN /\ reader[r].failed \in BOOLEAN /\ reader[r].early \in BOOLEAN
    BY CatalogueNumbers DEF Reader
  <2>2. AnswerFits(reader[r])
    BY DEF CatalogueInv
  <2> QED
    BY <2>1, <2>2 DEF AnswerFits
<1> QED
  BY <1>1, CatalogueInvariant, PTL

(***************************************************************************)
(* The five together, of which one moves in a behaviour.                   *)
(***************************************************************************)
\* A step of Access is a step of each component, or leaves it alone.
LEMMA AllStepsAreTheirs ==
  [AllNext]_allVars => /\ [Next]_vars
                       /\ [SessionsNext]_sessionsVars
                       /\ [StaffNext]_staffVars
                       /\ [AccessNext]_accessVars
                       /\ [CatalogueNext]_catalogueVars
  BY DEF AllNext, allVars

\* Access implements each of its components: alone or beside the others, it behaves as its own specification.
THEOREM ComponentsKeepApart ==
  AllSpec => Spec /\ SessionsSpec /\ StaffSpec /\ AccessSpec /\ CatalogueSpec
<1>1. AllInit => Init /\ SessionsInit /\ StaffInit /\ AccessInit /\ CatalogueInit
  BY DEF AllInit
<1> QED
  BY <1>1, AllStepsAreTheirs, PTL DEF AllSpec, Spec, SessionsSpec, StaffSpec, AccessSpec, CatalogueSpec

\* The types of the five components, by the inductive invariant of each.
THEOREM AllTypesHold == AllSpec => []AllTypesOK
<1>1. OrgInv => TypeOK
  BY DEF OrgInv, TypeOK, DefaultsFit
<1>2. SessionsInv => SessionsTypeOK
  BY DEF SessionsInv
<1>3. StaffInv => StaffTypeOK
  BY DEF StaffInv
<1>4. AccessInv => AccessTypeOK
  BY DEF AccessInv
<1>5. CatalogueInv => CatalogueTypeOK
  BY DEF CatalogueInv
<1>6. TypeOK /\ SessionsTypeOK /\ StaffTypeOK /\ AccessTypeOK /\ CatalogueTypeOK => AllTypesOK
  BY DEF AllTypesOK
<1> QED
  BY <1>1, <1>2, <1>3, <1>4, <1>5, <1>6, ComponentsKeepApart, OrgInvariant, SessionsInvariant, StaffInvariant,
     AccessInvariant, CatalogueInvariant, PTL
=============================================================================
