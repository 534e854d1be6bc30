---------------------------- MODULE Organizations ----------------------------
(***************************************************************************)
(* Organizations, their members, the accounts their members share, and the *)
(* organization each user has chosen as default (api/organizations).       *)
(*                                                                         *)
(* A handler is one transaction.  Those whose every read is under a row    *)
(* lock they keep are one action here, enabled while the rows they lock    *)
(* are free.  The others are taken statement by statement: sharing an      *)
(* account, and the three handlers that make an organization the default   *)
(* (the membership they rely on is read without a lock).  What a           *)
(* transaction has written is seen by others when it commits.              *)
(***************************************************************************)
EXTENDS Naturals, FiniteSets

CONSTANTS
  Users,
  Orgs,         \* ids of organizations, taken again once nothing refers to them
  Connections,  \* ids of connected accounts
  Workers       \* handlers running at the same time

ASSUME OrganizationsAssumption ==
  /\ IsFiniteSet(Users) /\ IsFiniteSet(Orgs) /\ IsFiniteSet(Workers)
  /\ "nobody" \notin Users

VARIABLES
  live,     \* organizations that exist
  role,     \* organization_memberships: role[o][u]
  default,  \* the memberships of each user that are flagged is_default
  owner,    \* agent_connections.user_id of the connected ones
  shares,   \* organization_agents
  task      \* what each handler is doing

vars == <<live, role, default, owner, shares, task>>

\* "pending" is a member who has not accepted; an owner is always accepted.
Roles == {"none", "pending", "member", "owner"}
Accepted == {"member", "owner"}

Share == [org : Orgs, conn : Connections, sharer : Users]

\* op create, accept, choose: the callers of make_default_organization, which has cleared
\* the flags of `cleared` and set the new one if `set`; `saw` is history: the membership was
\* there when it was checked.  op share: holds the membership and
\* the account's row.
Task ==
  [op : {"none", "create", "accept", "choose", "share"},
   user : Users \cup {"nobody"}, org : Orgs \cup {"nobody"}, conn : Connections \cup {"nobody"},
   stage : {"begun", "member", "cleared", "set", "tripped"},
   cleared : SUBSET Orgs, set : BOOLEAN, saw : BOOLEAN]

NoTask ==
  [op |-> "none", user |-> "nobody", org |-> "nobody", conn |-> "nobody",
   stage |-> "begun", cleared |-> {}, set |-> FALSE, saw |-> FALSE]

Init ==
  /\ live = {}
  /\ role = [o \in Orgs |-> [u \in Users |-> "none"]]
  /\ default = [u \in Users |-> {}]
  /\ owner = [c \in Connections |-> "nobody"]
  /\ shares = {}
  /\ task = [w \in Workers |-> NoTask]

-----------------------------------------------------------------------------
\* Locks

Making == {"create", "accept", "choose"}

\* The membership row of u in o is locked by w's transaction.
Holds(w, u, o) ==
  LET t == task[w] IN
  /\ t.user = u
  /\ \/ t.op = "accept" /\ t.org = o
     \/ t.op = "share" /\ t.org = o
     \/ t.op = "choose" /\ t.set /\ t.org = o
     \/ o \in t.cleared
RowFree(u, o) == \A w \in Workers : ~Holds(w, u, o)

ConnectionFree_unlocked(c) == TRUE
\* share_agent reads the account FOR UPDATE.
ConnectionFree(c) == \A w \in Workers : ~(task[w].op = "share" /\ task[w].conn = c)

AdvisoryFree_never(w) == TRUE
\* pg_advisory_xact_lock('organization-default:' || user)
AdvisoryFree(w) ==
  \A v \in Workers \ {w} :
    ~(task[v].op \in Making /\ task[v].user = task[w].user /\ task[v].stage # "begun")

Unchanged_rows == UNCHANGED <<live, role, default, owner, shares>>
Begin(w, t) == task[w].op = "none" /\ task' = [task EXCEPT ![w] = t]

\* A membership goes away and takes its flag and the accounts shared through it along.
Unlinked(u, o) == {s \in shares : ~(s.org = o /\ s.sharer = u)}
MembershipEnds(u, o) ==
  /\ role' = [role EXCEPT ![o][u] = "none"]
  /\ default' = [default EXCEPT ![u] = @ \ {o}]
  /\ shares' = Unlinked(u, o)
  /\ UNCHANGED <<live, owner, task>>

-----------------------------------------------------------------------------
\* make_default_organization and its three callers

\* create_organization: the new rows are its own until it commits.
CreateOrganization(w, u, o) ==
  /\ o \notin live /\ \A v \in Workers : task[v].org # o
  /\ Begin(w, [NoTask EXCEPT !.op = "create", !.user = u, !.org = o])
  /\ UNCHANGED <<live, role, default, owner, shares>>

\* accept_invitation
AcceptInvitation(w, u, o) ==
  /\ role[o][u] = "pending" /\ RowFree(u, o)
  /\ Begin(w, [NoTask EXCEPT !.op = "accept", !.user = u, !.org = o])
  /\ Unchanged_rows

\* set_default_organization
SetDefaultOrganization(w, u, o) ==
  /\ o \in live
  /\ Begin(w, [NoTask EXCEPT !.op = "choose", !.user = u, !.org = o])
  /\ Unchanged_rows

IsMember_any(t) == TRUE
\* The transaction sees the membership it has written itself.
IsMember(t) == t.op = "choose" => role[t.org][t.user] \in Accepted

ChecksMember(w) ==
  LET t == task[w] IN
  /\ t.op \in Making /\ t.stage = "begun"
  /\ AdvisoryFree(w)
  /\ task' = [task EXCEPT ![w] =
       IF IsMember(t)
         THEN [t EXCEPT !.stage = "member", !.saw = role[t.org][t.user] \in Accepted]
         ELSE NoTask]
  /\ Unchanged_rows

ClearsOthers(w) ==
  /\ task[w].op \in Making /\ task[w].stage = "member"
  /\ LET others == default[task[w].user] \ {task[w].org} IN
     /\ \A o \in others : RowFree(task[w].user, o)
     /\ task' = [task EXCEPT ![w].stage = "cleared", ![w].cleared = others]
  /\ Unchanged_rows

CanBeDefault_invited(t) == t.op = "choose" => role[t.org][t.user] # "none"
\* The membership is looked for again: it was read without a lock.
CanBeDefault(t) == t.op = "choose" => role[t.org][t.user] \in Accepted

\* The one-default-per-user index refuses a second flag, of a committed row or, once it
\* commits, of another transaction's.
SetsDefault(w) ==
  LET t == task[w]
      sets == CanBeDefault(t) /\ t.org \notin default[t.user] IN
  /\ t.op \in Making /\ t.stage = "cleared"
  /\ t.op = "choose" /\ CanBeDefault(t) => RowFree(t.user, t.org)
  /\ sets => \A v \in Workers \ {w} : ~(task[v].user = t.user /\ task[v].set)
  /\ task' = [task EXCEPT ![w] =
       IF sets /\ default[t.user] \ (t.cleared \cup {t.org}) # {}
         THEN [NoTask EXCEPT !.op = t.op, !.user = t.user, !.org = t.org, !.stage = "tripped"]
         ELSE [t EXCEPT !.stage = "set", !.set = sets]]
  /\ Unchanged_rows

CommitDefault(w) ==
  LET t == task[w] IN
  /\ t.op \in Making /\ t.stage = "set"
  /\ live' = IF t.op = "create" THEN live \cup {t.org} ELSE live
  /\ role' =
       CASE t.op = "create" -> [role EXCEPT ![t.org][t.user] = "owner"]
         [] t.op = "accept" -> [role EXCEPT ![t.org][t.user] = "member"]
         [] t.op = "choose" -> role
  /\ default' = [default EXCEPT ![t.user] = (@ \ t.cleared) \cup (IF t.set THEN {t.org} ELSE {})]
  /\ task' = [task EXCEPT ![w] = NoTask]
  /\ UNCHANGED <<owner, shares>>

\* A statement fails, or the client goes away: the transaction is rolled back.
RollBack(w) ==
  /\ task[w].op # "none"
  /\ task' = [task EXCEPT ![w] = NoTask]
  /\ Unchanged_rows

-----------------------------------------------------------------------------
\* Members

\* invite_member: only the owner, and one row per user.
InviteMember(o, u) ==
  /\ o \in live /\ role[o][u] = "none"
  /\ \E w \in Users : role[o][w] = "owner" /\ RowFree(w, o)
  /\ role' = [role EXCEPT ![o][u] = "pending"]
  /\ UNCHANGED <<live, default, owner, shares, task>>

DeclineInvitation(o, u) ==
  /\ role[o][u] = "pending" /\ RowFree(u, o)
  /\ MembershipEnds(u, o)

Removable_any == {"pending", "member", "owner"}
\* remove_member: an accepted member, or an invitation that is taken back.
Removable == {"pending", "member"}

RemoveMember(o, u) ==
  /\ \E w \in Users : role[o][w] = "owner" /\ RowFree(w, o)
  /\ role[o][u] \in Removable /\ RowFree(u, o)
  /\ MembershipEnds(u, o)

LeaveOrganization(o, u) ==
  /\ role[o][u] = "member" /\ RowFree(u, o)
  /\ MembershipEnds(u, o)

\* delete_organization, which waits for every row that goes with it.
DeleteOrganization(o) ==
  /\ o \in live
  /\ \A u \in Users : role[o][u] # "none" => RowFree(u, o)
  /\ live' = live \ {o}
  /\ role' = [role EXCEPT ![o] = [u \in Users |-> "none"]]
  /\ default' = [u \in Users |-> default[u] \ {o}]
  /\ shares' = {s \in shares : s.org # o}
  /\ UNCHANGED <<owner, task>>

-----------------------------------------------------------------------------
\* Shared accounts

\* share_agent: an accepted member, an account that is theirs now.
ShareAgent(w, u, o, c) ==
  /\ role[o][u] \in Accepted /\ RowFree(u, o)
  /\ owner[c] = u /\ ConnectionFree(c)
  /\ Begin(w, [NoTask EXCEPT !.op = "share", !.user = u, !.org = o, !.conn = c])
  /\ Unchanged_rows

\* ON CONFLICT DO NOTHING; the foreign keys look for the membership and the account again.
CommitShare(w) ==
  LET t == task[w] IN
  /\ t.op = "share"
  /\ role[t.org][t.user] # "none" /\ owner[t.conn] # "nobody"
  /\ shares' =
       IF \E s \in shares : s.org = t.org /\ s.conn = t.conn THEN shares
       ELSE shares \cup {[org |-> t.org, conn |-> t.conn, sharer |-> t.user]}
  /\ task' = [task EXCEPT ![w] = NoTask]
  /\ UNCHANGED <<live, role, default, owner>>

\* unshare_agent: the account's owner, or the organization's.
UnshareAgent(u, s) ==
  /\ role[s.org][u] \in Accepted /\ RowFree(u, s.org)
  /\ ConnectionFree(s.conn)
  /\ owner[s.conn] = u \/ role[s.org][u] = "owner"
  /\ s \in shares
  /\ shares' = shares \ {s}
  /\ UNCHANGED <<live, role, default, owner, task>>

UnlinkedOnTransfer_none(c) == shares
\* The trigger on agent_connections.user_id.
UnlinkedOnTransfer(c) == {s \in shares : s.conn # c}

\* A first sign-in to the provider account; the row is a new one.
Connect(c, u) ==
  /\ owner[c] = "nobody" /\ \A w \in Workers : task[w].conn # c
  /\ owner' = [owner EXCEPT ![c] = u]
  /\ UNCHANGED <<live, role, default, shares, task>>

\* Another user signs in to the same provider account: finish_connection moves it to them.
Transfer(c, u) ==
  /\ owner[c] \in Users \ {u} /\ ConnectionFree(c)
  /\ owner' = [owner EXCEPT ![c] = u]
  /\ shares' = UnlinkedOnTransfer(c)
  /\ UNCHANGED <<live, role, default, task>>

\* The owner deletes the account; the links to it go with its row.
Disconnect(c) ==
  /\ owner[c] \in Users /\ ConnectionFree(c)
  /\ owner' = [owner EXCEPT ![c] = "nobody"]
  /\ shares' = {s \in shares : s.conn # c}
  /\ UNCHANGED <<live, role, default, task>>

Next ==
  \/ \E w \in Workers :
       \/ \E u \in Users, o \in Orgs :
            \/ CreateOrganization(w, u, o) \/ AcceptInvitation(w, u, o)
            \/ SetDefaultOrganization(w, u, o)
            \/ \E c \in Connections : ShareAgent(w, u, o, c)
       \/ ChecksMember(w) \/ ClearsOthers(w) \/ SetsDefault(w) \/ CommitDefault(w)
       \/ CommitShare(w) \/ RollBack(w)
  \/ \E o \in Orgs, u \in Users :
       \/ InviteMember(o, u) \/ DeclineInvitation(o, u) \/ RemoveMember(o, u)
       \/ LeaveOrganization(o, u)
  \/ \E o \in Orgs : DeleteOrganization(o)
  \/ \E u \in Users, s \in shares : UnshareAgent(u, s)
  \/ \E c \in Connections : Disconnect(c)
  \/ \E c \in Connections, u \in Users : Connect(c, u) \/ Transfer(c, u)

Spec == Init /\ [][Next]_vars

-----------------------------------------------------------------------------
\* Rows and handlers stay within their declared shape, only an accepted membership is
\* a default.
TypeOK ==
  /\ live \subseteq Orgs
  /\ role \in [Orgs -> [Users -> Roles]]
  /\ default \in [Users -> SUBSET Orgs]
  /\ \A u \in Users : \A o \in default[u] : role[o][u] \in Accepted
  /\ owner \in [Connections -> Users \cup {"nobody"}]
  /\ shares \subseteq Share
  /\ task \in [Workers -> Task]

\* make_default_organization: a user has at most one default, and simultaneous requests of
\* one user never run into the index that keeps it so: they "queue instead of tripping the
\* one-default-per-user index".
OneDefault ==
  /\ \A u \in Users : Cardinality(default[u]) <= 1
  /\ \A w \in Workers : task[w].stage # "tripped"

\* "Leaving it or its deletion clears that": what clears a user's default is the end of its
\* membership, the choice of another, or the choice of one whose membership ended while it
\* was being made.
DefaultIsKept ==
  [][\A u \in Users : default[u] # {} /\ default'[u] = {} =>
       \/ \A o \in default[u] : role'[o][u] = "none"
       \/ \E w \in Workers :
            /\ task[w].stage = "set" /\ task[w].op = "choose" /\ task[w].user = u
            /\ task[w].saw /\ role[task[w].org][u] \notin Accepted]_vars

\* organization_agents: every link is one that counts.  Whatever is shared, moved to another
\* user, deleted, left or removed at the same time, a linked account belongs to the user who
\* shared it, who is an accepted member of the organization.
EveryLinkCounts ==
  \A s \in shares :
    /\ owner[s.conn] = s.sharer
    /\ role[s.org][s.sharer] \in Accepted
    /\ s.org \in live

\* organization_memberships_one_owner_idx: an organization that exists has one owner at all
\* times, whoever leaves, is removed or is invited; one that does not has no members.
OneOwner ==
  \A o \in Orgs :
    IF o \in live THEN Cardinality({u \in Users : role[o][u] = "owner"}) = 1
    ELSE \A u \in Users : role[o][u] = "none"

\* The two unique indexes of organization_memberships are never run into and never do without
\* a row: one owner for an organization, one default at most for a user.
OneOwnerOneDefault == OneOwner /\ OneDefault
=============================================================================
