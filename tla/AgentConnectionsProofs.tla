------------------------ MODULE AgentConnectionsProofs ------------------------
(***************************************************************************)
(* Proofs about AgentConnections, for any users, accounts, rows and        *)
(* handlers: its types, that a provider account is one connected row, that *)
(* an account is kept, and that members are the owner's choice.            *)
(*                                                                         *)
(* What ConnTypeOK and OneConnectionPerIdentity do not say is why they last:   *)
(* ConnInv adds what each handler still knows of the rows it has read.     *)
(***************************************************************************)
EXTENDS AgentConnections, FiniteSetTheorems, TLAPS

Connected(r) == conn[r].status = "connected"
PoolOps == {"invite", "decide", "remove", "ask"}

\* finish_connection past its identity check, and from its advisory lock on.
Compared(t) == t.op = "finish" /\ t.stage \in {"checked", "owned", "locked", "stored"}
Locking(t) == t.op = "finish" /\ t.stage \in {"locked", "stored"}

\* A row has a credential when it is connected, and nothing when there is none.
RowFits(r) ==
  /\ Connected(r) <=> conn[r].ident # "none"
  /\ conn[r].status = "absent" <=> conn[r].user = "none"
  /\ conn[r].status = "absent" => conn[r] = Absent
  /\ \A u \in HubUsers : joinRequests[r][u] # "none" => Connected(r)

\* A handler has read what it goes by, and the ones that lock the connection still find its owner.
TaskFits(t) ==
  /\ t.op # "none" => t.row \in Rows
  /\ t.op = "finish" => t.ident \in Identities
  /\ t.op = "finish" /\ t.stage \in {"owned", "locked", "stored"} => t.user \in HubUsers
  /\ Locking(t) => t.target \in Rows
  /\ t.op = "finish" /\ t.stage = "stored" => conn[t.target] # Absent
  /\ t.op \in {"invite", "decide"} => Connected(t.row) /\ conn[t.row].user = t.by
  /\ t.op = "ask" => t.status = "pending" /\ (conn[t.row] = Absent \/ Connected(t.row))
  /\ t.op = "remove" => t.status = "none"
  /\ t.op = "invite" => t.status = "accepted"
  /\ t.op \in PoolOps => t.user \in HubUsers

\* From the advisory lock on, no row but the target is connected with the identity.
TargetIsIt(t) ==
  Locking(t) => \A q \in Rows : Connected(q) /\ conn[q].ident = t.ident => q = t.target

\* Row r is connected with identity i, or gone, or one that two sign-ins raced for.
StillOf(r, i) == conn[r] = Absent \/ conn[r].ident = i \/ r \in switched

\* What the identity was compared with lasts.
IdentityLasts(t) ==
  /\ Compared(t) /\ ~t.fresh => StillOf(t.row, t.ident)
  /\ Locking(t) /\ t.target # t.row => StillOf(t.target, t.ident)

ConnInv ==
  /\ conn \in [Rows -> Connection]
  /\ joinRequests \in [Rows -> [HubUsers -> RequestStatuses]]
  /\ task \in [Handlers -> Task]
  /\ switched \subseteq Rows
  /\ \A r \in Rows : RowFits(r)
  /\ \A w \in Handlers : TaskFits(task[w]) /\ TargetIsIt(task[w]) /\ IdentityLasts(task[w])
  /\ \A r, q \in Rows : Connected(r) /\ Connected(q) /\ conn[r].ident = conn[q].ident => r = q
  /\ \A w, v \in Handlers :
       Locking(task[w]) /\ Locking(task[v]) /\ task[w].ident = task[v].ident => w = v
-----------------------------------------------------------------------------
\* Steps in general

LEMMA ConnInitInv == ConnInit => ConnInv
  BY AgentConnectionsAssumption
  DEF ConnInit, ConnInv, Connection, RequestStatuses, Task, NoTask, Absent, RowFits, TaskFits, TargetIsIt,
      IdentityLasts, Compared, Locking, Connected, PoolOps

\* A handler that does nothing fits.
LEMMA NoTaskFits ==
  /\ NoTask \in Task /\ NoTask.op = "none"
  /\ TaskFits(NoTask) /\ TargetIsIt(NoTask) /\ IdentityLasts(NoTask) /\ ~Locking(NoTask)
  BY DEF NoTask, Task, RequestStatuses, TaskFits, TargetIsIt, IdentityLasts, Compared, Locking, PoolOps

\* A handler goes on, having read something, and nothing else changes.
LEMMA TaskStep ==
  ASSUME ConnInv, NEW w \in Handlers, NEW t \in Task,
         TaskFits(t), TargetIsIt(t), IdentityLasts(t),
         Locking(t) => \A v \in Others(w) : Locking(task[v]) => task[v].ident # t.ident,
         task' = [task EXCEPT ![w] = t], UNCHANGED <<conn, joinRequests, switched>>
  PROVE  ConnInv'
<1>1. task' \in [Handlers -> Task] /\ \A v \in Handlers : task'[v] = IF v = w THEN t ELSE task[v]
  BY DEF ConnInv
<1>2. \A r \in Rows : RowFits(r)'
  BY DEF ConnInv, RowFits, Connected
<1>3. \A v \in Handlers : TaskFits(task[v])' /\ TargetIsIt(task[v])' /\ IdentityLasts(task[v])'
  <2> TAKE v \in Handlers
  <2>1. TaskFits(task'[v]) /\ TargetIsIt(task'[v]) /\ IdentityLasts(task'[v])
    BY <1>1 DEF ConnInv
  <2> QED
    BY <2>1 DEF TaskFits, TargetIsIt, IdentityLasts, StillOf, Connected, Locking, Compared
<1>4. \A v, u \in Handlers :
        Locking(task[v])' /\ Locking(task[u])' /\ task'[v].ident = task'[u].ident => v = u
  <2>1. \A v \in Handlers : Locking(task[v])' <=> IF v = w THEN Locking(t) ELSE Locking(task[v])
    BY <1>1 DEF Locking
  <2> QED
    BY <1>1, <2>1 DEF ConnInv, Others
<1> QED
  BY <1>1, <1>2, <1>3, <1>4 DEF ConnInv, Connected

\* Rows keep their user, identity and credential; handlers that did this are done with it.
LEMMA QuietStep ==
  ASSUME ConnInv, conn' \in [Rows -> Connection],
         \A r \in Rows :
           /\ (conn'[r].status = "connected") <=> Connected(r)
           /\ (conn'[r].status = "absent") <=> (conn[r].status = "absent")
           /\ conn'[r].user = conn[r].user /\ conn'[r].ident = conn[r].ident
           /\ conn[r] = Absent <=> conn'[r] = Absent,
         task' \in [Handlers -> Task],
         \A v \in Handlers :
           \/ task'[v] = task[v]
           \/ task'[v].op = "none"
           \/ task'[v].op = "fail" /\ task'[v].row \in Rows,
         UNCHANGED <<joinRequests, switched>>
  PROVE  ConnInv'
<1>1. \A r \in Rows : RowFits(r)'
  BY DEF ConnInv, RowFits, Connected
<1>2. \A v \in Handlers : TaskFits(task[v])'
  BY DEF ConnInv, TaskFits, Connected, Locking, PoolOps
<1>3. \A v \in Handlers : TargetIsIt(task[v])'
  BY DEF ConnInv, TargetIsIt, Connected, Locking
<1>4. \A v \in Handlers : IdentityLasts(task[v])'
  BY DEF ConnInv, IdentityLasts, StillOf, TaskFits, Compared, Locking
<1>5. \A w, v \in Handlers :
        Locking(task[w])' /\ Locking(task[v])' /\ task'[w].ident = task'[v].ident => w = v
  BY DEF ConnInv, Locking
<1> QED
  BY <1>1, <1>2, <1>3, <1>4, <1>5 DEF ConnInv, Connected

-----------------------------------------------------------------------------
\* Steps that only read

\* A handler gives up.
LEMMA LeavesKeeps ==
  ASSUME ConnInv, NEW w \in Handlers, task' = [task EXCEPT ![w] = NoTask], UNCHANGED <<conn, joinRequests, switched>>
  PROVE  ConnInv'
  BY NoTaskFits, TaskStep

\* A handler that holds no advisory lock goes on.
LEMMA ReadsKeeps ==
  ASSUME ConnInv, NEW w \in Handlers, NEW t \in Task, ~Locking(t), TaskFits(t), IdentityLasts(t),
         task' = [task EXCEPT ![w] = t], UNCHANGED <<conn, joinRequests, switched>>
  PROVE  ConnInv'
<1>1. TargetIsIt(t)
  BY DEF TargetIsIt
<1> QED
  BY <1>1, TaskStep

LEMMA SignInKeeps ==
  ASSUME ConnInv, NEW w \in Handlers, NEW u \in Signers, NEW r \in Rows, SignIn(w, u, r)
  PROVE  ConnInv'
<1>1. PICK i \in Identities : Begin(w, [NoTask EXCEPT !.op = "finish", !.row = r, !.ident = i])
  BY DEF SignIn, Granted
<1> DEFINE t == [NoTask EXCEPT !.op = "finish", !.row = r, !.ident = i]
<1>2. t \in Task /\ ~Locking(t) /\ TaskFits(t) /\ IdentityLasts(t)
  BY DEF Task, NoTask, RequestStatuses, Locking, Compared, TaskFits, IdentityLasts, PoolOps
<1> QED
  BY <1>1, <1>2, ReadsKeeps DEF SignIn, Begin

LEMMA ChecksIdentityKeeps ==
  ASSUME ConnInv, NEW w \in Handlers, ChecksIdentity(w)
  PROVE  ConnInv'
<1> DEFINE t == [task[w] EXCEPT !.stage = "checked", !.fresh = conn[task[w].row].ident = "none"]
<1>1. CASE IdentityMatches(task[w].row, task[w].ident) /\ task' = [task EXCEPT ![w] = t]
  <2>1. task[w] \in Task /\ task[w].op = "finish" /\ task[w].stage = "begun" /\ TaskFits(task[w])
    BY DEF ConnInv, ChecksIdentity, Finishing
  <2>2. (conn[task[w].row].ident = "none") \in BOOLEAN
    OBVIOUS
  <2>3. t \in Task /\ t.op = "finish" /\ t.stage = "checked" /\ t.row = task[w].row /\ t.ident = task[w].ident
    BY <2>1, <2>2 DEF Task
  <2>4. ~Locking(t) /\ TaskFits(t)
    BY <2>1, <2>3 DEF Locking, TaskFits, PoolOps
  <2>5. IdentityLasts(t)
    BY <1>1 DEF ConnInv, ChecksIdentity, Finishing, IdentityMatches, IdentityLasts, StillOf, Compared,
                Locking, Task
  <2> QED
    BY <1>1, <2>3, <2>4, <2>5, ReadsKeeps DEF ChecksIdentity, Advances
<1>2. CASE task' = [task EXCEPT ![w] = NoTask]
  BY <1>2, LeavesKeeps DEF ChecksIdentity, Advances
<1> QED
  BY <1>1, <1>2 DEF ChecksIdentity, Advances

LEMMA ReadsOwnerKeeps ==
  ASSUME ConnInv, NEW w \in Handlers, ReadsOwner(w)
  PROVE  ConnInv'
<1> DEFINE t == [task[w] EXCEPT !.stage = "owned", !.user = conn[task[w].row].user]
<1>1. CASE conn[task[w].row] # Absent /\ task' = [task EXCEPT ![w] = t]
  <2>1. task[w] \in Task /\ task[w].row \in Rows /\ conn[task[w].row].user \in HubUsers
    BY <1>1 DEF ConnInv, ReadsOwner, Finishing, TaskFits, RowFits, Connection
  <2>2. t \in Task /\ ~Locking(t) /\ TaskFits(t)
    BY <2>1 DEF ConnInv, ReadsOwner, Finishing, Task, Locking, TaskFits, PoolOps
  <2>3. IdentityLasts(t)
    BY <2>1 DEF ConnInv, ReadsOwner, Finishing, IdentityLasts, Compared, Locking, Task
  <2> QED
    BY <1>1, <2>2, <2>3, ReadsKeeps DEF ReadsOwner, Advances
<1>2. CASE task' = [task EXCEPT ![w] = NoTask]
  BY <1>2, LeavesKeeps DEF ReadsOwner, Advances
<1> QED
  BY <1>1, <1>2 DEF ReadsOwner, Advances

LEMMA FindsDuplicateKeeps ==
  ASSUME ConnInv, NEW w \in Handlers, FindsDuplicate(w)
  PROVE  ConnInv'
<1> DEFINE found == Duplicates(task[w].row, task[w].ident)
<1>1. PICK q \in IF found = {} THEN {task[w].row} ELSE found :
        Advances(w, [task[w] EXCEPT !.stage = "locked", !.target = q])
  BY DEF FindsDuplicate
<1> DEFINE t == [task[w] EXCEPT !.stage = "locked", !.target = q]
<1>2. /\ task[w] \in Task /\ task[w].op = "finish" /\ task[w].stage = "owned"
      /\ task[w].row \in Rows /\ TaskFits(task[w]) /\ IdentityLasts(task[w])
  BY DEF ConnInv, FindsDuplicate, Finishing, TaskFits
<1>3. q \in Rows
  BY <1>2 DEF Duplicates
<1>4. t \in Task /\ Locking(t) /\ t.target = q /\ t.row = task[w].row /\ t.ident = task[w].ident
  BY <1>2, <1>3 DEF Task, Locking
<1>5. TaskFits(t)
  BY <1>2, <1>3 DEF TaskFits, Locking, Task, PoolOps
<1>6. TargetIsIt(t)
  <2> SUFFICES ASSUME NEW r \in Rows, Connected(r), conn[r].ident = task[w].ident
               PROVE  r = q
    BY <1>4 DEF TargetIsIt
  <2>1. CASE found = {}
    BY <2>1 DEF Duplicates, Connected
  <2>2. CASE found # {}
    <3>1. Connected(q) /\ conn[q].ident = task[w].ident
      BY <2>2 DEF Duplicates, Connected
    <3> QED
      BY <1>3, <3>1 DEF ConnInv
  <2> QED
    BY <2>1, <2>2
<1>7. IdentityLasts(t)
  BY <1>2, <1>4 DEF IdentityLasts, StillOf, Compared, Locking, Duplicates, Task
<1>8. \A v \in Others(w) : Locking(task[v]) => task[v].ident # t.ident
  BY <1>4 DEF FindsDuplicate, IdentityFree, Finishing, Locking
<1> QED
  BY <1>1, <1>4, <1>5, <1>6, <1>7, <1>8, TaskStep DEF Advances

LEMMA StoresCredentialKeeps ==
  ASSUME ConnInv, NEW w \in Handlers, StoresCredential(w)
  PROVE  ConnInv'
<1> DEFINE t == [task[w] EXCEPT !.stage = "stored", !.clears = Cleared(task[w]) # {}]
<1>1. CASE conn[task[w].target] # Absent /\ task' = [task EXCEPT ![w] = t]
  <2>1. task[w] \in Task /\ task[w].op = "finish" /\ task[w].stage = "locked" /\ Locking(task[w])
    BY DEF ConnInv, StoresCredential, Finishing, Locking
  <2>2. t \in Task /\ t.op = "finish" /\ t.stage = "stored"
        /\ t.row = task[w].row /\ t.ident = task[w].ident
        /\ t.target = task[w].target /\ t.user = task[w].user /\ t.fresh = task[w].fresh
    BY <2>1 DEF Task
  <2>3. TaskFits(t) /\ TargetIsIt(t) /\ IdentityLasts(t)
    BY <1>1, <2>1, <2>2 DEF ConnInv, TaskFits, TargetIsIt, IdentityLasts, Locking, Compared, PoolOps
  <2>4. \A v \in Others(w) : Locking(task[v]) => task[v].ident # t.ident
    BY <2>1, <2>2 DEF ConnInv, Others
  <2> QED
    BY <1>1, <2>2, <2>3, <2>4, TaskStep DEF StoresCredential, Advances
<1>2. CASE task' = [task EXCEPT ![w] = NoTask]
  BY <1>2, LeavesKeeps DEF StoresCredential, Advances
<1> QED
  BY <1>1, <1>2 DEF StoresCredential, Advances

\* poll_pending_connection, refresh_connection and disconnect begin.
LEMMA BeginsKeeps ==
  ASSUME ConnInv, NEW w \in Handlers, NEW u \in Signers, NEW r \in Rows,
         Poll(w, u, r) \/ Refresh(w, u, r) \/ Disconnect(w, u, r)
  PROVE  ConnInv'
<1>1. PICK t \in {[NoTask EXCEPT !.op = "fail", !.row = r], [NoTask EXCEPT !.op = "reauthorize", !.row = r],
                  [NoTask EXCEPT !.op = "disconnect", !.by = u, !.row = r]} :
        task' = [task EXCEPT ![w] = t] /\ UNCHANGED <<conn, joinRequests, switched>>
  BY DEF Poll, Refresh, Disconnect, Begin
<1>2. t \in Task /\ ~Locking(t) /\ TaskFits(t) /\ IdentityLasts(t)
  BY DEF Task, NoTask, HubUsers, RequestStatuses, Locking, Compared, TaskFits, IdentityLasts, PoolOps
<1> QED
  BY <1>1, <1>2, ReadsKeeps

\* The pool handlers begin.
LEMMA PoolBeginsKeeps ==
  ASSUME ConnInv, NEW w \in Handlers, NEW u \in Signers, NEW r \in Rows, NEW m \in Askers,
         NEW s \in {"accepted", "rejected"},
         \/ InviteMember(w, u, r, m) \/ RemoveMember(w, u, r, m)
         \/ DecideRequest(w, u, r, m, s) \/ CreateRequest(w, m, r)
  PROVE  ConnInv'
<1>1. PICK t \in {Pool("invite", u, r, m, "accepted"), Pool("remove", u, r, m, "none"),
                  Pool("decide", u, r, m, s), Pool("ask", m, r, m, "pending")} :
        /\ task' = [task EXCEPT ![w] = t] /\ UNCHANGED <<conn, joinRequests, switched>>
        /\ t.op \in {"invite", "decide"} => Owns(u, r)
        /\ t.op = "ask" => Connected(r)
  BY DEF InviteMember, RemoveMember, DecideRequest, CreateRequest, Begin, Pool, NoTask, Connected
<1>2. t \in Task /\ ~Locking(t) /\ IdentityLasts(t)
  BY DEF Task, Pool, NoTask, HubUsers, RequestStatuses, Locking, Compared, IdentityLasts
<1>3. TaskFits(t)
  BY <1>1 DEF Pool, NoTask, HubUsers, Locking, TaskFits, Owns, Connected, PoolOps
<1> QED
  BY <1>1, <1>2, <1>3, ReadsKeeps

-----------------------------------------------------------------------------
\* Steps that write

\* A prompt ends or begins: the connection keeps its user, identity and credential.
LEMMA PromptsKeep ==
  ASSUME ConnInv, NEW r \in Rows,
         \/ Expire(r)
         \/ \E w \in Handlers :
              task[w].row = r /\ (DeletesPrompt(w) \/ MarksFailed(w) \/ StartsReauthorization(w))
  PROVE  ConnInv'
<1>1. conn \in [Rows -> Connection] /\ conn[r] \in Connection /\ RowFits(r)
  BY DEF ConnInv
<1>2. PICK c \in {[conn[r] EXCEPT !.prompt = FALSE], Settled(conn[r]), Prompted(conn[r]), conn[r],
                  Settled([conn[r] EXCEPT !.prompt = FALSE])} :
        /\ conn' = [conn EXCEPT ![r] = c]
        /\ conn[r] = Absent => c = Absent
  <2>1. CASE Expire(r)
    <3>1. conn[r].prompt /\ conn' = [conn EXCEPT ![r] = Settled([conn[r] EXCEPT !.prompt = FALSE])]
      BY <2>1, <1>1 DEF Expire
    <3>2. conn[r] # Absent
      BY <3>1 DEF Absent
    <3> QED
      BY <3>1, <3>2
  <2>2. ASSUME NEW w \in Handlers, task[w].row = r, DeletesPrompt(w)
        PROVE  /\ conn' = [conn EXCEPT ![r] = [conn[r] EXCEPT !.prompt = FALSE]]
               /\ conn[r] = Absent => [conn[r] EXCEPT !.prompt = FALSE] = Absent
    <3>1. conn' = [conn EXCEPT ![r].prompt = FALSE]
      BY <2>2 DEF DeletesPrompt
    <3>2. Absent \in Connection /\ ~Absent.prompt
      BY DEF Absent, Connection
    <3>3. \A c \in Connection : ~c.prompt => [c EXCEPT !.prompt = FALSE] = c
      BY DEF Connection
    <3> QED
      BY <1>1, <3>1, <3>2, <3>3
  <2>3. ASSUME NEW w \in Handlers, task[w].row = r, MarksFailed(w)
        PROVE  /\ conn' = [conn EXCEPT ![r] = IF conn[r] = Absent THEN conn[r] ELSE Settled(conn[r])]
    BY <1>1, <2>3 DEF MarksFailed
  <2>4. ASSUME NEW w \in Handlers, task[w].row = r, StartsReauthorization(w)
        PROVE  /\ conn' = [conn EXCEPT ![r] = IF conn[r] = Absent THEN conn[r] ELSE Prompted(conn[r])]
    BY <1>1, <2>4 DEF StartsReauthorization
  <2> QED
    BY <2>1, <2>2, <2>3, <2>4
<1>3. /\ c \in Connection /\ c.user = conn[r].user /\ c.ident = conn[r].ident
      /\ c.status = "connected" <=> conn[r].status = "connected"
  BY <1>1, <1>2 DEF Connection, Settled, Prompted
<1>4. c.status = "absent" <=> conn[r].status = "absent"
  <2>1. CASE conn[r].status = "absent"
    BY <1>1, <1>2, <2>1 DEF RowFits, Absent
  <2>2. CASE conn[r].status # "absent"
    BY <1>1, <1>2, <2>2 DEF Connection, Settled, Prompted
  <2> QED
    BY <2>1, <2>2
<1>5. conn[r] = Absent <=> c = Absent
  BY <1>1, <1>2, <1>4 DEF RowFits, Absent
<1>6. /\ task' \in [Handlers -> Task] /\ UNCHANGED <<joinRequests, switched>>
      /\ \A v \in Handlers : \/ task'[v] = task[v]
                             \/ task'[v].op = "none"
                             \/ task'[v].op = "fail" /\ task'[v].row \in Rows
  <2>1. task \in [Handlers -> Task]
    BY DEF ConnInv
  <2>2. CASE Expire(r)
    BY <2>1, <2>2 DEF Expire
  <2>3. ASSUME NEW w \in Handlers, task[w].row = r, DeletesPrompt(w)
        PROVE  /\ task' \in [Handlers -> Task]
               /\ \A v \in Handlers : \/ task'[v] = task[v]
                                      \/ task'[v].op = "fail" /\ task'[v].row \in Rows
    <3> DEFINE t == [task[w] EXCEPT !.stage = "checked"]
    <3>1. t \in Task /\ t.op = task[w].op /\ t.row = r
      BY <2>1, <2>3 DEF Task
    <3>2. task' = [task EXCEPT ![w] = t] /\ t.op = "fail"
      BY <2>1, <2>3, <3>1 DEF DeletesPrompt
    <3> QED
      BY <2>1, <3>1, <3>2
  <2>4. ASSUME NEW w \in Handlers, MarksFailed(w) \/ StartsReauthorization(w)
        PROVE  /\ task' \in [Handlers -> Task]
               /\ \A v \in Handlers : task'[v] = task[v] \/ task'[v].op = "none"
    BY <2>1, <2>4, NoTaskFits DEF MarksFailed, StartsReauthorization, Ends
  <2> QED
    BY <2>2, <2>3, <2>4 DEF Expire, DeletesPrompt, MarksFailed, StartsReauthorization
<1>7. conn' \in [Rows -> Connection]
  BY <1>1, <1>2, <1>3
<1>8. \A q \in Rows :
        /\ (conn'[q].status = "connected") <=> Connected(q)
        /\ (conn'[q].status = "absent") <=> (conn[q].status = "absent")
        /\ conn'[q].user = conn[q].user /\ conn'[q].ident = conn[q].ident
        /\ conn[q] = Absent <=> conn'[q] = Absent
  BY <1>1, <1>2, <1>3, <1>4, <1>5 DEF Connected
<1> QED
  BY <1>6, <1>7, <1>8, QuietStep

\* A new row, with a handler that finishes at once if it is a key's.
LEMMA ConnectsKeeps ==
  ASSUME ConnInv, NEW u \in Signers, NEW r \in Rows,
         \/ Start(u, r)
         \/ \E w \in Handlers, i \in Identities : ConnectApiKey(w, u, r, i)
  PROVE  ConnInv'
<1>1. conn[r] = Absent /\ RowFits(r) /\ Unreferred(r)
  BY DEF Start, ConnectApiKey, ConnInv
<1>2. PICK c \in {[Absent EXCEPT !.status = "pending", !.user = u],
                  Prompted([Absent EXCEPT !.status = "pending", !.user = u])} :
        conn' = [conn EXCEPT ![r] = c] /\ joinRequests' = joinRequests /\ switched' = switched \ {r}
  BY DEF Start, ConnectApiKey
<1>3. c \in Connection /\ c.status = "pending" /\ c.user = u /\ u \in HubUsers /\ c.ident = "none" /\ u # "none"
  BY AgentConnectionsAssumption DEF Connection, Absent, Prompted, HubUsers
<1>4. conn' \in [Rows -> Connection] /\ \A q \in Rows : conn'[q] = IF q = r THEN c ELSE conn[q]
  BY <1>2, <1>3 DEF ConnInv
<1>5. /\ task' \in [Handlers -> Task]
      /\ \A v \in Handlers :
           \/ task'[v] = task[v]
           \/ /\ task'[v].op = "finish" /\ task'[v].stage = "begun"
              /\ task'[v].row \in Rows /\ task'[v].ident \in Identities
  <2>1. CASE Start(u, r)
    BY <2>1 DEF Start, ConnInv
  <2>2. ASSUME NEW w \in Handlers, NEW i \in Identities, ConnectApiKey(w, u, r, i)
        PROVE  <1>5!1 /\ <1>5!2
    <3> DEFINE t == [NoTask EXCEPT !.op = "finish", !.row = r, !.ident = i]
    <3>1. t \in Task /\ t.op = "finish" /\ t.stage = "begun" /\ t.row = r /\ t.ident = i
      BY DEF Task, NoTask, RequestStatuses
    <3>2. task' = [task EXCEPT ![w] = t] /\ task \in [Handlers -> Task]
      BY <2>2 DEF ConnectApiKey, Begin, ConnInv
    <3> QED
      BY <3>1, <3>2
  <2> QED
    BY <2>1, <2>2
<1>6. \A q \in Rows : RowFits(q)'
  <2> TAKE q \in Rows
  <2>1. CASE q = r
    <3>1. \A v \in HubUsers : joinRequests'[q][v] = "none"
      BY <1>1, <1>2, <2>1 DEF ConnInv, RowFits, Connected, Absent, RequestStatuses
    <3> QED
      BY <1>3, <1>4, <2>1, <3>1 DEF RowFits, Connected
  <2>2. CASE q # r
    BY <1>2, <1>4, <2>2 DEF ConnInv, RowFits, Connected
  <2> QED
    BY <2>1, <2>2
<1>7. \A v \in Handlers : TaskFits(task[v])'
  BY <1>1, <1>3, <1>4, <1>5 DEF ConnInv, TaskFits, Connected, Locking, Unreferred, PoolOps
<1>8. \A v \in Handlers : TargetIsIt(task[v])'
  BY <1>3, <1>4, <1>5 DEF ConnInv, TargetIsIt, Connected, Locking
<1>9. \A v \in Handlers : IdentityLasts(task[v])'
  BY <1>1, <1>2, <1>4, <1>5 DEF ConnInv, IdentityLasts, StillOf, TaskFits, Compared, Locking, Unreferred
<1>10. \A q, p \in Rows : Connected(q)' /\ Connected(p)' /\ conn'[q].ident = conn'[p].ident => q = p
  BY <1>3, <1>4 DEF ConnInv, Connected
<1>11. \A w, v \in Handlers :
         Locking(task[w])' /\ Locking(task[v])' /\ task'[w].ident = task'[v].ident => w = v
  BY <1>5 DEF ConnInv, Locking
<1> QED
  BY <1>2, <1>4, <1>5, <1>6, <1>7, <1>8, <1>9, <1>10, <1>11 DEF ConnInv

LEMMA WritesRequestKeeps ==
  ASSUME ConnInv, NEW w \in Handlers, WritesRequest(w)
  PROVE  ConnInv'
<1> DEFINE t == task[w]
<1>1. t \in Task /\ t.op \in PoolOps /\ t.row \in Rows /\ t.user \in HubUsers /\ TaskFits(t)
  BY DEF ConnInv, WritesRequest, TaskFits, PoolOps
<1>2. PICK b \in BOOLEAN : b = Writes(t, joinRequests[t.row][t.user])
  BY <1>1 DEF Writes, PoolOps
<1>3. /\ joinRequests' = [joinRequests EXCEPT ![t.row][t.user] = IF b THEN t.status ELSE @]
      /\ task' = [task EXCEPT ![w] = NoTask] /\ conn' = conn /\ switched' = switched
  BY <1>2 DEF WritesRequest, Ends
<1>4. joinRequests' \in [Rows -> [HubUsers -> RequestStatuses]]
  BY <1>1, <1>3 DEF ConnInv, Task
<1>5. b /\ t.status # "none" => Connected(t.row)
  BY <1>1, <1>2 DEF ConnInv, Writes, TaskFits, RowFits, PoolOps
<1>6. \A r \in Rows, u \in HubUsers :
        joinRequests'[r][u] = IF r = t.row /\ u = t.user /\ b THEN t.status ELSE joinRequests[r][u]
  BY <1>1, <1>3 DEF ConnInv
<1>7. \A r \in Rows : RowFits(r)'
  BY <1>3, <1>5, <1>6 DEF ConnInv, RowFits, Connected
<1>8. /\ task' \in [Handlers -> Task]
      /\ \A v \in Handlers : task'[v] = IF v = w THEN NoTask ELSE task[v]
  BY <1>3, NoTaskFits DEF ConnInv
<1>9. \A v \in Handlers : TaskFits(task[v])' /\ TargetIsIt(task[v])' /\ IdentityLasts(task[v])'
  <2> TAKE v \in Handlers
  <2>1. TaskFits(task'[v]) /\ TargetIsIt(task'[v]) /\ IdentityLasts(task'[v])
    BY <1>8, NoTaskFits DEF ConnInv
  <2> QED
    BY <1>3, <2>1 DEF TaskFits, TargetIsIt, IdentityLasts, StillOf, Connected, Locking, Compared
<1>10. \A v, u \in Handlers :
         Locking(task[v])' /\ Locking(task[u])' /\ task'[v].ident = task'[u].ident => v = u
  BY <1>8 DEF ConnInv, Locking, NoTask
<1> QED
  BY <1>3, <1>4, <1>7, <1>8, <1>9, <1>10 DEF ConnInv, Connected

\* disconnect deletes the row and its requests.
LEMMA DeletesKeeps ==
  ASSUME ConnInv, NEW w \in Handlers, Deletes(w)
  PROVE  ConnInv'
<1> DEFINE r == task[w].row
<1>1. r \in Rows /\ Deletable(r, task[w].by) \in BOOLEAN
  BY DEF ConnInv, Deletes, TaskFits, Deletable
<1>2. /\ task' = [task EXCEPT ![w] = NoTask] /\ switched' = switched
      /\ CredentialFree(r) /\ ConnectionFree(r)
  BY DEF Deletes, Ends
<1>3. CASE ~Deletable(r, task[w].by)
  BY <1>2, <1>3, LeavesKeeps DEF Deletes
<1>4. CASE Deletable(r, task[w].by)
  <2>1. /\ conn' = [conn EXCEPT ![r] = Absent]
        /\ joinRequests' = [joinRequests EXCEPT ![r] = [u \in HubUsers |-> "none"]]
    BY <1>4 DEF Deletes
  <2>2. Absent \in Connection /\ [u \in HubUsers |-> "none"] \in [HubUsers -> RequestStatuses]
    BY DEF Absent, Connection, RequestStatuses
  <2>3. /\ conn' \in [Rows -> Connection] /\ joinRequests' \in [Rows -> [HubUsers -> RequestStatuses]]
        /\ \A q \in Rows : /\ conn'[q] = IF q = r THEN Absent ELSE conn[q]
                           /\ joinRequests'[q] = IF q = r THEN [u \in HubUsers |-> "none"] ELSE joinRequests[q]
    BY <1>1, <2>1, <2>2 DEF ConnInv
  <2>4. /\ task' \in [Handlers -> Task]
        /\ \A v \in Handlers : task'[v] = IF v = w THEN NoTask ELSE task[v]
    BY <1>2, NoTaskFits DEF ConnInv
  <2>5. \A q \in Rows : RowFits(q)'
    BY <2>3 DEF ConnInv, RowFits, Connected, Absent
  <2>6. \A v \in Handlers : TaskFits(task'[v]) /\ TargetIsIt(task'[v]) /\ IdentityLasts(task'[v])
    BY <2>4, NoTaskFits DEF ConnInv
  <2>7. \A v \in Handlers : TaskFits(task[v])'
    BY <1>1, <1>2, <2>3, <2>4, <2>6
    DEF TaskFits, Connected, Locking, ConnectionFree, CredentialFree, Finishing, NoTask
  <2>8. \A v \in Handlers : TargetIsIt(task[v])'
    BY <2>3, <2>6 DEF TargetIsIt, Connected, Locking, Absent
  <2>9. \A v \in Handlers : IdentityLasts(task[v])'
    BY <1>2, <2>3, <2>6, <2>7 DEF IdentityLasts, StillOf, TaskFits, Compared, Locking
  <2>10. \A q, p \in Rows : Connected(q)' /\ Connected(p)' /\ conn'[q].ident = conn'[p].ident => q = p
    BY <2>3 DEF ConnInv, Connected, Absent
  <2>11. \A v, u \in Handlers :
           Locking(task[v])' /\ Locking(task[u])' /\ task'[v].ident = task'[u].ident => v = u
    BY <2>4 DEF ConnInv, Locking, NoTask
  <2> QED
    BY <1>2, <2>3, <2>4, <2>5, <2>7, <2>8, <2>9, <2>10, <2>11 DEF ConnInv
<1> QED
  BY <1>1, <1>3, <1>4

\* What finish_connection commits.
LEMMA CommitEffect ==
  ASSUME ConnInv, NEW w \in Handlers, CommitsConnection(w)
  PROVE  LET t == task[w]
             merged == t.target # t.row IN
         /\ t \in Task /\ t.op = "finish" /\ t.stage = "stored" /\ TaskFits(t) /\ TargetIsIt(t) /\ IdentityLasts(t)
         /\ t.row \in Rows /\ t.target \in Rows /\ t.ident \in Identities /\ t.ident # "none"
         /\ t.user \in HubUsers /\ t.user # "none"
         /\ ConnectionFree(t.target) /\ (merged => ConnectionFree(t.row) /\ CredentialFree(t.row))
         /\ conn' \in [Rows -> Connection]
         /\ \A q \in Rows :
              IF q = t.target
                THEN conn'[q].status = "connected" /\ conn'[q].user = t.user /\ conn'[q].ident = t.ident
                ELSE conn'[q] = IF merged /\ q = t.row THEN Absent ELSE conn[q]
         /\ joinRequests' \in [Rows -> [HubUsers -> RequestStatuses]]
         /\ merged => \A u \in HubUsers : joinRequests'[t.row][u] = "none"
         /\ \A u \in HubUsers :
              joinRequests'[t.target][u] = IF t.clears /\ u \in Cleared(t) THEN "none" ELSE joinRequests[t.target][u]
         /\ \A q \in Rows \ {t.row, t.target} : joinRequests'[q] = joinRequests[q]
         /\ switched' = switched \cup
              (IF t.fresh /\ conn[t.row].ident \notin {"none", t.ident} THEN {t.row, t.target} ELSE {})
         /\ task' \in [Handlers -> Task]
         /\ \A v \in Handlers : task'[v] = IF v = w THEN NoTask ELSE task[v]
<1> DEFINE t == task[w]
           merged == t.target # t.row
           row == [status |-> "connected", user |-> t.user, ident |-> t.ident,
                   prompt |-> merged /\ conn[t.target].prompt]
           gone == [u \in HubUsers |-> "none"]
           cleared == [u \in HubUsers |-> IF t.clears /\ u \in Cleared(t) THEN "none" ELSE joinRequests[t.target][u]]
           kept == [joinRequests EXCEPT ![t.target] = cleared]
<1>1. t \in Task /\ t.op = "finish" /\ t.stage = "stored" /\ TaskFits(t) /\ TargetIsIt(t) /\ IdentityLasts(t)
  BY DEF ConnInv, CommitsConnection, Finishing
<1>2. t.row \in Rows /\ t.target \in Rows /\ t.ident \in Identities /\ t.user \in HubUsers
  BY <1>1 DEF TaskFits, Locking
<1>3. t.ident # "none" /\ t.user # "none"
  BY <1>2, AgentConnectionsAssumption
<1>4. (merged /\ conn[t.target].prompt) \in BOOLEAN
  OBVIOUS
<1>5. row \in Connection /\ Absent \in Connection
  BY <1>2, <1>4 DEF Connection, Absent
<1>6. conn' = IF merged THEN [conn EXCEPT ![t.target] = row, ![t.row] = Absent]
              ELSE [conn EXCEPT ![t.target] = row]
  BY DEF CommitsConnection
<1>7. /\ conn' \in [Rows -> Connection]
      /\ \A q \in Rows : conn'[q] = IF q = t.target THEN row ELSE
                                    IF merged /\ q = t.row THEN Absent ELSE conn[q]
  BY <1>2, <1>5, <1>6 DEF ConnInv
<1>8. joinRequests' = IF merged THEN [kept EXCEPT ![t.row] = gone] ELSE kept
  BY DEF CommitsConnection
<1>9. cleared \in [HubUsers -> RequestStatuses] /\ gone \in [HubUsers -> RequestStatuses]
  BY <1>2 DEF ConnInv, RequestStatuses
<1>10. /\ joinRequests' \in [Rows -> [HubUsers -> RequestStatuses]]
       /\ \A q \in Rows : joinRequests'[q] = IF merged /\ q = t.row THEN gone ELSE
                                         IF q = t.target THEN cleared ELSE joinRequests[q]
  BY <1>2, <1>8, <1>9 DEF ConnInv
<1>11. /\ merged => \A u \in HubUsers : joinRequests'[t.row][u] = "none"
       /\ \A u \in HubUsers :
            joinRequests'[t.target][u] = IF t.clears /\ u \in Cleared(t) THEN "none" ELSE joinRequests[t.target][u]
       /\ \A q \in Rows \ {t.row, t.target} : joinRequests'[q] = joinRequests[q]
  <2>1. \A u \in HubUsers :
          gone[u] = "none" /\ cleared[u] = IF t.clears /\ u \in Cleared(t) THEN "none" ELSE joinRequests[t.target][u]
    OBVIOUS
  <2> HIDE DEF gone, cleared
  <2> QED
    BY <1>2, <1>10, <2>1
<1>12. task' \in [Handlers -> Task] /\ \A v \in Handlers : task'[v] = IF v = w THEN NoTask ELSE task[v]
  BY NoTaskFits DEF ConnInv, CommitsConnection, Ends
<1>13. ConnectionFree(t.target) /\ (merged => ConnectionFree(t.row) /\ CredentialFree(t.row))
  BY DEF CommitsConnection
<1>14. switched' = switched \cup
         (IF t.fresh /\ conn[t.row].ident \notin {"none", t.ident} THEN {t.row, t.target} ELSE {})
  BY DEF CommitsConnection
<1> QED
  BY <1>1, <1>2, <1>3, <1>7, <1>10, <1>11, <1>12, <1>13, <1>14

\* The target held the identity before, or the rows are among those two sign-ins raced for.
LEMMA CommitKeepsIdentity ==
  ASSUME ConnInv, NEW w \in Handlers, CommitsConnection(w)
  PROVE  /\ conn[task[w].target].ident \in {"none", task[w].ident} \/ task[w].target \in switched'
         /\ switched \subseteq switched' /\ switched' \subseteq Rows
<1>1. /\ task[w].op = "finish" /\ task[w].stage = "stored"
      /\ task[w].row \in Rows /\ task[w].target \in Rows
      /\ TaskFits(task[w]) /\ IdentityLasts(task[w])
      /\ switched' = switched \cup
           (IF task[w].fresh /\ conn[task[w].row].ident \notin {"none", task[w].ident}
              THEN {task[w].row, task[w].target} ELSE {})
  BY CommitEffect
<1>2. conn[task[w].target] # Absent
  BY <1>1 DEF TaskFits
<1> QED
  BY <1>1, <1>2 DEF ConnInv, IdentityLasts, StillOf, Compared, Locking

LEMMA CommitsConnectionKeeps ==
  ASSUME ConnInv, NEW w \in Handlers, CommitsConnection(w)
  PROVE  ConnInv'
<1> DEFINE t == task[w]
           merged == t.target # t.row
<1>1. /\ t.op = "finish" /\ t.stage = "stored" /\ TargetIsIt(t) /\ Locking(t)
      /\ t.row \in Rows /\ t.target \in Rows /\ t.ident # "none" /\ t.user # "none"
      /\ ConnectionFree(t.target) /\ (merged => ConnectionFree(t.row) /\ CredentialFree(t.row))
  BY CommitEffect DEF Locking
<1>2. /\ conn' \in [Rows -> Connection]
      /\ conn'[t.target].status = "connected" /\ conn'[t.target].user = t.user
      /\ conn'[t.target].ident = t.ident
      /\ \A q \in Rows \ {t.target} : conn'[q] = IF merged /\ q = t.row THEN Absent ELSE conn[q]
  BY CommitEffect, <1>1
<1>3. /\ joinRequests' \in [Rows -> [HubUsers -> RequestStatuses]]
      /\ \A q \in Rows, u \in HubUsers : joinRequests'[q][u] \in {"none", joinRequests[q][u]}
      /\ merged => \A u \in HubUsers : joinRequests'[t.row][u] = "none"
  <2>1. /\ joinRequests' \in [Rows -> [HubUsers -> RequestStatuses]]
        /\ merged => \A u \in HubUsers : joinRequests'[t.row][u] = "none"
        /\ \A u \in HubUsers : joinRequests'[t.target][u] \in {"none", joinRequests[t.target][u]}
        /\ \A q \in Rows \ {t.row, t.target} : joinRequests'[q] = joinRequests[q]
    BY CommitEffect
  <2> QED
    BY <1>1, <2>1
<1>4. task' \in [Handlers -> Task] /\ \A v \in Handlers : task'[v] = IF v = w THEN NoTask ELSE task[v]
  BY CommitEffect
<1>5. \A q \in Rows : RowFits(q)'
  <2> TAKE q \in Rows
  <2>1. CASE q = t.target
    BY <1>1, <1>2, <2>1 DEF RowFits, Connected
  <2>2. CASE q # t.target /\ merged /\ q = t.row
    <3>1. conn'[q] = Absent /\ \A u \in HubUsers : joinRequests'[q][u] = "none"
      BY <1>2, <1>3, <2>2
    <3>2. Absent.status = "absent" /\ Absent.user = "none" /\ Absent.ident = "none"
      BY DEF Absent
    <3> QED
      BY <3>1, <3>2 DEF RowFits, Connected
  <2>3. CASE q # t.target /\ ~(merged /\ q = t.row)
    BY <1>2, <1>3, <2>3 DEF ConnInv, RowFits, Connected
  <2> QED
    BY <2>1, <2>2, <2>3
<1>6. \A v \in Handlers : TaskFits(task'[v]) /\ TargetIsIt(task'[v]) /\ IdentityLasts(task'[v])
  BY <1>4, NoTaskFits DEF ConnInv
<1>7. \A v \in Handlers : Locking(task'[v]) => v # w /\ task'[v] = task[v] /\ task[v].ident # t.ident
  BY <1>1, <1>4, NoTaskFits DEF ConnInv
<1>8. \A v \in Handlers : TaskFits(task[v])'
  <2> TAKE v \in Handlers
  <2>1. /\ task'[v].op \in {"invite", "decide"} => v # w /\ task'[v] = task[v]
        /\ task'[v].op = "finish" => v # w /\ task'[v] = task[v]
    BY <1>4, NoTaskFits
  <2>2. task'[v].op \in {"invite", "decide"} =>
          task'[v].row # t.target /\ (merged => task'[v].row # t.row)
    BY <1>1, <2>1 DEF ConnectionFree
  <2>3. task'[v].op = "finish" /\ task'[v].stage = "stored" => (merged => task'[v].target # t.row)
    BY <1>1, <2>1 DEF CredentialFree, Finishing
  <2>4. conn'[t.target] # Absent
    BY <1>2 DEF Absent
  <2> QED
    BY <1>2, <1>6, <2>2, <2>3, <2>4 DEF TaskFits, Connected, Locking, PoolOps
<1>9. \A v \in Handlers : TargetIsIt(task[v])'
  <2> SUFFICES ASSUME NEW v \in Handlers, Locking(task'[v]), NEW q \in Rows,
                      conn'[q].status = "connected", conn'[q].ident = task'[v].ident
               PROVE  q = task'[v].target
    BY DEF TargetIsIt, Connected, Locking
  <2>1. q # t.target /\ ~(merged /\ q = t.row)
    BY <1>2, <1>7 DEF Absent
  <2> QED
    BY <1>2, <1>6, <2>1 DEF TargetIsIt, Connected
<1>10. \A v \in Handlers : IdentityLasts(task[v])'
  <2>1. \A r \in Rows, i \in Identities : StillOf(r, i) => StillOf(r, i)'
    <3> SUFFICES ASSUME NEW r \in Rows, NEW i \in Identities, StillOf(r, i)
                 PROVE  conn'[r] = Absent \/ conn'[r].ident = i \/ r \in switched'
      BY DEF StillOf
    <3>1. CASE r # t.target
      BY <1>2, <3>1, CommitKeepsIdentity DEF StillOf
    <3>2. CASE r = t.target
      <4>1. conn[r] # Absent /\ i # "none"
        BY <1>1, <3>2, AgentConnectionsAssumption DEF ConnInv, TaskFits
      <4> QED
        BY <1>2, <3>2, <4>1, CommitKeepsIdentity DEF StillOf
    <3> QED
      BY <3>1, <3>2
  <2>2. \A v \in Handlers : /\ Compared(task'[v]) => task'[v].row \in Rows /\ task'[v].ident \in Identities
                            /\ Locking(task'[v]) => task'[v].target \in Rows /\ task'[v].ident \in Identities
    BY <1>6 DEF TaskFits, Compared, Locking
  <2> QED
    BY <1>6, <2>1, <2>2 DEF IdentityLasts, Compared, Locking
<1>11. \A q, p \in Rows : Connected(q)' /\ Connected(p)' /\ conn'[q].ident = conn'[p].ident => q = p
  <2> SUFFICES ASSUME NEW q \in Rows, NEW p \in Rows, p # t.target, conn'[q].status = "connected",
                      conn'[p].status = "connected", conn'[q].ident = conn'[p].ident
               PROVE  q = p
    BY DEF Connected
  <2>1. conn'[p] = conn[p]
    BY <1>2 DEF Absent
  <2>2. CASE q = t.target
    BY <1>1, <1>2, <2>1, <2>2 DEF TargetIsIt, Connected
  <2>3. CASE q # t.target
    <3>1. conn'[q] = conn[q]
      BY <1>2, <2>3 DEF Absent
    <3> QED
      BY <2>1, <3>1 DEF ConnInv, Connected
  <2> QED
    BY <2>2, <2>3
<1>12. \A v, u \in Handlers :
         Locking(task[v])' /\ Locking(task[u])' /\ task'[v].ident = task'[u].ident => v = u
  BY <1>7 DEF ConnInv, Locking
<1> QED
  BY <1>2, <1>3, <1>4, <1>5, <1>8, <1>9, <1>10, <1>11, <1>12, CommitKeepsIdentity DEF ConnInv

-----------------------------------------------------------------------------
\* The invariant

LEMMA ConnNextInv == ConnInv /\ [ConnNext]_connVars => ConnInv'
<1> SUFFICES ASSUME ConnInv, [ConnNext]_connVars PROVE ConnInv'
  OBVIOUS
<1>1. ASSUME NEW w \in Handlers, NEW u \in Signers, NEW r \in Rows,
             SignIn(w, u, r) \/ Poll(w, u, r) \/ Refresh(w, u, r) \/ Disconnect(w, u, r)
      PROVE  ConnInv'
  BY <1>1, SignInKeeps, BeginsKeeps
<1>2. ASSUME NEW u \in Signers, NEW r \in Rows,
             Start(u, r) \/ \E w \in Handlers, i \in Identities : ConnectApiKey(w, u, r, i)
      PROVE  ConnInv'
  BY <1>2, ConnectsKeeps
<1>3. ASSUME NEW w \in Handlers, NEW u \in Signers, NEW r \in Rows, NEW m \in Askers,
             InviteMember(w, u, r, m) \/ RemoveMember(w, u, r, m)
      PROVE  ConnInv'
  BY <1>3, PoolBeginsKeeps
<1>4. ASSUME NEW w \in Handlers, NEW u \in Signers, NEW r \in Rows, NEW m \in Askers,
             NEW s \in {"accepted", "rejected"}, DecideRequest(w, u, r, m, s)
      PROVE  ConnInv'
  BY <1>4, PoolBeginsKeeps
<1>5. ASSUME NEW w \in Handlers, NEW r \in Rows, NEW m \in Askers, CreateRequest(w, m, r)
      PROVE  ConnInv'
  <2>1. PICK u \in Signers : TRUE
    BY AgentConnectionsAssumption
  <2> QED
    BY <1>5, <2>1, PoolBeginsKeeps
<1>6. ASSUME NEW w \in Handlers, ChecksIdentity(w) \/ ReadsOwner(w) \/ FindsDuplicate(w) \/ StoresCredential(w)
      PROVE  ConnInv'
  BY <1>6, ChecksIdentityKeeps, ReadsOwnerKeeps, FindsDuplicateKeeps, StoresCredentialKeeps
<1>7. ASSUME NEW w \in Handlers, CommitsConnection(w) \/ Deletes(w) \/ WritesRequest(w)
      PROVE  ConnInv'
  BY <1>7, CommitsConnectionKeeps, DeletesKeeps, WritesRequestKeeps
<1>8. ASSUME NEW w \in Handlers, RollBack(w)
      PROVE  ConnInv'
  BY <1>8, LeavesKeeps DEF RollBack, Advances
<1>9. ASSUME NEW w \in Handlers, DeletesPrompt(w) \/ MarksFailed(w) \/ StartsReauthorization(w)
      PROVE  ConnInv'
  <2>1. task[w].row \in Rows
    BY <1>9 DEF ConnInv, TaskFits, DeletesPrompt, MarksFailed, StartsReauthorization
  <2> QED
    BY <1>9, <2>1, PromptsKeep
<1>10. ASSUME NEW r \in Rows, Expire(r)
       PROVE  ConnInv'
  BY <1>10, PromptsKeep
<1>11. CASE UNCHANGED connVars
  BY <1>11 DEF connVars, ConnInv, RowFits, TaskFits, TargetIsIt, IdentityLasts, StillOf, Connected, Locking, Compared
<1> QED
  BY <1>1, <1>2, <1>3, <1>4, <1>5, <1>6, <1>7, <1>8, <1>9, <1>10, <1>11 DEF ConnNext

\* What every reachable state satisfies.
THEOREM ConnInvariant == ConnSpec => []ConnInv
<1>1. ConnInit => ConnInv
  BY ConnInitInv
<1>2. ConnInv /\ [ConnNext]_connVars => ConnInv'
  BY ConnNextInv
<1> QED
  BY <1>1, <1>2, PTL DEF ConnSpec

\* Rows keep their shape, and only a connected row has a credential or join requests.
THEOREM ConnectionsTyped == ConnSpec => []ConnTypeOK
<1>1. ConnInv => ConnTypeOK
  BY DEF ConnInv, RowFits, Connected, ConnTypeOK
<1> QED
  BY <1>1, ConnInvariant, PTL

\* finish_connection: a provider account is at most one connected row, however many sign-ins to it
\* finish together.
THEOREM OneRowPerAccount == ConnSpec => []OneConnectionPerIdentity
<1>1. ConnInv => OneConnectionPerIdentity
  <2> SUFFICES ASSUME ConnInv, NEW i \in Identities
               PROVE  Cardinality({r \in Rows : conn[r].status = "connected" /\ conn[r].ident = i}) <= 1
    BY DEF OneConnectionPerIdentity
  <2> DEFINE S == {r \in Rows : conn[r].status = "connected" /\ conn[r].ident = i}
  <2>1. CASE S = {}
    BY <2>1, FS_EmptySet
  <2>2. CASE S # {}
    <3>1. PICK r \in S : TRUE
      BY <2>2
    <3>2. S = {r}
      BY <3>1 DEF ConnInv, Connected
    <3> QED
      BY <3>2, FS_Singleton
  <2> QED
    BY <2>1, <2>2
<1> QED
  BY <1>1, ConnInvariant, PTL

-----------------------------------------------------------------------------
\* What a step may do to a connected account, and to its members

\* Steps other than a commit, a deletion and the writing of a request.
QuietNext ==
  \/ \E u \in Signers, r \in Rows : Start(u, r)
  \/ \E r \in Rows : Expire(r)
  \/ \E w \in Handlers :
       \/ \E u \in Signers, r \in Rows :
            \/ SignIn(w, u, r) \/ Poll(w, u, r) \/ Refresh(w, u, r) \/ Disconnect(w, u, r)
            \/ \E i \in Identities : ConnectApiKey(w, u, r, i)
            \/ \E m \in Askers :
                 \/ InviteMember(w, u, r, m) \/ RemoveMember(w, u, r, m)
                 \/ \E s \in {"accepted", "rejected"} : DecideRequest(w, u, r, m, s)
       \/ \E m \in Askers, r \in Rows : CreateRequest(w, m, r)
       \/ ChecksIdentity(w) \/ ReadsOwner(w) \/ FindsDuplicate(w)
       \/ StoresCredential(w) \/ RollBack(w)
       \/ DeletesPrompt(w) \/ MarksFailed(w) \/ StartsReauthorization(w)

LEMMA NextIsOneOf ==
  [ConnNext]_connVars => \/ UNCHANGED connVars
                         \/ QuietNext
                         \/ \E w \in Handlers : CommitsConnection(w) \/ Deletes(w) \/ WritesRequest(w)
  BY DEF ConnNext, QuietNext

\* Such a step leaves the requests alone, and what it does to the connections is one of these.
LEMMA QuietEffect ==
  ASSUME QuietNext
  PROVE  /\ joinRequests' = joinRequests
         /\ \/ conn' = conn
            \/ \E u \in Signers, q \in Rows :
                 Start(u, q) \/ \E w \in Handlers, i \in Identities : ConnectApiKey(w, u, q, i)
            \/ \E q \in Rows : Expire(q)
            \/ \E w \in Handlers : DeletesPrompt(w) \/ MarksFailed(w) \/ StartsReauthorization(w)
<1>1. ASSUME NEW u \in Signers, NEW r \in Rows, Start(u, r)
      PROVE  joinRequests' = joinRequests
  BY <1>1 DEF Start
<1>2. ASSUME NEW r \in Rows, Expire(r)
      PROVE  joinRequests' = joinRequests
  BY <1>2 DEF Expire
<1>3. ASSUME NEW w \in Handlers, NEW u \in Signers, NEW r \in Rows, NEW i \in Identities, ConnectApiKey(w, u, r, i)
      PROVE  joinRequests' = joinRequests
  BY <1>3 DEF ConnectApiKey
<1>4. ASSUME NEW w \in Handlers, NEW u \in Signers, NEW r \in Rows,
             SignIn(w, u, r) \/ Poll(w, u, r) \/ Refresh(w, u, r) \/ Disconnect(w, u, r)
      PROVE  joinRequests' = joinRequests /\ conn' = conn
  BY <1>4 DEF SignIn, Poll, Refresh, Disconnect
<1>5. ASSUME NEW w \in Handlers, NEW u \in Signers, NEW r \in Rows, NEW m \in Askers,
             \/ InviteMember(w, u, r, m) \/ RemoveMember(w, u, r, m)
             \/ \E s \in {"accepted", "rejected"} : DecideRequest(w, u, r, m, s)
      PROVE  joinRequests' = joinRequests /\ conn' = conn
  BY <1>5 DEF InviteMember, RemoveMember, DecideRequest
<1>6. ASSUME NEW w \in Handlers, NEW m \in Askers, NEW r \in Rows, CreateRequest(w, m, r)
      PROVE  joinRequests' = joinRequests /\ conn' = conn
  BY <1>6 DEF CreateRequest
<1>7. ASSUME NEW w \in Handlers,
             ChecksIdentity(w) \/ ReadsOwner(w) \/ FindsDuplicate(w) \/ StoresCredential(w) \/ RollBack(w)
      PROVE  joinRequests' = joinRequests /\ conn' = conn
  BY <1>7 DEF ChecksIdentity, ReadsOwner, FindsDuplicate, StoresCredential, RollBack, Advances
<1>8. ASSUME NEW w \in Handlers, DeletesPrompt(w) \/ MarksFailed(w) \/ StartsReauthorization(w)
      PROVE  joinRequests' = joinRequests
  BY <1>8 DEF DeletesPrompt, MarksFailed, StartsReauthorization
<1> QED
  BY <1>1, <1>2, <1>3, <1>4, <1>5, <1>6, <1>7, <1>8 DEF QuietNext

LEMMA QuietKeepsAccounts ==
  ASSUME ConnInv, QuietNext, NEW r \in Rows, Connected(r)
  PROVE  conn'[r].status = "connected" /\ conn'[r].ident = conn[r].ident /\ conn'[r].user = conn[r].user
<1>1. conn \in [Rows -> Connection] /\ conn[r] \in Connection /\ conn[r] # Absent
  BY DEF ConnInv, Connected, Absent
<1>2. \A q \in Rows : conn[q] \in Connection
  BY DEF ConnInv
<1>3. ASSUME NEW q \in Rows, NEW u \in Signers,
             Start(u, q) \/ \E w \in Handlers, i \in Identities : ConnectApiKey(w, u, q, i)
      PROVE  conn'[r] = conn[r]
  BY <1>1, <1>3 DEF Start, ConnectApiKey
<1>4. ASSUME NEW q \in Rows, Expire(q)
      PROVE  conn'[r].status = "connected" /\ conn'[r].ident = conn[r].ident /\ conn'[r].user = conn[r].user
  BY <1>1, <1>4 DEF Expire, Settled, Connection, Connected
<1>5. ASSUME NEW w \in Handlers, DeletesPrompt(w) \/ MarksFailed(w) \/ StartsReauthorization(w)
      PROVE  conn'[r].status = "connected" /\ conn'[r].ident = conn[r].ident /\ conn'[r].user = conn[r].user
  <2>1. task[w].row \in Rows /\ conn[task[w].row] \in Connection
    BY <1>2, <1>5 DEF ConnInv, TaskFits, DeletesPrompt, MarksFailed, StartsReauthorization
  <2> QED
    BY <1>1, <1>5, <2>1
    DEF DeletesPrompt, MarksFailed, StartsReauthorization, Settled, Prompted, Connection, Connected
<1>6. CASE conn' = conn
  BY <1>6 DEF Connected
<1>7. \/ conn' = conn
      \/ \E u \in Signers, q \in Rows :
           Start(u, q) \/ \E w \in Handlers, i \in Identities : ConnectApiKey(w, u, q, i)
      \/ \E q \in Rows : Expire(q)
      \/ \E w \in Handlers : DeletesPrompt(w) \/ MarksFailed(w) \/ StartsReauthorization(w)
  BY QuietEffect
<1> QED
  BY <1>3, <1>4, <1>5, <1>6, <1>7 DEF Connected

\* What may become of a connected account in a step.
Kept(r) ==
  \/ /\ conn'[r].status = "connected"
     /\ conn'[r].ident = conn[r].ident
     /\ conn'[r].user # conn[r].user =>
          \E w \in Handlers : Finishing(w, "stored") /\ task[w].target = r /\ task[w].ident = conn[r].ident
  \/ /\ conn'[r] = Absent
     /\ \E w \in Handlers : task[w].op = "disconnect" /\ task[w].row = r /\ task[w].by = conn[r].user
  \/ r \in switched'

LEMMA CommitKeepsAccounts ==
  ASSUME ConnInv, NEW w \in Handlers, CommitsConnection(w), NEW r \in Rows, Connected(r)
  PROVE  Kept(r)
<1> DEFINE t == task[w]
           merged == t.target # t.row
<1>1. /\ t.op = "finish" /\ t.stage = "stored" /\ TargetIsIt(t) /\ IdentityLasts(t)
      /\ t.row \in Rows /\ t.target \in Rows /\ t.ident # "none"
      /\ conn'[t.target].status = "connected" /\ conn'[t.target].ident = t.ident
      /\ \A q \in Rows \ {t.target} : conn'[q] = IF merged /\ q = t.row THEN Absent ELSE conn[q]
  BY CommitEffect
<1>2. switched' = switched \cup
        (IF t.fresh /\ conn[t.row].ident \notin {"none", t.ident} THEN {t.row, t.target} ELSE {})
  BY CommitEffect
<1>3. conn[r].ident # "none" /\ conn[r] # Absent
  BY DEF ConnInv, RowFits, Connected, Absent
<1>4. CASE r = t.target
  <2>1. conn[r].ident = t.ident \/ r \in switched'
    BY <1>3, <1>4, CommitKeepsIdentity
  <2> QED
    BY <1>1, <1>4, <2>1 DEF Kept, Finishing
<1>5. CASE r # t.target /\ merged /\ r = t.row
  <2>1. conn[r].ident # t.ident
    BY <1>1, <1>5 DEF TargetIsIt, Locking
  <2>2. r \in switched'
    BY <1>1, <1>2, <1>3, <1>5, <2>1 DEF IdentityLasts, StillOf, Compared
  <2> QED
    BY <2>2 DEF Kept
<1>6. CASE r # t.target /\ ~(merged /\ r = t.row)
  BY <1>1, <1>6 DEF Kept, Connected
<1> QED
  BY <1>4, <1>5, <1>6

\* A connected account stays connected, with its provider account, until its owner deletes it, and changes
\* hands only by a sign-in to that account; rows two sign-ins raced for apart.
THEOREM AccountsAreKept == ConnSpec => AccountIsKept
<1>1. ConnInv /\ [ConnNext]_connVars => [\A r \in Rows : conn[r].status = "connected" => Kept(r)]_connVars
  <2> SUFFICES ASSUME ConnInv, [ConnNext]_connVars, ~UNCHANGED connVars, NEW r \in Rows, Connected(r)
               PROVE  Kept(r)
    BY DEF Connected
  <2>1. CASE QuietNext
    BY <2>1, QuietKeepsAccounts DEF Kept
  <2>2. ASSUME NEW w \in Handlers, CommitsConnection(w)
        PROVE  Kept(r)
    BY <2>2, CommitKeepsAccounts
  <2>3. ASSUME NEW w \in Handlers, Deletes(w)
        PROVE  Kept(r)
    <3>1. task[w].op = "disconnect" /\ conn \in [Rows -> Connection] /\ task[w].row \in Rows
      BY <2>3 DEF Deletes, ConnInv, TaskFits
    <3>2. CASE Deletable(task[w].row, task[w].by) /\ r = task[w].row
      BY <2>3, <3>1, <3>2 DEF Deletes, Deletable, Kept
    <3>3. CASE ~(Deletable(task[w].row, task[w].by) /\ r = task[w].row)
      <4>1. conn'[r] = conn[r]
        BY <2>3, <3>1, <3>3 DEF Deletes
      <4> QED
        BY <4>1 DEF Kept, Connected
    <3> QED
      BY <3>2, <3>3
  <2>4. ASSUME NEW w \in Handlers, WritesRequest(w)
        PROVE  Kept(r)
    BY <2>4 DEF WritesRequest, Kept, Connected
  <2> QED
    BY <2>1, <2>2, <2>3, <2>4, NextIsOneOf
<1> QED
  BY <1>1, ConnInvariant, PTL DEF ConnSpec, AccountIsKept, Kept

\* How a user comes to be a member of a pool, and how one stops being one.
Chosen(r, u) ==
  /\ u \in Members(r)' \ Members(r) =>
       \E w \in Handlers : task[w].op \in {"invite", "decide"} /\ task[w].row = r /\ task[w].by = conn[r].user
  /\ u \in Members(r) \ Members(r)' =>
       \/ conn'[r] = Absent \/ conn'[r].user = u
       \/ \E w \in Handlers : task[w].op \in {"remove", "decide"} /\ task[w].row = r /\ task[w].user = u

LEMMA WriteIsChosen ==
  ASSUME ConnInv, NEW w \in Handlers, WritesRequest(w), NEW r \in Rows, NEW u \in HubUsers
  PROVE  Chosen(r, u)
<1> DEFINE t == task[w]
<1>1. t.op \in PoolOps /\ t.row \in Rows /\ t.user \in HubUsers /\ TaskFits(t)
  BY DEF ConnInv, WritesRequest, TaskFits, PoolOps
<1>2. PICK b \in BOOLEAN : b = Writes(t, joinRequests[t.row][t.user])
  BY <1>1 DEF Writes, PoolOps
<1>3. \A q \in Rows, x \in HubUsers :
        joinRequests'[q][x] = IF q = t.row /\ x = t.user /\ b THEN t.status ELSE joinRequests[q][x]
  BY <1>1, <1>2 DEF ConnInv, WritesRequest
<1>4. CASE ~(r = t.row /\ u = t.user /\ b)
  BY <1>3, <1>4 DEF Chosen, Members
<1>5. CASE r = t.row /\ u = t.user /\ b
  <2>1. t.status = "accepted" => t.op \in {"invite", "decide"} /\ t.by = conn[r].user
    BY <1>1, <1>5 DEF TaskFits, PoolOps
  <2>2. t.op = "ask" => joinRequests[r][u] = "none"
    BY <1>2, <1>5 DEF Writes
  <2>3. t.op = "invite" => t.status = "accepted" \/ joinRequests[r][u] # "accepted"
    BY <1>1, <1>5 DEF TaskFits
  <2> QED
    BY <1>1, <1>3, <1>5, <2>1, <2>2, <2>3 DEF Chosen, Members, PoolOps
<1> QED
  BY <1>4, <1>5

\* Members come by the hand of the owner at that moment, and go by being removed or rejected, with the
\* account, or by becoming its owner.
THEOREM MembersAreChosen == ConnSpec => MembersAreOwnersChoice
<1>1. ConnInv /\ [ConnNext]_connVars => [\A r \in Rows, u \in HubUsers : Chosen(r, u)]_connVars
  <2> SUFFICES ASSUME ConnInv, [ConnNext]_connVars, ~UNCHANGED connVars, NEW r \in Rows, NEW u \in HubUsers
               PROVE  Chosen(r, u)
    OBVIOUS
  <2>1. CASE QuietNext
    BY <2>1, QuietEffect DEF Chosen, Members
  <2>2. ASSUME NEW w \in Handlers, CommitsConnection(w)
        PROVE  Chosen(r, u)
    <3> DEFINE t == task[w]
               merged == t.target # t.row
    <3>1. /\ t.row \in Rows /\ t.target \in Rows
          /\ conn'[t.target].user = t.user
          /\ \A q \in Rows \ {t.target} : conn'[q] = IF merged /\ q = t.row THEN Absent ELSE conn[q]
      BY <2>2, CommitEffect
    <3>2. /\ merged => \A x \in HubUsers : joinRequests'[t.row][x] = "none"
          /\ \A x \in HubUsers :
               joinRequests'[t.target][x] = IF t.clears /\ x \in Cleared(t) THEN "none" ELSE joinRequests[t.target][x]
          /\ \A q \in Rows \ {t.row, t.target} : joinRequests'[q] = joinRequests[q]
      BY <2>2, CommitEffect
    <3>3. CASE r = t.target
      BY <3>1, <3>2, <3>3 DEF Chosen, Members, Cleared
    <3>4. CASE r # t.target /\ r = t.row
      BY <3>1, <3>2, <3>4 DEF Chosen, Members
    <3>5. CASE r # t.target /\ r # t.row
      BY <3>2, <3>5 DEF Chosen, Members
    <3> QED
      BY <3>3, <3>4, <3>5
  <2>3. ASSUME NEW w \in Handlers, Deletes(w)
        PROVE  Chosen(r, u)
    <3>1. /\ task[w].row \in Rows /\ conn \in [Rows -> Connection]
          /\ joinRequests \in [Rows -> [HubUsers -> RequestStatuses]]
      BY <2>3 DEF Deletes, ConnInv, TaskFits
    <3>2. CASE Deletable(task[w].row, task[w].by) /\ r = task[w].row
      <4>1. conn'[r] = Absent /\ joinRequests'[r][u] = "none"
        BY <2>3, <3>1, <3>2 DEF Deletes
      <4> QED
        BY <4>1 DEF Chosen, Members
    <3>3. CASE ~(Deletable(task[w].row, task[w].by) /\ r = task[w].row)
      <4>1. joinRequests'[r] = joinRequests[r]
        BY <2>3, <3>1, <3>3 DEF Deletes
      <4> QED
        BY <4>1 DEF Chosen, Members
    <3> QED
      BY <3>2, <3>3
  <2>4. ASSUME NEW w \in Handlers, WritesRequest(w)
        PROVE  Chosen(r, u)
    BY <2>4, WriteIsChosen
  <2> QED
    BY <2>1, <2>2, <2>3, <2>4, NextIsOneOf
<1> QED
  BY <1>1, ConnInvariant, PTL DEF ConnSpec, MembersAreOwnersChoice, Chosen
=============================================================================
