-------------------------------- MODULE Staff --------------------------------
(***************************************************************************)
(* Who may use the dashboard (api/dashboard/staff, api/dashboard/access):  *)
(* accounts with a role, added, changed and removed by its owners, who may *)
(* do this to each other at the same time.                                 *)
(*                                                                         *)
(* A handler reads the role of the caller, then works in a transaction of  *)
(* its own.  The one that takes an owner's role away first locks the       *)
(* owners: the statement takes its snapshot, waits for rows that others    *)
(* hold, and looks again at each row it waited for, but not at rows its    *)
(* snapshot did not have.  A person who is removed and added again has a   *)
(* new row, which no earlier snapshot has.                                 *)
(***************************************************************************)
EXTENDS FiniteSets

CONSTANTS
  People,       \* hub accounts
  FirstOwner,   \* the owner that was made in the database
  SwitchedOff,  \* owners whose row was switched off in the database
  GivenRoles,   \* bound: the roles that are handed out
  Desks         \* handlers running at the same time

VARIABLES
  staff,   \* dashboard_staff.role, "none" for an account without a row
  active,  \* accounts whose row is switched on
  desk     \* what each handler is doing

staffVars == <<staff, active, desk>>

StaffRoles == {"owner", "manager", "cashier", "stock-keeper"}

ASSUME StaffAssumption ==
  /\ FirstOwner \in People /\ SwitchedOff \subseteq People \ {FirstOwner}
  /\ GivenRoles \subseteq StaffRoles

\* The one table of what each role may do.
Permissions(r) ==
  CASE r = "owner" -> {"orders", "history", "stock", "revenue", "staff"}
    [] r = "manager" -> {"orders", "history", "stock", "revenue"}
    [] r = "cashier" -> {"orders", "history"}
    [] r = "stock-keeper" -> {"stock"}
    [] OTHER -> {}

\* saw: the owners in the snapshot of the statement that locks them, as long as the rows it has are there.
Desk ==
  [op : {"none", "add", "change", "remove"}, target : People \cup {"nobody"},
   role : StaffRoles \cup {"none"}, stage : {"authorized", "locking", "locked", "written"},
   saw : SUBSET People]
IdleDesk ==
  [op |-> "none", target |-> "nobody", role |-> "none", stage |-> "authorized", saw |-> {}]

StaffInit ==
  /\ staff = [p \in People |-> IF p \in {FirstOwner} \cup SwitchedOff THEN "owner" ELSE "none"]
  /\ active = {FirstOwner}
  /\ desk = [d \in Desks |-> IdleDesk]

-----------------------------------------------------------------------------
\* Rows and locks

ActiveOwners == {p \in active : staff[p] = "owner"}

\* Rows the transaction of d has locked: the ones it looked at, whether it then returned them or not, and
\* the one it has written to.
Held(d) ==
  CASE desk[d].stage = "locked" -> desk[d].saw
    [] desk[d].stage = "written" -> desk[d].saw \cup {desk[d].target}
    [] OTHER -> {}
StaffRowFree(d, p) == \A e \in Desks \ {d} : p \notin Held(e)

OwnersFree_unlocked(d) == TRUE
\* SELECT ... FOR UPDATE waits for the owners it saw.
OwnersFree(d) == \A p \in desk[d].saw : StaffRowFree(d, p)

\* What that statement returns: the ones that are still active owners.
StillOwners(d) == desk[d].saw \cap ActiveOwners

At(d, stage) == desk' = [desk EXCEPT ![d].stage = stage]
Leaves(d) == desk' = [desk EXCEPT ![d] = IdleDesk]

-----------------------------------------------------------------------------
\* Handlers

MayManageStaff(p) == p \in active /\ "staff" \in Permissions(staff[p])

\* add_staff, change_role and remove_staff: authorize; nobody removes themselves.
Authorized(d, by, op, target, role) ==
  /\ desk[d].op = "none"
  /\ MayManageStaff(by)
  /\ op = "remove" => target # by /\ role = "none"
  /\ op # "remove" => role # "none"
  /\ desk' = [desk EXCEPT ![d] = [IdleDesk EXCEPT !.op = op, !.target = target, !.role = role]]
  /\ UNCHANGED <<staff, active>>

\* The insert of a row waits for the one it conflicts with only while that is being deleted.
BeingRemoved(p) == \E d \in Desks : desk[d].stage = "written" /\ desk[d].op = "remove" /\ desk[d].target = p

\* add_staff: the insert, which does nothing when there is a row.
InsertsRow(d) ==
  LET p == desk[d].target IN
  /\ desk[d].op = "add"
  /\ ~BeingRemoved(p)
  /\ IF staff[p] = "none"
       THEN staff' = [staff EXCEPT ![p] = desk[d].role] /\ active' = active \cup {p}
       ELSE UNCHANGED <<staff, active>>
  /\ Leaves(d)

NeedsAnotherOwner(d) ==
  desk[d].op = "remove" \/ (desk[d].op = "change" /\ desk[d].role # "owner")

\* ensure_another_owner, its statement begins.
SeesOwners(d) ==
  /\ NeedsAnotherOwner(d)
  /\ desk[d].stage = "authorized"
  /\ desk' = [desk EXCEPT ![d].stage = "locking", ![d].saw = ActiveOwners]
  /\ UNCHANGED <<staff, active>>

\* ensure_another_owner, its rows are locked: it refuses when the target is the only one.
LocksOwners(d) ==
  /\ desk[d].stage = "locking"
  /\ OwnersFree(d)
  /\ IF StillOwners(d) = {desk[d].target} THEN Leaves(d) ELSE At(d, "locked")
  /\ UNCHANGED <<staff, active>>

\* The update (of an active row) or the delete (of any) finds its row, or the handler ends.
WritesRow(d) ==
  LET p == desk[d].target IN
  /\ \/ desk[d].stage = "locked"
     \/ desk[d].op = "change" /\ ~NeedsAnotherOwner(d) /\ desk[d].stage = "authorized"
  /\ StaffRowFree(d, p)
  /\ IF staff[p] # "none" /\ (desk[d].op = "change" => p \in active)
       THEN At(d, "written") ELSE Leaves(d)
  /\ UNCHANGED <<staff, active>>

\* A deleted row is gone from every snapshot, though its person may be added again.
Forgets(q, p) == [q EXCEPT !.saw = @ \ {p}]

CommitsRow(d) ==
  LET p == desk[d].target IN
  /\ desk[d].stage = "written"
  /\ staff' = [staff EXCEPT ![p] = desk[d].role]
  /\ IF desk[d].op = "remove"
       THEN /\ active' = active \ {p}
            /\ desk' = [e \in Desks |-> IF e = d THEN IdleDesk ELSE Forgets(desk[e], p)]
       ELSE Leaves(d) /\ UNCHANGED active

\* A statement fails, a deadlock is broken, or the handler is dropped: the transaction is rolled back.
RollsBack(d) ==
  /\ desk[d].op # "none"
  /\ Leaves(d)
  /\ UNCHANGED <<staff, active>>

StaffNext ==
  \E d \in Desks :
    \/ \E by \in People, op \in {"add", "change", "remove"}, target \in People,
          role \in GivenRoles \cup {"none"} : Authorized(d, by, op, target, role)
    \/ InsertsRow(d)
    \/ SeesOwners(d)
    \/ LocksOwners(d)
    \/ WritesRow(d)
    \/ CommitsRow(d)
    \/ RollsBack(d)

StaffSpec == StaffInit /\ [][StaffNext]_staffVars

-----------------------------------------------------------------------------
\* Properties

\* Every row has a role of the table, and only a row can be switched on.
StaffTypeOK ==
  /\ staff \in [People -> StaffRoles \cup {"none"}]
  /\ active \subseteq {p \in People : staff[p] # "none"}
  /\ desk \in [Desks -> Desk]

\* "two owners who demote each other at the same moment leave one, since the owners' rows are locked while it is
\* decided": the last owner is never taken from a row that the locking statement had seen, nor as long as one
\* of the owners it had seen still was one when it had its locks.  What is left is a handler whose statement
\* came back empty, and whose target became an owner while it waited.
OwnerKept ==
  [][ActiveOwners # {} /\ ActiveOwners' = {} =>
       \E d \in Desks : /\ desk[d].stage = "written" /\ desk[d].target \notin desk[d].saw
                        /\ StillOwners(d) = {}]_staffVars

\* "The one rule is that the shop always has an active owner": the rule as it is stated.
ShopHasAnOwner == ActiveOwners # {}
=============================================================================
