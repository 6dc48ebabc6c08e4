-------------------------- MODULE MembershipProofs --------------------------
(***************************************************************************)
(* For any number of persons and concurrent requests: the state is well    *)
(* typed, the organization always has an owner, whoever joins was invited, *)
(* and privileged roles move only by owners.                               *)
(*                                                                         *)
(* That an owner is left is not inductive: two requests that both passed   *)
(* the last_owner check would remove the last two.  The strengthening says *)
(* what SELECT ... FOR UPDATE buys although rows inserted after the        *)
(* statement began are not locked.  The rows a request selected are all    *)
(* the rows there were up to some id, its own target among them.  Of two   *)
(* requests whose targets still exist, the one with the later target has   *)
(* therefore selected the earlier target too; so they cannot both hold     *)
(* their locks, and what one decided stays true until it writes.           *)
(***************************************************************************)
EXTENDS Membership, FiniteSetTheorems, TLAPS

\* What a request carries, by what it was asked to do and how far it is.
Context(q) ==
    /\ q.op \in {"change", "remove"} =>
          q.actor \in Persons /\ q.role \in ROLES /\ q.id <= made
    /\ q.op = "change" => q.new \in ROLES
    /\ q.op = "invite" =>
          q.role \in ROLES /\ q.addr \in Persons /\ q.new \in assignableRoles(q.role)
    /\ q.pc = "accepting" =>
          /\ q.op = "accept" /\ q.id \in DOMAIN invitation
          /\ q.existed => q.actor = invitation[q.id].addr
    /\ q.pc = "decided" => q.op \in {"change", "remove"}

\* The primary key, and the unique index on organization and user.
UniqueRows ==
    /\ \A m \in membership : m.id <= made
    /\ \A m, n \in membership : m.id = n.id \/ m.person = n.person => m = n

Selected(q) == q.op \in {"change", "remove"} /\ q.pc \in {"waiting", "locked", "decided"}
Holding(q) == q.op \in {"change", "remove"} /\ q.pc \in {"locked", "decided"}

\* FOR UPDATE selects the rows up to some id, the target included.
Snapshot(q) ==
    Selected(q) =>
        /\ \A a \in q.rows : a <= made
        /\ \A m \in membership :
              /\ m.id = q.id => m.id \in q.rows
              /\ \A a \in q.rows : m.id <= a => m.id \in q.rows

LocksExclusive ==
    \A r, q \in Requests :
        r # q /\ Holding(req[r]) /\ Holding(req[q]) => req[r].rows \cap req[q].rows = {}

\* What a request decided about its target still holds.
Sound(q, t) ==
    /\ t.id = q.id
    /\ q.op = "change" => t.person # q.actor /\ canChangeRole(q.role, t.role, q.new)
    /\ q.op = "remove" => t.person = q.actor \/ canManageMember(q.role, t.role)
    /\ t.role = "OWNER" => \E o \in membership : o # t /\ o.role = "OWNER"

Justified(q) == q.pc = "decided" => \E t \in membership : Sound(q, t)

RequestsInOrder ==
    \A r \in Requests : Context(req[r]) /\ Snapshot(req[r]) /\ Justified(req[r])

InvitedByOwners ==
    \A i \in DOMAIN invitation : Privileged(invitation[i].role) => invitation[i].by = "OWNER"

MembershipInv ==
    /\ TypeOK /\ UniqueRows /\ RequestsInOrder /\ LocksExclusive
    /\ InvitedByOwners /\ AlwaysAnOwner

-----------------------------------------------------------------------------
(* Roles *)

\* permissions.ts, read as a table: managePrivileged is the owners', manage and
\* invite are the owners' and the administrators'.
LEMMA RoleTable ==
    ASSUME NEW role \in ROLES
    PROVE  /\ can(role, "managePrivileged") <=> role = "OWNER"
           /\ can(role, "manage") => role \in {"OWNER", "ADMIN"}
           /\ \A t \in ROLES : ROLE_RANK[t] < ROLE_RANK["ADMIN"] <=> ~ Privileged(t)
           /\ assignableRoles(role) \subseteq ROLES
BY DEF can, ROLES, ROLE_RANK, NeededRank, Privileged, assignableRoles

\* Whoever gives a privileged role or takes one from somebody is an owner.
LEMMA OwnersPrivilege ==
    ASSUME NEW role \in ROLES
    PROVE  /\ \A new \in assignableRoles(role) : Privileged(new) => role = "OWNER"
           /\ \A t \in ROLES : canManageMember(role, t) /\ Privileged(t) => role = "OWNER"
<1>1. \A new \in assignableRoles(role) : Privileged(new) => role = "OWNER"
  BY RoleTable DEF assignableRoles, Privileged
<1>2. \A t \in ROLES : canManageMember(role, t) /\ Privileged(t) => role = "OWNER"
  BY RoleTable DEF canManageMember
<1> QED
  BY <1>1, <1>2

LEMMA IdleRequest ==
    Idle \in Request /\ Context(Idle) /\ Snapshot(Idle) /\ Justified(Idle)
        /\ Idle.pc = "idle" /\ Idle.op = "none" /\ ~ Holding(Idle)
BY DEF Idle, Request, Context, Snapshot, Selected, Holding, Justified

-----------------------------------------------------------------------------
(* Steps that only move a request *)

\* What one request has become, while the rest stays, keeps the invariant if it
\* is in order by itself and its locks are no other's.
LEMMA RequestMoves ==
    ASSUME MembershipInv, NEW r \in Requests, NEW x \in Request,
           Context(x), Snapshot(x), Justified(x),
           \A q \in Requests \ {r} :
              Holding(x) /\ Holding(req[q]) => x.rows \cap req[q].rows = {},
           req' = [req EXCEPT ![r] = x], started' \in 0..MaxStarts,
           UNCHANGED <<membership, made, account, invitation>>
    PROVE  MembershipInv'
<1>1. req \in [Requests -> Request]
  BY DEF MembershipInv, TypeOK
<1>2. \A q \in Requests : req'[q] = IF q = r THEN x ELSE req[q]
  BY <1>1
<1>3. TypeOK'
  BY <1>1 DEF MembershipInv, TypeOK
<1>4. UniqueRows' /\ InvitedByOwners' /\ AlwaysAnOwner'
  BY DEF MembershipInv, UniqueRows, InvitedByOwners, AlwaysAnOwner, Owners
<1>5. RequestsInOrder'
  <2> SUFFICES ASSUME NEW q \in Requests
               PROVE  (Context(req[q]) /\ Snapshot(req[q]) /\ Justified(req[q]))'
    BY DEF RequestsInOrder
  <2>1. PICK y : y = req'[q]
    OBVIOUS
  <2>2. Context(y) /\ Snapshot(y) /\ Justified(y)
    BY <1>2, <2>1 DEF MembershipInv, RequestsInOrder
  <2>3. Context(y)' /\ Snapshot(y)' /\ Justified(y)'
    BY <2>2 DEF Context, Snapshot, Justified, Sound
  <2> QED
    BY <2>1, <2>3
<1>6. LocksExclusive'
  BY <1>2 DEF MembershipInv, LocksExclusive
<1> QED
  BY <1>3, <1>4, <1>5, <1>6 DEF MembershipInv

\* A request that holds no rows of members and decided nothing needs only its
\* context to be in order.
LEMMA PlainMove ==
    ASSUME MembershipInv, NEW r \in Requests, NEW x \in Request,
           Context(x), ~ Selected(x), req' = [req EXCEPT ![r] = x], started' \in 0..MaxStarts,
           UNCHANGED <<membership, made, account, invitation>>
    PROVE  MembershipInv'
<1>1. Snapshot(x) /\ ~ Holding(x) /\ Justified(x)
  BY DEF Snapshot, Holding, Selected, Justified, Context
<1> QED
  BY <1>1, RequestMoves

LEMMA EndOfRequest ==
    ASSUME MembershipInv, NEW r \in Requests, req' = [req EXCEPT ![r] = Idle],
           UNCHANGED <<membership, made, account, invitation, started>>
    PROVE  MembershipInv'
<1>1. started' \in 0..MaxStarts
  BY DEF MembershipInv, TypeOK
<1>2. ~ Selected(Idle)
  BY DEF Selected, Idle
<1> QED
  BY <1>1, <1>2, IdleRequest, PlainMove

LEMMA RequestStarts ==
    ASSUME MembershipInv, NEW r \in Requests, Starts(r)
    PROVE  MembershipInv'
<1>0. /\ membership \subseteq Row /\ started \in 0..MaxStarts /\ MaxStarts \in Nat
      /\ \A m \in membership : m.id \in Nat /\ m.id <= made /\ m.role \in ROLES
  BY BoundAssumption DEF MembershipInv, TypeOK, UniqueRows, Row
<1>1. ASSUME NEW op \in {"change", "remove", "invite"}, NEW p \in Persons, NEW permission,
             NEW id \in Nat, NEW addr \in Persons \cup {None}, NEW new \in ROLES \cup {None},
             Start(r, op, p, permission, [id |-> id, addr |-> addr, new |-> new]),
             \A m \in RowsOf(p) : Context([pc |-> "authorized", op |-> op, actor |-> p,
                 role |-> m.role, id |-> id, addr |-> addr, new |-> new, existed |-> FALSE,
                 rows |-> {}])
      PROVE  MembershipInv'
  <2>1. PICK m \in RowsOf(p) :
           req' = [req EXCEPT ![r] = [pc |-> "authorized", op |-> op, actor |-> p,
                 role |-> m.role, id |-> id, addr |-> addr, new |-> new, existed |-> FALSE,
                 rows |-> {}]]
    BY <1>1 DEF Start
  <2>2. PICK x : x = [pc |-> "authorized", op |-> op, actor |-> p,
                 role |-> m.role, id |-> id, addr |-> addr, new |-> new, existed |-> FALSE,
                 rows |-> {}]
    OBVIOUS
  <2>3. m.role \in ROLES
    BY <1>0, <2>1 DEF RowsOf
  <2>4. x \in Request
    BY <2>2, <2>3, <1>1 DEF Request
  <2>5. Context(x)
    BY <1>1, <2>1, <2>2
  <2>6. ~ Selected(x)
    BY <2>2 DEF Selected
  <2>7. started' \in 0..MaxStarts /\ UNCHANGED <<membership, made, account, invitation>>
    BY <1>0, <1>1 DEF Start
  <2> QED
    BY <2>1, <2>2, <2>4, <2>5, <2>6, <2>7, PlainMove
<1>2. ASSUME NEW p \in Persons, NEW m \in membership, NEW new \in AskedRoles,
             changeRoleAction(r, p, m.id, new)
      PROVE  MembershipInv'
  <2>1. new \in ROLES
    BY AskedAssumption DEF ROLES
  <2>2. \A n \in RowsOf(p) : Context([pc |-> "authorized", op |-> "change", actor |-> p,
                 role |-> n.role, id |-> m.id, addr |-> None, new |-> new, existed |-> FALSE,
                 rows |-> {}])
    BY <1>0, <2>1 DEF Context, RowsOf
  <2> QED
    BY <1>0, <1>1, <1>2, <2>1, <2>2 DEF changeRoleAction
<1>3. ASSUME NEW p \in Persons, NEW m \in membership, removeMemberAction(r, p, m.id)
      PROVE  MembershipInv'
  <2>2. \A n \in RowsOf(p) : Context([pc |-> "authorized", op |-> "remove", actor |-> p,
                 role |-> n.role, id |-> m.id, addr |-> None, new |-> None, existed |-> FALSE,
                 rows |-> {}])
    BY <1>0 DEF Context, RowsOf
  <2> QED
    BY <1>0, <1>1, <1>3, <2>2 DEF removeMemberAction
<1>4. ASSUME NEW p \in Persons, NEW addr \in Persons, NEW new \in AskedRoles,
             inviteMemberAction(r, p, addr, new)
      PROVE  MembershipInv'
  <2>1. new \in ROLES
    BY AskedAssumption DEF ROLES
  <2>2. \A n \in RowsOf(p) : new \in assignableRoles(n.role)
    BY <1>4 DEF inviteMemberAction, RowsOf, MembershipInv, UniqueRows
  <2>3. \A n \in RowsOf(p) : Context([pc |-> "authorized", op |-> "invite", actor |-> p,
                 role |-> n.role, id |-> 0, addr |-> addr, new |-> new, existed |-> FALSE,
                 rows |-> {}])
    BY <1>0, <2>2 DEF Context, RowsOf
  <2> QED
    BY <1>1, <1>4, <2>1, <2>3 DEF inviteMemberAction
<1> QED
  BY <1>2, <1>3, <1>4 DEF Starts

\* SELECT ... FOR UPDATE begins with every row there is.
LEMMA LockStatementBegins ==
    ASSUME MembershipInv, NEW r \in Requests, lockOrganizationMemberships(r)
    PROVE  MembershipInv'
<1>0. /\ req[r] \in Request /\ Context(req[r]) /\ started \in 0..MaxStarts /\ made \in Nat
      /\ \A m \in membership : m.id \in Nat /\ m.id <= made
  BY DEF MembershipInv, TypeOK, RequestsInOrder, UniqueRows, Row
<1>1. PICK x : x = [req[r] EXCEPT !.pc = "waiting", !.rows = Present]
  OBVIOUS
<1>2. /\ x \in Request /\ x.op = req[r].op /\ x.pc = "waiting" /\ x.rows = Present
      /\ x.actor = req[r].actor /\ x.role = req[r].role /\ x.id = req[r].id /\ x.new = req[r].new
      /\ x.addr = req[r].addr
  BY <1>0, <1>1 DEF Request, Present
<1>3. req' = [req EXCEPT ![r] = x]
  BY <1>1 DEF lockOrganizationMemberships, MembershipInv, TypeOK
<1>4. Context(x)
  BY <1>0, <1>2 DEF Context
<1>5. Snapshot(x) /\ ~ Holding(x) /\ Justified(x)
  BY <1>0, <1>2 DEF Snapshot, Holding, Justified, Present
<1>6. UNCHANGED <<membership, made, account, invitation, started>>
  BY DEF lockOrganizationMemberships
<1> QED
  BY <1>0, <1>2, <1>3, <1>4, <1>5, <1>6, RequestMoves

\* It ends with locks that no other request holds.
LEMMA LockStatementEnds ==
    ASSUME MembershipInv, NEW r \in Requests, LocksGranted(r)
    PROVE  MembershipInv'
<1>0. /\ req[r] \in Request /\ Context(req[r]) /\ Snapshot(req[r]) /\ started \in 0..MaxStarts
      /\ req[r].op \in {"change", "remove"} /\ req[r].pc = "waiting"
  BY DEF MembershipInv, TypeOK, RequestsInOrder, LocksGranted
<1>1. PICK x : x = [req[r] EXCEPT !.pc = "locked", !.rows = req[r].rows \cap Present]
  OBVIOUS
<1>2. /\ x \in Request /\ x.op = req[r].op /\ x.pc = "locked"
      /\ x.rows = req[r].rows \cap Present
      /\ x.actor = req[r].actor /\ x.role = req[r].role /\ x.id = req[r].id /\ x.new = req[r].new
      /\ x.addr = req[r].addr
  BY <1>0, <1>1 DEF Request
<1>3. req' = [req EXCEPT ![r] = x]
  BY <1>1 DEF LocksGranted, MembershipInv, TypeOK
<1>4. Context(x) /\ Justified(x)
  BY <1>0, <1>2 DEF Context, Justified
<1>5. Snapshot(x)
  BY <1>0, <1>2 DEF Snapshot, Selected, Present
<1>6. \A q \in Requests \ {r} : Holding(req[q]) => x.rows \cap req[q].rows = {}
  BY <1>0, <1>2 DEF LocksGranted, Held, Holding, Table
<1>7. UNCHANGED <<membership, made, account, invitation, started>>
  BY DEF LocksGranted
<1> QED
  BY <1>0, <1>2, <1>3, <1>4, <1>5, <1>6, <1>7, RequestMoves

\* More than one owner: there is another one.
LEMMA AnotherOwner ==
    ASSUME NEW t, Cardinality(Owners) > 1
    PROVE  \E o \in membership : o # t /\ o.role = "OWNER"
<1> SUFFICES ASSUME \A o \in Owners : o = t
             PROVE  FALSE
  BY DEF Owners
<1>1. Owners = {} \/ Owners = {t}
  OBVIOUS
<1>2. Cardinality({}) = 0 /\ Cardinality({t}) = 1
  BY FS_EmptySet, FS_Singleton
<1> QED
  BY <1>1, <1>2

LEMMA Decision ==
    ASSUME MembershipInv, NEW r \in Requests, Decide(r)
    PROVE  MembershipInv'
<1>0. /\ req[r] \in Request /\ Context(req[r]) /\ Snapshot(req[r]) /\ started \in 0..MaxStarts
      /\ req[r].op \in {"change", "remove"} /\ req[r].pc = "locked"
  BY DEF MembershipInv, TypeOK, RequestsInOrder, Decide
<1>1. CASE ~ Allowed(req[r])
  BY <1>1, EndOfRequest DEF Decide
<1>2. CASE Allowed(req[r])
  <2>1. PICK x : x = [req[r] EXCEPT !.pc = "decided"]
    OBVIOUS
  <2>2. /\ x \in Request /\ x.op = req[r].op /\ x.pc = "decided" /\ x.rows = req[r].rows
        /\ x.actor = req[r].actor /\ x.role = req[r].role /\ x.id = req[r].id
        /\ x.new = req[r].new /\ x.addr = req[r].addr
    BY <1>0, <2>1 DEF Request
  <2>3. req' = [req EXCEPT ![r] = x]
    BY <1>2, <2>1 DEF Decide
  <2>4. Context(x) /\ Snapshot(x)
    BY <1>0, <2>2 DEF Context, Snapshot, Selected
  <2>5. Justified(x)
    <3>1. PICK t \in membership :
             /\ t.id = req[r].id
             /\ IF req[r].op = "change" THEN MayChange(req[r], t) ELSE MayRemove(req[r], t)
      BY <1>2 DEF Allowed
    <3>2. t.role = "OWNER" => Cardinality(Owners) > 1
      BY <3>1 DEF MayChange, MayRemove
    <3>3. t.role = "OWNER" => \E o \in membership : o # t /\ o.role = "OWNER"
      BY <3>2, AnotherOwner
    <3>4. Sound(x, t)
      BY <3>1, <3>3, <2>2, <1>0 DEF MayChange, MayRemove, Sound
    <3> QED
      BY <3>4 DEF Justified
  <2>6. \A q \in Requests \ {r} : Holding(req[q]) => x.rows \cap req[q].rows = {}
    BY <1>0, <2>2 DEF Holding, MembershipInv, LocksExclusive
  <2>7. UNCHANGED <<membership, made, account, invitation, started>>
    BY DEF Decide
  <2> QED
    BY <1>0, <2>2, <2>3, <2>4, <2>5, <2>6, <2>7, RequestMoves
<1> QED
  BY <1>1, <1>2

\* createInvitation up to its insert, and the start of an acceptance.
LEMMA InvitationStatements ==
    ASSUME MembershipInv, NEW r \in Requests, RevokePrevious(r) \/ PreviousRevoked(r)
    PROVE  MembershipInv'
<1>0. /\ req[r] \in Request /\ Context(req[r]) /\ started \in 0..MaxStarts
      /\ req[r].op = "invite" /\ Pending \subseteq Nat
  BY DEF MembershipInv, TypeOK, RequestsInOrder, RevokePrevious, PreviousRevoked, Pending
<1>1. ASSUME NEW pc \in {"waiting", "locked"}, NEW rows \in SUBSET Nat,
             req' = [req EXCEPT ![r] = [req[r] EXCEPT !.pc = pc, !.rows = rows]]
      PROVE  MembershipInv'
  <2>1. PICK x : x = [req[r] EXCEPT !.pc = pc, !.rows = rows]
    OBVIOUS
  <2>2. /\ x \in Request /\ x.op = req[r].op /\ x.pc = pc /\ x.role = req[r].role
        /\ x.new = req[r].new /\ x.addr = req[r].addr
    BY <1>0, <1>1, <2>1 DEF Request
  <2>3. Context(x) /\ ~ Selected(x)
    BY <1>0, <1>1, <2>2 DEF Context, Selected
  <2>4. req' = [req EXCEPT ![r] = x]
    BY <1>1, <2>1
  <2>5. UNCHANGED <<membership, made, account, invitation, started>>
    BY DEF RevokePrevious, PreviousRevoked
  <2> QED
    BY <1>0, <2>2, <2>3, <2>4, <2>5, PlainMove
<1>2. CASE RevokePrevious(r)
  <2>1. CASE RowsOf(req[r].addr) # {}
    BY <1>2, <2>1, EndOfRequest DEF RevokePrevious
  <2>2. CASE RowsOf(req[r].addr) = {}
    <3> DEFINE rows == {i \in Pending : invitation[i].addr = req[r].addr}
    <3>1. rows \in SUBSET Nat
      BY <1>0
    <3>2. req' = [req EXCEPT ![r] = [req[r] EXCEPT !.pc = "waiting", !.rows = rows]]
      BY <1>2, <2>2 DEF RevokePrevious
    <3> QED
      BY <3>1, <3>2, <1>1
  <2> QED
    BY <2>1, <2>2
<1>3. CASE PreviousRevoked(r)
  <2> DEFINE rows == req[r].rows \cap Pending
  <2>1. rows \in SUBSET Nat
    BY <1>0
  <2>2. req' = [req EXCEPT ![r] = [req[r] EXCEPT !.pc = "locked", !.rows = rows]]
    BY <1>3 DEF PreviousRevoked, MembershipInv, TypeOK
  <2> QED
    BY <2>1, <2>2, <1>1
<1> QED
  BY <1>2, <1>3

LEMMA AcceptanceBegins ==
    ASSUME MembershipInv, NEW r \in Requests, NEW i \in DOMAIN invitation,
           NEW p \in Persons \cup {None}, acceptInvitationAction(r, i, p)
    PROVE  MembershipInv'
<1>0. started \in 0..MaxStarts /\ i \in Nat /\ invitation[i] \in Invitation
  BY DEF MembershipInv, TypeOK
<1>a. PICK known \in BOOLEAN : known <=> (invitation[i].addr \in account)
  <2>1. CASE invitation[i].addr \in account
    <3> WITNESS TRUE \in BOOLEAN
    <3> QED BY <2>1
  <2>2. CASE invitation[i].addr \notin account
    <3> WITNESS FALSE \in BOOLEAN
    <3> QED BY <2>2
  <2> QED BY <2>1, <2>2
<1>b. PICK who \in Persons \cup {None} : who = IF known THEN p ELSE None
  OBVIOUS
<1>1. PICK x : x = [Idle EXCEPT !.pc = "accepting", !.op = "accept", !.id = i,
                       !.existed = known, !.actor = who]
  OBVIOUS
<1>2. /\ x \in Request /\ x.pc = "accepting" /\ x.op = "accept" /\ x.id = i
      /\ x.existed = known /\ x.actor = who
  BY <1>0, <1>1 DEF Idle, Request
<1>3. Context(x) /\ ~ Selected(x)
  BY <1>a, <1>b, <1>2 DEF Context, Selected, acceptInvitationAction, Acceptable
<1>4. req' = [req EXCEPT ![r] = x]
  BY <1>a, <1>b, <1>1 DEF acceptInvitationAction
<1>5. UNCHANGED <<membership, made, account, invitation, started>>
  BY DEF acceptInvitationAction
<1> QED
  BY <1>0, <1>2, <1>3, <1>4, <1>5, PlainMove

-----------------------------------------------------------------------------
(* Steps that write *)

\* Each request goes on as it was, or ends.
RequestsKept ==
    req' \in [Requests -> Request] /\ \A q \in Requests : req'[q] \in {req[q], Idle}

\* Invitations are added and change their state, nothing else.
InvitationsKept ==
    /\ invitation' \in Seq(Invitation)
    /\ \A i \in DOMAIN invitation :
          /\ i \in DOMAIN invitation'
          /\ invitation'[i].addr = invitation[i].addr
          /\ invitation'[i].role = invitation[i].role /\ invitation'[i].by = invitation[i].by

\* Rows are those there were, or new with an id not used before.
IdsKept ==
    /\ made' \in Nat /\ made <= made'
    /\ \A m \in membership' : m.id \in Nat /\ (m.id \in Present \/ m.id > made)

\* What writes leave alone: the contexts, the snapshots and the locks.
LEMMA WritesKeep ==
    ASSUME MembershipInv, RequestsKept, InvitationsKept, IdsKept
    PROVE  /\ \A q \in Requests : Context(req[q])' /\ Snapshot(req[q])'
           /\ LocksExclusive'
<1>0. made \in Nat /\ \A q \in Requests : req[q] \in Request
  BY DEF MembershipInv, TypeOK
<1>1. ASSUME NEW q \in Requests
      PROVE  Context(req[q])' /\ Snapshot(req[q])'
  <2>1. PICK y : y = req'[q]
    OBVIOUS
  <2>2. Context(y) /\ Snapshot(y) /\ y \in Request
    BY <1>0, <2>1, IdleRequest DEF MembershipInv, RequestsInOrder, RequestsKept
  <2>3. Context(y)'
    BY <1>0, <2>2 DEF Context, InvitationsKept, IdsKept, Request
  <2>4. Snapshot(y)'
    <3> SUFFICES ASSUME Selected(y)
                 PROVE  /\ \A a \in y.rows : a <= made'
                        /\ \A m \in membership' :
                              /\ m.id = y.id => m.id \in y.rows
                              /\ \A a \in y.rows : m.id <= a => m.id \in y.rows
      BY DEF Snapshot, Selected
    <3>1. y.id \in Nat /\ y.id <= made /\ y.rows \subseteq Nat /\ \A a \in y.rows : a <= made
      BY <2>2 DEF Snapshot, Selected, Context, Request
    <3>2. \A a \in y.rows : a <= made'
      BY <1>0, <3>1 DEF IdsKept
    <3>3. ASSUME NEW m \in membership'
          PROVE  /\ m.id = y.id => m.id \in y.rows
                 /\ \A a \in y.rows : m.id <= a => m.id \in y.rows
      <4>1. CASE m.id \in Present
        BY <2>2, <4>1 DEF Snapshot, Present
      <4>2. CASE m.id > made
        BY <1>0, <3>1, <4>2 DEF IdsKept
      <4> QED
        BY <4>1, <4>2 DEF IdsKept
    <3> QED
      BY <3>2, <3>3
  <2> QED
    BY <2>1, <2>3, <2>4
<1>2. LocksExclusive'
  BY IdleRequest DEF MembershipInv, LocksExclusive, RequestsKept
<1> QED
  BY <1>1, <1>2

LEMMA InvitationWritten ==
    ASSUME MembershipInv, RequestsKept, InvitationsKept, InvitedByOwners', started' = started,
           UNCHANGED <<membership, made>>, account' \subseteq Persons
    PROVE  MembershipInv'
<1>1. made \in Nat /\ membership \subseteq Row /\ \A m \in membership : m.id \in Nat
  BY DEF MembershipInv, TypeOK, Row
<1>2. IdsKept
  BY <1>1 DEF IdsKept, Present
<1>3. TypeOK'
  BY DEF MembershipInv, TypeOK, RequestsKept, InvitationsKept
<1>4. UniqueRows' /\ AlwaysAnOwner'
  BY DEF MembershipInv, UniqueRows, AlwaysAnOwner, Owners
<1>5. ASSUME NEW q \in Requests
      PROVE  Justified(req[q])'
  <2>1. PICK y : y = req'[q]
    OBVIOUS
  <2>2. Justified(y)
    BY <2>1, IdleRequest DEF MembershipInv, RequestsInOrder, RequestsKept
  <2>3. Justified(y)'
    BY <2>2 DEF Justified, Sound
  <2> QED
    BY <2>1, <2>3
<1> QED
  BY <1>2, <1>3, <1>4, <1>5, WritesKeep DEF MembershipInv, RequestsInOrder

\* Every write ends the request that made it.
LEMMA RequestEnds ==
    ASSUME MembershipInv, NEW r \in Requests, req' = [req EXCEPT ![r] = Idle]
    PROVE  RequestsKept /\ \A q \in Requests \ {r} : req'[q] = req[q]
BY IdleRequest DEF MembershipInv, TypeOK, RequestsKept

\* Of two holders whose targets are there, one has locked the other's target.
LEMMA OneDecision ==
    ASSUME MembershipInv, NEW r \in Requests, NEW q \in Requests, r # q,
           req[r].pc = "decided", req[q].pc = "decided"
    PROVE  FALSE
<1>0. /\ req[r] \in Request /\ req[q] \in Request
      /\ Context(req[r]) /\ Snapshot(req[r]) /\ Justified(req[r])
      /\ Context(req[q]) /\ Snapshot(req[q]) /\ Justified(req[q])
  BY DEF MembershipInv, TypeOK, RequestsInOrder
<1>1. PICK t \in membership : t.id = req[r].id
  BY <1>0 DEF Justified, Sound
<1>2. PICK u \in membership : u.id = req[q].id
  BY <1>0 DEF Justified, Sound
<1>3. Selected(req[r]) /\ Selected(req[q]) /\ Holding(req[r]) /\ Holding(req[q])
  BY <1>0 DEF Context, Selected, Holding
<1>4. t.id \in req[r].rows /\ u.id \in req[q].rows
  BY <1>0, <1>1, <1>2, <1>3 DEF Snapshot
<1>5. t.id \in Nat /\ u.id \in Nat
  BY <1>0, <1>1, <1>2 DEF Request
<1>6. t.id \in req[q].rows \/ u.id \in req[r].rows
  BY <1>0, <1>1, <1>2, <1>3, <1>4, <1>5 DEF Snapshot
<1> QED
  BY <1>3, <1>4, <1>6 DEF MembershipInv, LocksExclusive

\* A request that writes after its decision leaves the other requests in order:
\* none of them has decided.
LEMMA DecisionWritten ==
    ASSUME MembershipInv, NEW r \in Requests, req[r].pc = "decided",
           req' = [req EXCEPT ![r] = Idle], membership' \subseteq Row, IdsKept,
           UNCHANGED <<made, account, invitation, started>>, UniqueRows', AlwaysAnOwner'
    PROVE  MembershipInv'
<1>1. RequestsKept /\ \A q \in Requests \ {r} : req'[q] = req[q]
  BY RequestEnds
<1>2. InvitationsKept /\ InvitedByOwners'
  BY DEF MembershipInv, TypeOK, InvitationsKept, InvitedByOwners
<1>3. TypeOK'
  BY <1>1 DEF MembershipInv, TypeOK, RequestsKept
<1>4. ASSUME NEW q \in Requests
      PROVE  Justified(req[q])'
  <2>1. req'[q].pc # "decided"
    BY <1>1, OneDecision, IdleRequest DEF RequestsKept, MembershipInv, TypeOK
  <2> QED
    BY <2>1 DEF Justified
<1> QED
  BY <1>1, <1>2, <1>3, <1>4, WritesKeep DEF MembershipInv, RequestsInOrder

LEMMA RoleWritten ==
    ASSUME MembershipInv, NEW r \in Requests, changeMemberRole(r)
    PROVE  MembershipInv'
<1>0. /\ req[r].pc = "decided" /\ req[r].op = "change" /\ Context(req[r]) /\ Justified(req[r])
      /\ membership \subseteq Row /\ made \in Nat /\ UniqueRows /\ req[r].new \in ROLES
  BY DEF MembershipInv, TypeOK, RequestsInOrder, changeMemberRole, Context
<1> DEFINE Put(m) == IF m.id = req[r].id THEN [m EXCEPT !.role = req[r].new] ELSE m
<1>1. membership' = {Put(m) : m \in membership}
  BY DEF changeMemberRole
<1>2. \A m \in membership : /\ m.id \in Nat /\ m.id <= made
                            /\ Put(m) \in Row /\ Put(m).id = m.id /\ Put(m).person = m.person
                            /\ m.id # req[r].id => Put(m).role = m.role
  BY <1>0 DEF Row, UniqueRows
<1> HIDE DEF Put
<1>3. membership' \subseteq Row /\ IdsKept
  BY <1>0, <1>1, <1>2 DEF IdsKept, Present, changeMemberRole
<1>4. UniqueRows'
  <2>1. made' = made
    BY DEF changeMemberRole
  <2> QED
    BY <1>0, <1>1, <1>2, <2>1 DEF UniqueRows
<1>5. \E o \in membership : o.role = "OWNER" /\ o.id # req[r].id
  BY <1>0 DEF Justified, Sound, MembershipInv, AlwaysAnOwner, Owners, UniqueRows
<1>6. AlwaysAnOwner'
  BY <1>1, <1>2, <1>5 DEF AlwaysAnOwner, Owners
<1> QED
  BY <1>0, <1>3, <1>4, <1>6, DecisionWritten DEF changeMemberRole

LEMMA MemberRemoved ==
    ASSUME MembershipInv, NEW r \in Requests, removeMember(r)
    PROVE  MembershipInv'
<1>0. /\ req[r].pc = "decided" /\ Justified(req[r])
      /\ membership \subseteq Row /\ made \in Nat /\ UniqueRows
      /\ \A m \in membership : m.id \in Nat
  BY DEF MembershipInv, TypeOK, RequestsInOrder, removeMember, Row
<1>1. membership' = {m \in membership : m.id # req[r].id} /\ made' = made
  BY DEF removeMember
<1>2. membership' \subseteq Row /\ IdsKept
  BY <1>0, <1>1 DEF IdsKept, Present
<1>3. UniqueRows'
  BY <1>0, <1>1 DEF UniqueRows
<1>4. \E o \in membership : o.role = "OWNER" /\ o.id # req[r].id
  BY <1>0 DEF Justified, Sound, MembershipInv, AlwaysAnOwner, Owners, UniqueRows
<1>5. AlwaysAnOwner'
  BY <1>1, <1>4 DEF AlwaysAnOwner, Owners
<1> QED
  BY <1>0, <1>2, <1>3, <1>5, DecisionWritten DEF removeMember

LEMMA InvitationCreated ==
    ASSUME MembershipInv, NEW r \in Requests, createInvitation(r)
    PROVE  MembershipInv'
<1>0. /\ Context(req[r]) /\ req[r].op = "invite" /\ invitation \in Seq(Invitation)
      /\ InvitedByOwners /\ account \subseteq Persons
  BY DEF MembershipInv, TypeOK, RequestsInOrder, createInvitation
<1>1. /\ req[r].role \in ROLES /\ req[r].addr \in Persons /\ req[r].new \in ROLES
      /\ Privileged(req[r].new) => req[r].role = "OWNER"
  BY <1>0, RoleTable, OwnersPrivilege DEF Context
<1> DEFINE After(i) == IF i \in req[r].rows THEN [invitation[i] EXCEPT !.state = "revoked"]
                       ELSE invitation[i]
           kept == [i \in DOMAIN invitation |-> After(i)]
           sent == [addr |-> req[r].addr, role |-> req[r].new, by |-> req[r].role,
                    state |-> "live"]
<1>2. \A i \in DOMAIN invitation :
         /\ After(i) \in Invitation /\ After(i).addr = invitation[i].addr
         /\ After(i).role = invitation[i].role /\ After(i).by = invitation[i].by
  <2> TAKE i \in DOMAIN invitation
  <2>1. invitation[i] \in Invitation
    BY <1>0
  <2>2. PICK x : x = [invitation[i] EXCEPT !.state = "revoked"]
    OBVIOUS
  <2>3. /\ x \in Invitation /\ x.addr = invitation[i].addr
        /\ x.role = invitation[i].role /\ x.by = invitation[i].by
    BY <2>1, <2>2 DEF Invitation
  <2> QED
    BY <2>1, <2>2, <2>3
<1>3. sent \in Invitation /\ sent.role = req[r].new /\ sent.by = req[r].role
  BY <1>1 DEF Invitation
<1> HIDE DEF After, sent
<1>4. kept \in Seq(Invitation) /\ Len(kept) = Len(invitation)
  BY <1>0, <1>2
<1>5. invitation' = Append(kept, sent)
  BY DEF createInvitation, After, sent
<1>6. /\ invitation' \in Seq(Invitation) /\ DOMAIN invitation' = 1..(Len(invitation) + 1)
      /\ \A i \in DOMAIN invitation : invitation'[i] = After(i)
      /\ invitation'[Len(invitation) + 1] = sent
  BY <1>0, <1>3, <1>4, <1>5
<1>7. InvitationsKept
  BY <1>0, <1>2, <1>6 DEF InvitationsKept
<1>8. InvitedByOwners'
  <2> SUFFICES ASSUME NEW i \in DOMAIN invitation', Privileged(invitation'[i].role)
               PROVE  invitation'[i].by = "OWNER"
    BY DEF InvitedByOwners, Privileged
  <2>1. CASE i \in DOMAIN invitation
    BY <1>0, <1>2, <1>6, <2>1 DEF InvitedByOwners
  <2>2. CASE i = Len(invitation) + 1
    BY <1>1, <1>3, <1>6, <2>2
  <2> QED
    BY <1>0, <1>6, <2>1, <2>2
<1>9. RequestsKept
  BY RequestEnds DEF createInvitation
<1> QED
  BY <1>0, <1>7, <1>8, <1>9, InvitationWritten DEF createInvitation

\* An invitation that ends, whoever or whatever ends it.
LEMMA StateWritten ==
    ASSUME MembershipInv, NEW i \in DOMAIN invitation,
           NEW state \in {"live", "expired", "accepted", "revoked"},
           invitation' = [invitation EXCEPT ![i].state = state]
    PROVE  InvitationsKept /\ InvitedByOwners'
<1>0. invitation \in Seq(Invitation) /\ InvitedByOwners
  BY DEF MembershipInv, TypeOK
<1>1. \A j \in DOMAIN invitation : invitation[j] \in Invitation
  BY <1>0
<1>2. PICK x : x = [invitation[i] EXCEPT !.state = state]
  OBVIOUS
<1>3. /\ x \in Invitation /\ x.addr = invitation[i].addr
      /\ x.role = invitation[i].role /\ x.by = invitation[i].by
  BY <1>1, <1>2 DEF Invitation
<1>4. invitation' = [invitation EXCEPT ![i] = x]
  BY <1>2
<1>5. /\ invitation' \in Seq(Invitation) /\ DOMAIN invitation' = DOMAIN invitation
      /\ \A j \in DOMAIN invitation : invitation'[j] = IF j = i THEN x ELSE invitation[j]
  BY <1>0, <1>3, <1>4
<1>6. InvitationsKept
  BY <1>3, <1>5 DEF InvitationsKept
<1>7. InvitedByOwners'
  BY <1>0, <1>3, <1>5 DEF InvitedByOwners
<1> QED
  BY <1>6, <1>7

LEMMA Acceptance ==
    ASSUME MembershipInv, NEW r \in Requests, acceptInvitation(r)
    PROVE  MembershipInv'
<1> DEFINE i == req[r].id
           addr == invitation[i].addr
           fails == ClaimFails(i) \/ CreateUserFails(req[r].existed, addr)
           row == [id |-> made + 1, person |-> addr, role |-> invitation[i].role]
<1>0. /\ Context(req[r]) /\ req[r].pc = "accepting" /\ i \in DOMAIN invitation
      /\ invitation[i] \in Invitation /\ membership \subseteq Row /\ made \in Nat
      /\ UniqueRows /\ account \subseteq Persons /\ started' = started
      /\ req' = [req EXCEPT ![r] = Idle]
      /\ \A m \in membership : m.id \in Nat /\ m.id <= made
  BY DEF MembershipInv, TypeOK, RequestsInOrder, acceptInvitation, Context, UniqueRows, Row
<1>1. CASE fails
  BY <1>0, <1>1, EndOfRequest DEF acceptInvitation
<1>2. ASSUME ~ fails PROVE MembershipInv'
  <2>1. /\ invitation' = [invitation EXCEPT ![i].state = "accepted"]
        /\ account' = account \cup {addr}
    BY <1>2 DEF acceptInvitation
  <2>2. InvitationsKept /\ InvitedByOwners'
    BY <1>0, <2>1, StateWritten
  <2>3. RequestsKept
    BY <1>0, RequestEnds
  <2>4. account' \subseteq Persons
    BY <1>0, <2>1 DEF Invitation
  <2>5. CASE AlreadyMember(addr)
    <3>1. UNCHANGED <<membership, made>>
      BY <1>2, <2>5 DEF acceptInvitation
    <3> QED
      BY <1>0, <2>2, <2>3, <2>4, <3>1, InvitationWritten
  <2>6. CASE ~ AlreadyMember(addr)
    <3>1. membership' = membership \cup {row} /\ made' = made + 1
      BY <1>2, <2>6 DEF acceptInvitation
    <3>2. row \in Row /\ row.id = made + 1 /\ row.person = addr
      BY <1>0 DEF Row, Invitation
    <3> HIDE DEF row, addr, i, fails
    <3>3. TypeOK'
      BY <1>0, <2>2, <2>3, <2>4, <3>1, <3>2
         DEF MembershipInv, TypeOK, RequestsKept, InvitationsKept
    <3>4. IdsKept
      BY <1>0, <3>1, <3>2 DEF IdsKept, Present
    <3>5. UniqueRows'
      BY <1>0, <2>6, <3>1, <3>2 DEF UniqueRows, AlreadyMember, RowsOf
    <3>6. AlwaysAnOwner'
      BY <3>1 DEF MembershipInv, AlwaysAnOwner, Owners
    <3>7. ASSUME NEW q \in Requests
          PROVE  Justified(req[q])'
      <4>1. PICK y : y = req'[q]
        OBVIOUS
      <4>2. Justified(y)
        BY <2>3, <4>1, IdleRequest DEF MembershipInv, RequestsInOrder, RequestsKept
      <4>3. Justified(y)'
        BY <3>1, <4>2 DEF Justified, Sound
      <4> QED
        BY <4>1, <4>3
    <3> QED
      BY <2>2, <2>3, <3>3, <3>4, <3>5, <3>6, <3>7, WritesKeep DEF MembershipInv, RequestsInOrder
  <2> QED
    BY <2>5, <2>6
<1> QED
  BY <1>1, <1>2

-----------------------------------------------------------------------------
(* The theorems *)

LEMMA MembershipInit == Init => MembershipInv
<1> SUFFICES ASSUME Init PROVE MembershipInv
  OBVIOUS
<1>1. [id |-> 1, person |-> Founder, role |-> "OWNER"] \in Row
  BY FounderAssumption DEF Row, ROLES
<1>2. TypeOK
  BY <1>1, BoundAssumption, FounderAssumption, IdleRequest DEF Init, TypeOK
<1>3. UniqueRows /\ AlwaysAnOwner
  <2>1. PICK row : row = [id |-> 1, person |-> Founder, role |-> "OWNER"]
    OBVIOUS
  <2>2. membership = {row} /\ made = 1
    BY <2>1 DEF Init
  <2>3. row.id = 1 /\ row.role = "OWNER"
    BY <2>1
  <2> QED
    BY <2>2, <2>3 DEF UniqueRows, AlwaysAnOwner, Owners
<1>4. RequestsInOrder /\ LocksExclusive
  BY IdleRequest DEF Init, RequestsInOrder, LocksExclusive
<1>5. InvitedByOwners
  BY DEF Init, InvitedByOwners
<1> QED
  BY <1>2, <1>3, <1>4, <1>5 DEF MembershipInv

LEMMA MembershipNext == MembershipInv /\ [Next]_vars => MembershipInv'
<1> SUFFICES ASSUME MembershipInv, [Next]_vars PROVE MembershipInv'
  OBVIOUS
<1>0. req \in [Requests -> Request] /\ account \subseteq Persons
  BY DEF MembershipInv, TypeOK
<1>1. ASSUME req' = req PROVE RequestsKept
  BY <1>0, <1>1 DEF RequestsKept
<1>2. ASSUME NEW r \in Requests, Starts(r) PROVE MembershipInv'
  BY <1>2, RequestStarts
<1>3. ASSUME NEW r \in Requests, Continues(r) PROVE MembershipInv'
  BY <1>3, LockStatementBegins, LockStatementEnds, Decision, RoleWritten, MemberRemoved,
     InvitationStatements, InvitationCreated, Acceptance DEF Continues
<1>4. ASSUME NEW r \in Requests, RollBack(r) PROVE MembershipInv'
  BY <1>4, EndOfRequest DEF RollBack
<1>5. ASSUME NEW r \in Requests, NEW i \in DOMAIN invitation, NEW p \in Persons \cup {None},
             acceptInvitationAction(r, i, p)
      PROVE  MembershipInv'
  BY <1>5, AcceptanceBegins
<1>6. ASSUME NEW i \in DOMAIN invitation, InvitationExpires(i) PROVE MembershipInv'
  BY <1>0, <1>1, <1>6, StateWritten, InvitationWritten DEF InvitationExpires
<1>7. ASSUME NEW i \in DOMAIN invitation, NEW p \in Persons, revokeInvitation(p, i)
      PROVE  MembershipInv'
  BY <1>0, <1>1, <1>7, StateWritten, InvitationWritten DEF revokeInvitation
<1>8. ASSUME UNCHANGED invitation PROVE InvitationsKept /\ InvitedByOwners'
  BY <1>8 DEF MembershipInv, TypeOK, InvitationsKept, InvitedByOwners
<1>9. ASSUME NEW p \in Persons, registerAction(p) PROVE MembershipInv'
  BY <1>0, <1>1, <1>8, <1>9, InvitationWritten DEF registerAction
<1>10. CASE UNCHANGED vars
  BY <1>0, <1>1, <1>8, <1>10, InvitationWritten DEF vars
<1> QED
  BY <1>2, <1>3, <1>4, <1>5, <1>6, <1>7, <1>9, <1>10 DEF Next

LEMMA MembershipInductive == Spec => []MembershipInv
BY MembershipInit, MembershipNext, PTL DEF Spec

\* Every reachable state is well typed: in particular the role written to a row is
\* one of the four roles, and the acceptance of a link finds it.
THEOREM Typing == Spec => []TypeOK
<1>1. MembershipInv => TypeOK
  BY DEF MembershipInv
<1> QED
  BY <1>1, MembershipInductive, PTL

\* The organization always has an OWNER, for any number of members, requests and
\* interleavings of changeMemberRole, removeMember and acceptInvitation.
THEOREM OwnerRemains == Spec => []AlwaysAnOwner
<1>1. MembershipInv => AlwaysAnOwner
  BY DEF MembershipInv
<1> QED
  BY <1>1, MembershipInductive, PTL

\* Rows of members are written in three places only.
LEMMA RowsWritten ==
    ASSUME MembershipInv, [Next]_vars, membership' # membership
    PROVE  \E r \in Requests : changeMemberRole(r) \/ removeMember(r) \/ acceptInvitation(r)
<1>1. ASSUME NEW r \in Requests, Starts(r) PROVE FALSE
  BY <1>1 DEF Starts, changeRoleAction, removeMemberAction, inviteMemberAction, Start
<1>2. ASSUME NEW r \in Requests, Continues(r)
      PROVE  changeMemberRole(r) \/ removeMember(r) \/ acceptInvitation(r)
  BY <1>2 DEF Continues, lockOrganizationMemberships, LocksGranted, Decide, RevokePrevious,
     PreviousRevoked, createInvitation
<1>3. ASSUME NEW r \in Requests, RollBack(r) PROVE FALSE
  BY <1>3 DEF RollBack
<1>4. ASSUME NEW r \in Requests, NEW i \in DOMAIN invitation, NEW p \in Persons \cup {None},
             acceptInvitationAction(r, i, p)
      PROVE  FALSE
  BY <1>4 DEF acceptInvitationAction
<1>5. ASSUME NEW i \in DOMAIN invitation, NEW p \in Persons, revokeInvitation(p, i)
      PROVE  FALSE
  BY <1>5 DEF revokeInvitation
<1>6. ASSUME NEW p \in Persons, registerAction(p) PROVE FALSE
  BY <1>6 DEF registerAction
<1>7. ASSUME NEW i \in DOMAIN invitation, InvitationExpires(i) PROVE FALSE
  BY <1>7 DEF InvitationExpires
<1> QED
  BY <1>1, <1>2, <1>3, <1>4, <1>5, <1>6, <1>7 DEF Next, vars

\* What an acceptance that adds a member adds, and to whom it belongs.
LEMMA Joining ==
    ASSUME MembershipInv, NEW r \in Requests, acceptInvitation(r), membership' # membership
    PROVE  LET i == req[r].id
               row == [id |-> made + 1, person |-> invitation[i].addr, role |-> invitation[i].role]
           IN  /\ membership' = membership \cup {row}
               /\ RowsOf(invitation[i].addr) = {}
               /\ i \in Pending /\ invitation'[i].state = "accepted"
               /\ invitation[i].addr \in account => req[r].actor = invitation[i].addr
               /\ req[r].pc = "accepting" /\ req[r].op = "accept" /\ req'[r].pc = "idle"
<1> DEFINE i == req[r].id
           addr == invitation[i].addr
<1>0. /\ Context(req[r]) /\ req[r].pc = "accepting" /\ req[r].op = "accept"
      /\ i \in DOMAIN invitation /\ req' = [req EXCEPT ![r] = Idle] /\ r \in DOMAIN req
      /\ (req[r].existed => req[r].actor = addr)
  BY DEF MembershipInv, TypeOK, RequestsInOrder, acceptInvitation, Context
<1>1. ~ ClaimFails(i) /\ ~ CreateUserFails(req[r].existed, addr) /\ ~ AlreadyMember(addr)
  BY DEF acceptInvitation
<1>2. /\ invitation' = [invitation EXCEPT ![i].state = "accepted"]
      /\ membership' = membership \cup
            {[id |-> made + 1, person |-> addr, role |-> invitation[i].role]}
  BY <1>1 DEF acceptInvitation
<1>3. i \in Pending /\ RowsOf(addr) = {} /\ (addr \in account => req[r].actor = addr)
  BY <1>0, <1>1 DEF ClaimFails, AlreadyMember, CreateUserFails
<1>4. invitation'[i].state = "accepted"
  <2>1. invitation[i] \in Invitation
    BY <1>0 DEF MembershipInv, TypeOK
  <2> QED
    BY <1>0, <1>2, <2>1 DEF Invitation
<1>5. req'[r].pc = "idle"
  BY <1>0, IdleRequest
<1> QED
  BY <1>0, <1>2, <1>3, <1>4, <1>5

\* Whoever joins had that address invited, with that role, by a link that was
\* pending and is used up with it; was no member; and was signed in to the account
\* if there was one (acceptInvitation).
THEOREM JoinersInvited == Spec => JoinsAreInvited
<1> DEFINE Joins ==
        \A m \in membership' :
          m.id \notin Present =>
             /\ RowsOf(m.person) = {}
             /\ \E i \in DOMAIN invitation :
                   /\ i \in Pending /\ invitation'[i].state = "accepted"
                   /\ invitation[i].addr = m.person /\ invitation[i].role = m.role
             /\ m.person \in account =>
                   \E r \in Requests :
                      req[r].pc = "accepting" /\ req'[r].pc = "idle" /\ req[r].actor = m.person
<1>1. MembershipInv /\ [Next]_vars => Joins
  <2> SUFFICES ASSUME MembershipInv, [Next]_vars, NEW m \in membership', m.id \notin Present
               PROVE  /\ RowsOf(m.person) = {}
                      /\ \E i \in DOMAIN invitation :
                            /\ i \in Pending /\ invitation'[i].state = "accepted"
                            /\ invitation[i].addr = m.person /\ invitation[i].role = m.role
                      /\ m.person \in account =>
                            \E r \in Requests :
                               /\ req[r].pc = "accepting" /\ req'[r].pc = "idle"
                               /\ req[r].actor = m.person
    OBVIOUS
  <2>1. membership' # membership
    BY DEF Present
  <2>2. PICK r \in Requests : changeMemberRole(r) \/ removeMember(r) \/ acceptInvitation(r)
    BY <2>1, RowsWritten
  <2>3. ~ changeMemberRole(r)
    <3>1. membership \subseteq Row
      BY DEF MembershipInv, TypeOK
    <3> QED
      BY <3>1 DEF changeMemberRole, Present, Row
  <2>4. ~ removeMember(r)
    BY DEF removeMember, Present
  <2> DEFINE i == req[r].id
             row == [id |-> made + 1, person |-> invitation[i].addr, role |-> invitation[i].role]
  <2>5. /\ membership' = membership \cup {row}
        /\ RowsOf(invitation[i].addr) = {}
        /\ i \in Pending /\ invitation'[i].state = "accepted"
        /\ invitation[i].addr \in account => req[r].actor = invitation[i].addr
        /\ req[r].pc = "accepting" /\ req'[r].pc = "idle"
    BY <2>1, <2>2, <2>3, <2>4, Joining
  <2>6. m.person = invitation[i].addr /\ m.role = invitation[i].role
    BY <2>5 DEF Present
  <2> QED
    BY <2>5, <2>6 DEF Pending
<1>2. MembershipInv /\ [Next]_vars => [Joins]_vars
  BY <1>1
<1> QED
  BY <1>2, MembershipInductive, PTL DEF Spec, JoinsAreInvited

LEMMA ChangeMovesByOwners ==
    ASSUME MembershipInv, NEW r \in Requests, changeMemberRole(r), NEW id
    PROVE  /\ req[r] # req'[r]
           /\ ~ IsPrivileged(id, membership) /\ IsPrivileged(id, membership')
                 => req[r].op = "change" /\ req[r].role = "OWNER"
           /\ IsPrivileged(id, membership) /\ ~ IsPrivileged(id, membership')
                 => req[r].role = "OWNER"
<1>0. /\ req[r].pc = "decided" /\ req[r].op = "change" /\ Context(req[r]) /\ Justified(req[r])
      /\ membership \subseteq Row /\ UniqueRows /\ req[r].role \in ROLES
      /\ req' = [req EXCEPT ![r] = Idle] /\ r \in DOMAIN req
  BY DEF MembershipInv, TypeOK, RequestsInOrder, changeMemberRole, Context
<1>1. req[r] # req'[r]
  BY <1>0, IdleRequest
<1>2. PICK t \in membership : t.id = req[r].id /\ canChangeRole(req[r].role, t.role, req[r].new)
  BY <1>0 DEF Justified, Sound
<1>3. t.role \in ROLES /\ req[r].new \in assignableRoles(req[r].role)
      /\ canManageMember(req[r].role, t.role)
  BY <1>0, <1>2 DEF Row, canChangeRole
<1>4. Privileged(req[r].new) \/ Privileged(t.role) => req[r].role = "OWNER"
  BY <1>0, <1>3, OwnersPrivilege
<1> DEFINE Put(m) == IF m.id = req[r].id THEN [m EXCEPT !.role = req[r].new] ELSE m
<1>5. membership' = {Put(m) : m \in membership}
  BY DEF changeMemberRole
<1>6. \A m \in membership : /\ Put(m).id = m.id
                            /\ m.id # req[r].id => Put(m) = m
                            /\ m.id = req[r].id => Put(m).role = req[r].new /\ m = t
  BY <1>0, <1>2 DEF Row, UniqueRows
<1> HIDE DEF Put
<1>7. CASE id = req[r].id
  BY <1>0, <1>1, <1>4, <1>5, <1>6, <1>7 DEF IsPrivileged
<1>8. CASE id # req[r].id
  BY <1>1, <1>5, <1>6, <1>8 DEF IsPrivileged
<1> QED
  BY <1>7, <1>8

LEMMA RemovalMovesByOwners ==
    ASSUME MembershipInv, NEW r \in Requests, removeMember(r), NEW id
    PROVE  /\ req[r] # req'[r]
           /\ IsPrivileged(id, membership') => IsPrivileged(id, membership)
           /\ IsPrivileged(id, membership) /\ ~ IsPrivileged(id, membership')
                 => \E m \in membership :
                       m.id = id /\ (req[r].role = "OWNER" \/ req[r].actor = m.person)
<1>0. /\ req[r].pc = "decided" /\ req[r].op = "remove" /\ Context(req[r]) /\ Justified(req[r])
      /\ membership \subseteq Row /\ UniqueRows /\ req[r].role \in ROLES
      /\ req' = [req EXCEPT ![r] = Idle] /\ r \in DOMAIN req
      /\ membership' = {m \in membership : m.id # req[r].id}
  BY DEF MembershipInv, TypeOK, RequestsInOrder, removeMember, Context
<1>1. req[r] # req'[r]
  BY <1>0, IdleRequest
<1>2. PICK t \in membership :
         t.id = req[r].id /\ (t.person = req[r].actor \/ canManageMember(req[r].role, t.role))
  BY <1>0 DEF Justified, Sound
<1>3. t.role \in ROLES
  BY <1>0 DEF Row
<1>4. IsPrivileged(id, membership') => IsPrivileged(id, membership)
  BY <1>0 DEF IsPrivileged
<1>5. ASSUME IsPrivileged(id, membership), ~ IsPrivileged(id, membership')
      PROVE  t.id = id /\ (req[r].role = "OWNER" \/ req[r].actor = t.person)
  <2>1. PICK m \in membership : m.id = id /\ Privileged(m.role)
    BY <1>5 DEF IsPrivileged
  <2>2. m.id = req[r].id
    BY <1>0, <1>5, <2>1 DEF IsPrivileged
  <2>3. m = t
    BY <1>0, <1>2, <2>2 DEF UniqueRows
  <2> QED
    BY <1>0, <1>2, <1>3, <2>1, <2>3, OwnersPrivilege
<1> QED
  BY <1>1, <1>4, <1>5

\* A privileged role is given by an owner, who changes it or sent the invitation,
\* and taken by an owner or by leaving; for any number of requests, and although
\* the role of the person who asks was read long before the write.
THEOREM OwnersMovePrivilege == Spec => PrivilegeMovesByOwners
<1> DEFINE Given(id) ==
               ~ IsPrivileged(id, membership) /\ IsPrivileged(id, membership') =>
                  \E r \in Requests :
                     /\ req[r] # req'[r]
                     /\ \/ req[r].op = "change" /\ req[r].role = "OWNER"
                        \/ req[r].op = "accept" /\ invitation[req[r].id].by = "OWNER"
           Taken(id) ==
               IsPrivileged(id, membership) /\ ~ IsPrivileged(id, membership') =>
                  \E r \in Requests, m \in membership :
                     /\ m.id = id /\ req[r] # req'[r]
                     /\ req[r].role = "OWNER" \/ req[r].actor = m.person
<1>1. ASSUME MembershipInv, [Next]_vars, NEW id \in 1..made'
      PROVE  Given(id) /\ Taken(id)
  <2>1. CASE membership' = membership
    BY <2>1
  <2>2. CASE membership' # membership
    <3>1. PICK r \in Requests : changeMemberRole(r) \/ removeMember(r) \/ acceptInvitation(r)
      BY <1>1, <2>2, RowsWritten
    <3>2. CASE changeMemberRole(r)
      <4>1. Given(id)
        BY <1>1, <3>2, ChangeMovesByOwners
      <4>2. Taken(id)
        <5> SUFFICES ASSUME IsPrivileged(id, membership), ~ IsPrivileged(id, membership')
                     PROVE  \E q \in Requests, m \in membership :
                               /\ m.id = id /\ req[q] # req'[q]
                               /\ req[q].role = "OWNER" \/ req[q].actor = m.person
          OBVIOUS
        <5>1. PICK m \in membership : m.id = id
          BY DEF IsPrivileged
        <5>2. req[r] # req'[r] /\ req[r].role = "OWNER"
          BY <1>1, <3>2, ChangeMovesByOwners
        <5> QED
          BY <5>1, <5>2
      <4> QED
        BY <4>1, <4>2
    <3>3. CASE removeMember(r)
      BY <1>1, <3>3, RemovalMovesByOwners
    <3>4. CASE acceptInvitation(r)
      <4> DEFINE i == req[r].id
                 row == [id |-> made + 1, person |-> invitation[i].addr,
                         role |-> invitation[i].role]
      <4>1. /\ membership' = membership \cup {row} /\ i \in DOMAIN invitation
            /\ req[r].op = "accept" /\ req[r] # req'[r]
        BY <1>1, <2>2, <3>4, Joining DEF Pending
      <4>2. row.role = invitation[i].role
        OBVIOUS
      <4>3. Privileged(row.role) => invitation[i].by = "OWNER"
        BY <1>1, <4>1, <4>2 DEF MembershipInv, InvitedByOwners
      <4> HIDE DEF row
      <4>4. Given(id)
        BY <4>1, <4>3 DEF IsPrivileged
      <4>5. Taken(id)
        BY <4>1 DEF IsPrivileged
      <4> QED
        BY <4>4, <4>5
    <3> QED
      BY <3>1, <3>2, <3>3, <3>4
  <2> QED
    BY <2>1, <2>2
<1> DEFINE Moves ==
        \A id \in 1..made' :
          /\ ~ IsPrivileged(id, membership) /\ IsPrivileged(id, membership') =>
                \E r \in Requests :
                   /\ req[r] # req'[r]
                   /\ \/ req[r].op = "change" /\ req[r].role = "OWNER"
                      \/ req[r].op = "accept" /\ invitation[req[r].id].by = "OWNER"
          /\ IsPrivileged(id, membership) /\ ~ IsPrivileged(id, membership') =>
                \E r \in Requests, m \in membership :
                   /\ m.id = id /\ req[r] # req'[r]
                   /\ req[r].role = "OWNER" \/ req[r].actor = m.person
<1>2. MembershipInv /\ [Next]_vars => Moves
  BY <1>1
<1>3. MembershipInv /\ [Next]_vars => [Moves]_vars
  BY <1>2
<1> QED
  BY <1>3, MembershipInductive, PTL DEF Spec, PrivilegeMovesByOwners

=============================================================================
