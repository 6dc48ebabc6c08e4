----------------------------- MODULE Membership -----------------------------
(***************************************************************************)
(* The members of one organization: src/lib/auth/members.ts,               *)
(* invitations.ts, permissions.ts and the server actions that call them.   *)
(*                                                                         *)
(* Each request is a sequence of database statements and other requests    *)
(* run between them.  The database is PostgreSQL at READ COMMITTED: a      *)
(* statement sees what was committed when it started, SELECT ... FOR       *)
(* UPDATE and UPDATE wait for the rows another transaction holds, and a    *)
(* row inserted after the statement started is neither seen nor locked.    *)
(***************************************************************************)
EXTENDS Naturals, FiniteSets, Sequences

CONSTANTS
    Persons,          \* e-mail addresses; an account is identified by its own
    Requests,         \* requests the server runs at the same time
    Founder,          \* the person the organization was created for
    MaxStarts,        \* bound: requests that administer members
    AskedRoles,       \* bound: the roles requests ask for
    None

ASSUME FounderAssumption == Founder \in Persons
ASSUME NoneAssumption == None \notin Persons \cup {"OWNER", "ADMIN", "OPERATOR", "VIEWER"}
ASSUME BoundAssumption == MaxStarts \in Nat
ASSUME AskedAssumption == AskedRoles \subseteq {"OWNER", "ADMIN", "OPERATOR", "VIEWER"}

VARIABLES
    membership,   \* rows of the organization: [id, person, role]
    made,         \* memberships ever created (row ids are not reused)
    account,      \* persons that have an account
    invitation,   \* every invitation ever sent, in order
    started,      \* administrative requests so far
    req           \* what each request has read and where it stands

vars == <<membership, made, account, invitation, started, req>>

-----------------------------------------------------------------------------
(* permissions.ts *)

ROLES == {"OWNER", "ADMIN", "OPERATOR", "VIEWER"}

ROLE_RANK == [VIEWER |-> 0, OPERATOR |-> 1, ADMIN |-> 2, OWNER |-> 3]

\* The lowest rank that holds each kind of permission: every role has the
\* permissions of the one below it.
NeededRank == [read |-> 0, operate |-> 1, configure |-> 2,
               invite |-> 2, manage |-> 2, managePrivileged |-> 3]

can(role, permission) == role \in ROLES /\ ROLE_RANK[role] >= NeededRank[permission]

assignableRoles(role) ==
    IF can(role, "managePrivileged") THEN ROLES
    ELSE IF can(role, "manage") THEN {"OPERATOR", "VIEWER"}
    ELSE {}

canManageMember_UpToAdmin(role, targetRole) ==
    \/ can(role, "managePrivileged")
    \/ can(role, "manage") /\ ROLE_RANK[targetRole] <= ROLE_RANK["ADMIN"]

canManageMember(role, targetRole) ==
    \/ can(role, "managePrivileged")
    \/ can(role, "manage") /\ ROLE_RANK[targetRole] < ROLE_RANK["ADMIN"]

canChangeRole(role, targetRole, newRole) ==
    canManageMember(role, targetRole) /\ newRole \in assignableRoles(role)

-----------------------------------------------------------------------------
(* State *)

Row == [id : Nat, person : Persons, role : ROLES]

\* `by` is the role its sender had when authorized; the code keeps the sender.
Invitation == [addr : Persons, role : ROLES, by : ROLES,
               state : {"live", "expired", "accepted", "revoked"}]

Request == [pc      : {"idle", "authorized", "waiting", "locked", "decided", "accepting"},
            op      : {"none", "change", "remove", "invite", "accept"},
            actor   : Persons \cup {None},     \* the signed-in user
            role    : ROLES \cup {None},       \* as authorize() read it
            id      : Nat,                     \* membership or invitation acted on
            addr    : Persons \cup {None},     \* address invited
            new     : ROLES \cup {None},       \* role asked for
            existed : BOOLEAN,                 \* acceptance: the account was there
            rows    : SUBSET Nat]              \* rows selected for update

Idle == [pc |-> "idle", op |-> "none", actor |-> None, role |-> None, id |-> 0,
         addr |-> None, new |-> None, existed |-> FALSE, rows |-> {}]

TypeOK ==
    /\ membership \subseteq Row
    /\ made \in Nat
    /\ account \subseteq Persons
    /\ invitation \in Seq(Invitation)
    /\ started \in 0..MaxStarts
    /\ req \in [Requests -> Request]

\* createUser and createOrganization: the account, the organization and its
\* OWNER membership.
Init ==
    /\ membership = {[id |-> 1, person |-> Founder, role |-> "OWNER"]}
    /\ made = 1
    /\ account = {Founder}
    /\ invitation = <<>>
    /\ started = 0
    /\ req = [r \in Requests |-> Idle]

RowsOf(p) == {m \in membership : m.person = p}
Present == {m.id : m \in membership}
Owners == {m \in membership : m.role = "OWNER"}
Pending == {i \in DOMAIN invitation : invitation[i].state \in {"live", "expired"}}

\* Rows of the same table that other transactions hold until they commit.
Table(op) == IF op \in {"change", "remove"} THEN "membership" ELSE "invitation"
Held(r) ==
    UNION {req[q].rows : q \in {q \in Requests \ {r} :
              /\ req[q].pc \in {"locked", "decided"}
              /\ Table(req[q].op) = Table(req[r].op)}}

-----------------------------------------------------------------------------
(* A request starts: authorize() resolves the session's user, and the role
   that is true at this moment serves the whole request. *)

Start(r, op, p, permission, fields) ==
    /\ req[r].pc = "idle"
    /\ started < MaxStarts
    /\ \E m \in RowsOf(p) :
          /\ can(m.role, permission)
          /\ req' = [req EXCEPT ![r] =
                [pc |-> "authorized", op |-> op, actor |-> p, role |-> m.role,
                 id |-> fields.id, addr |-> fields.addr, new |-> fields.new,
                 existed |-> FALSE, rows |-> {}]]
    /\ started' = started + 1
    /\ UNCHANGED <<membership, made, account, invitation>>

changeRoleAction(r, p, id, new) ==
    Start(r, "change", p, "manage", [id |-> id, addr |-> None, new |-> new])

\* Leaving needs no permission: any role passes authorize().
removeMemberAction(r, p, id) ==
    Start(r, "remove", p, "read", [id |-> id, addr |-> None, new |-> None])

inviteMemberAction(r, p, addr, new) ==
    /\ \E m \in RowsOf(p) : new \in assignableRoles(m.role)
    /\ Start(r, "invite", p, "invite", [id |-> 0, addr |-> addr, new |-> new])

-----------------------------------------------------------------------------
(* changeMemberRole and removeMember: one transaction *)

\* The statement starts: it will lock the rows that exist now.
lockOrganizationMemberships(r) ==
    /\ req[r].pc = "authorized" /\ req[r].op \in {"change", "remove"}
    /\ req' = [req EXCEPT ![r].pc = "waiting", ![r].rows = Present]
    /\ UNCHANGED <<membership, made, account, invitation, started>>

\* It returns once no other transaction holds one of them; rows deleted in the
\* meantime are skipped.
LocksGranted_NoWait(r) ==
    /\ req[r].pc = "waiting" /\ req[r].op \in {"change", "remove"}
    /\ req' = [req EXCEPT ![r].pc = "locked", ![r].rows = req[r].rows \cap Present]
    /\ UNCHANGED <<membership, made, account, invitation, started>>

LocksGranted(r) ==
    /\ req[r].pc = "waiting" /\ req[r].op \in {"change", "remove"}
    /\ req[r].rows \cap Held(r) = {}
    /\ req' = [req EXCEPT ![r].pc = "locked", ![r].rows = req[r].rows \cap Present]
    /\ UNCHANGED <<membership, made, account, invitation, started>>

\* What the transaction decides from the rows it reads under the lock.
MayChange(q, target) ==
    /\ target.person # q.actor
    /\ canChangeRole(q.role, target.role, q.new)
    /\ target.role # q.new
    /\ target.role = "OWNER" => Cardinality(Owners) > 1

MayRemove(q, target) ==
    /\ target.person = q.actor \/ canManageMember(q.role, target.role)
    /\ target.role = "OWNER" => Cardinality(Owners) > 1

Allowed(q) ==
    \E target \in membership :
        /\ target.id = q.id
        /\ IF q.op = "change" THEN MayChange(q, target) ELSE MayRemove(q, target)

Decide(r) ==
    /\ req[r].pc = "locked" /\ req[r].op \in {"change", "remove"}
    /\ req' = [req EXCEPT ![r] = IF Allowed(req[r]) THEN [req[r] EXCEPT !.pc = "decided"]
                                 ELSE Idle]
    /\ UNCHANGED <<membership, made, account, invitation, started>>

\* The write, and the commit that releases the locks.
changeMemberRole_WrongField(r) ==
    /\ req[r].pc = "decided" /\ req[r].op = "change"
    /\ membership' = {IF m.id = req[r].id THEN [m EXCEPT !.role = req[r].addr] ELSE m :
                         m \in membership}
    /\ req' = [req EXCEPT ![r] = Idle]
    /\ UNCHANGED <<made, account, invitation, started>>

changeMemberRole(r) ==
    /\ req[r].pc = "decided" /\ req[r].op = "change"
    /\ membership' = {IF m.id = req[r].id THEN [m EXCEPT !.role = req[r].new] ELSE m :
                         m \in membership}
    /\ req' = [req EXCEPT ![r] = Idle]
    /\ UNCHANGED <<made, account, invitation, started>>

removeMember(r) ==
    /\ req[r].pc = "decided" /\ req[r].op = "remove"
    /\ membership' = {m \in membership : m.id # req[r].id}
    /\ req' = [req EXCEPT ![r] = Idle]
    /\ UNCHANGED <<made, account, invitation, started>>

-----------------------------------------------------------------------------
(* createInvitation: one transaction, no lock on the address *)

\* Not a member yet; the statement that will revoke the address's pending
\* links starts.
RevokePrevious(r) ==
    /\ req[r].pc = "authorized" /\ req[r].op = "invite"
    /\ req' = [req EXCEPT ![r] =
          IF RowsOf(req[r].addr) # {} THEN Idle
          ELSE [req[r] EXCEPT !.pc = "waiting",
                   !.rows = {i \in Pending : invitation[i].addr = req[r].addr}]]
    /\ UNCHANGED <<membership, made, account, invitation, started>>

PreviousRevoked(r) ==
    /\ req[r].pc = "waiting" /\ req[r].op = "invite"
    /\ req[r].rows \cap Held(r) = {}
    /\ req' = [req EXCEPT ![r].pc = "locked", ![r].rows = req[r].rows \cap Pending]
    /\ UNCHANGED <<membership, made, account, invitation, started>>

createInvitation(r) ==
    /\ req[r].pc = "locked" /\ req[r].op = "invite"
    /\ invitation' = Append(
          [i \in DOMAIN invitation |->
              IF i \in req[r].rows THEN [invitation[i] EXCEPT !.state = "revoked"]
              ELSE invitation[i]],
          [addr |-> req[r].addr, role |-> req[r].new, by |-> req[r].role,
           state |-> "live"])
    /\ req' = [req EXCEPT ![r] = Idle]
    /\ UNCHANGED <<membership, made, account, started>>

\* revokeInvitation is one conditional UPDATE; it waits for a transaction
\* that holds the row.
revokeInvitation(p, i) ==
    /\ \E m \in RowsOf(p) : can(m.role, "invite")
    /\ i \in Pending
    /\ \A q \in Requests :
          ~ (req[q].op = "invite" /\ req[q].pc = "locked" /\ i \in req[q].rows)
    /\ invitation' = [invitation EXCEPT ![i].state = "revoked"]
    /\ UNCHANGED <<membership, made, account, started, req>>

\* Seven days pass.
InvitationExpires(i) ==
    /\ i \in DOMAIN invitation /\ invitation[i].state = "live"
    /\ invitation' = [invitation EXCEPT ![i].state = "expired"]
    /\ UNCHANGED <<membership, made, account, started, req>>

-----------------------------------------------------------------------------
(* acceptInvitation *)

\* What is checked before the transaction: an existing account must be the
\* signed-in one, otherwise a password is given.
Acceptable(i, signedIn) ==
    /\ i \in DOMAIN invitation /\ invitation[i].state = "live"
    /\ invitation[i].addr \in account => signedIn = invitation[i].addr

\* Whoever holds the link opens it, signed in or not.
acceptInvitationAction(r, i, signedIn) ==
    /\ req[r].pc = "idle"
    /\ signedIn \in account \cup {None}
    /\ Acceptable(i, signedIn)
    /\ req' = [req EXCEPT ![r] =
          [Idle EXCEPT !.pc = "accepting", !.op = "accept", !.id = i,
                       !.existed = invitation[i].addr \in account,
                       !.actor = IF invitation[i].addr \in account THEN signedIn ELSE None]]
    /\ UNCHANGED <<membership, made, account, invitation, started>>

\* createUser inside the transaction: the unique e-mail index refuses a second
\* account.
CreateUserFails_FindOrCreate(existed, addr) == FALSE

CreateUserFails(existed, addr) == ~ existed /\ addr \in account

\* The conditional update of acceptedAt matches no row.
ClaimFails(i) == i \notin Pending

\* The upsert finds the membership.
AlreadyMember(addr) == RowsOf(addr) # {}

\* The transaction: claim the link, create the account if there was none, and
\* add the membership; an existing one keeps its role.
acceptInvitation(r) ==
    LET i == req[r].id
        addr == invitation[i].addr
        fails == ClaimFails(i) \/ CreateUserFails(req[r].existed, addr)
    IN  /\ req[r].pc = "accepting"
        /\ \A q \in Requests :
              ~ (req[q].op = "invite" /\ req[q].pc = "locked" /\ i \in req[q].rows)
        /\ req' = [req EXCEPT ![r] = Idle]
        /\ UNCHANGED started
        /\ IF fails
           THEN UNCHANGED <<membership, made, account, invitation>>
           ELSE /\ invitation' = [invitation EXCEPT ![i].state = "accepted"]
                /\ account' = account \cup {addr}
                /\ IF AlreadyMember(addr)
                   THEN UNCHANGED <<membership, made>>
                   ELSE /\ membership' = membership \cup
                              {[id |-> made + 1, person |-> addr, role |-> invitation[i].role]}
                        /\ made' = made + 1

\* Open registration, or the command for the first owner of another
\* organization: an account appears, outside this organization.
registerAction(p) ==
    /\ p \notin account
    /\ account' = account \cup {p}
    /\ UNCHANGED <<membership, made, invitation, started, req>>

\* A transaction fails (a refused password, an audit insert, a lost
\* connection, a deadlock the database breaks) and is rolled back.
RollBack(r) ==
    /\ req[r].pc # "idle"
    /\ req' = [req EXCEPT ![r] = Idle]
    /\ UNCHANGED <<membership, made, account, invitation, started>>

-----------------------------------------------------------------------------
Starts(r) ==
    \E p \in Persons :
        \/ \E m \in membership :
              \/ \E new \in AskedRoles : changeRoleAction(r, p, m.id, new)
              \/ removeMemberAction(r, p, m.id)
        \/ \E addr \in Persons, new \in AskedRoles : inviteMemberAction(r, p, addr, new)

Continues(r) ==
    \/ lockOrganizationMemberships(r) \/ LocksGranted(r) \/ Decide(r)
    \/ changeMemberRole(r) \/ removeMember(r)
    \/ RevokePrevious(r) \/ PreviousRevoked(r) \/ createInvitation(r)
    \/ acceptInvitation(r)

Next ==
    \/ \E r \in Requests : Starts(r) \/ Continues(r) \/ RollBack(r)
    \/ \E r \in Requests, i \in DOMAIN invitation, p \in Persons \cup {None} :
          acceptInvitationAction(r, i, p)
    \/ \E i \in DOMAIN invitation :
          InvitationExpires(i) \/ \E p \in Persons : revokeInvitation(p, i)
    \/ \E p \in Persons : registerAction(p)

Spec == Init /\ [][Next]_vars

-----------------------------------------------------------------------------
(* Properties *)

\* The organization is never left without an OWNER, whatever its owners do to
\* each other at the same moment (lockOrganizationMemberships, the last_owner
\* checks).
AlwaysAnOwner == Owners # {}

\* A person joins once, by using up one link: whoever appears was no member, had
\* exactly that address invited with that role by a link that was pending, and
\* was signed in if the account existed by then, even when two links are accepted
\* together, one is revoked or replaced, or the account is registered meanwhile
\* (acceptInvitation: claim, createUser and upsert in one transaction).
JoinsAreInvited ==
    [][\A m \in membership' :
          m.id \notin Present =>
             /\ RowsOf(m.person) = {}
             /\ \E i \in DOMAIN invitation :
                   /\ i \in Pending /\ invitation'[i].state = "accepted"
                   /\ invitation[i].addr = m.person /\ invitation[i].role = m.role
             /\ m.person \in account =>
                   \E r \in Requests :
                      req[r].pc = "accepting" /\ req'[r].pc = "idle" /\ req[r].actor = m.person]_vars

Privileged(role) == role \in {"OWNER", "ADMIN"}

IsPrivileged(id, rows) == \E m \in rows : m.id = id /\ Privileged(m.role)

\* ADMIN and OWNER are only ever handed out by an owner, by the one whose request
\* changes the role or the one who sent the invitation, and lost to an owner or
\* by leaving (assignableRoles and canManageMember, through the lock, the decision
\* and the write, and over invitation and acceptance together).
PrivilegeMovesByOwners ==
    [][\A id \in 1..made' :
          /\ ~ IsPrivileged(id, membership) /\ IsPrivileged(id, membership') =>
                \E r \in Requests :
                   /\ req[r] # req'[r]
                   /\ \/ req[r].op = "change" /\ req[r].role = "OWNER"
                      \/ req[r].op = "accept" /\ invitation[req[r].id].by = "OWNER"
          /\ IsPrivileged(id, membership) /\ ~ IsPrivileged(id, membership') =>
                \E r \in Requests, m \in membership :
                   /\ m.id = id /\ req[r] # req'[r]
                   /\ req[r].role = "OWNER" \/ req[r].actor = m.person]_vars

=============================================================================
