-------------------------------- MODULE Teams --------------------------------
(***************************************************************************)
(* The team of one business: its members, the invitations sent to phone    *)
(* numbers, the number of places its subscription allows, and the pool of  *)
(* database connections the requests share.  AccessGuard reads the         *)
(* membership of the caller before the handler runs; a handler is as many  *)
(* steps as it opens transactions or waits for rows.  A refusal rolls back *)
(* and changes nothing.  Roles without members:manage are one, CASHIER;    *)
(* individual permissions, which cannot grant members:manage, are not      *)
(* told apart; a REMOVED row is as good as none, for its role is never     *)
(* read again, and so is an invitation past its date.                      *)
(***************************************************************************)
EXTENDS Integers, FiniteSets

CONSTANTS Users, Owner,
          Calls,        \* requests one process serves at a time
          PoolMax,      \* connections of its pool (DB_POOL_MAX)
          FreeLimit,    \* members.max of the free plan, the only one code subscribes to
          Overrides,    \* values an administrator may put in its place
          Unlimited,    \* the NULL of an entitlement
          Null

ASSUME OwnerAssumption == Owner \in Users
ASSUME FiniteTeamAssumption == IsFiniteSet(Users) /\ IsFiniteSet(Calls)
ASSUME PoolAssumption == PoolMax \in Nat \ {0}
ASSUME LimitAssumption == FreeLimit \in Nat /\ Overrides \subseteq Nat \cup {Unlimited}
ASSUME NullAssumption == Null \notin Users \cup Overrides /\ Unlimited \notin Nat

VARIABLES
  members,   \* core.business_members, one row per user
  pending,   \* core.business_invitations that can be answered, at most one per number
  override,  \* sub.entitlement_overrides for members.max, Null when absent or out of date
  call       \* what each request has read and where it stands

teamsVars == <<members, pending, override, call>>

Managers == {"OWNER", "ADMIN"}            \* roles with members:manage
OwnerOnly == {"OWNER", "ADMIN"}           \* OWNER_ONLY_ROLES
Assignable == {"ADMIN", "CASHIER"}

Absent == [role |-> Null, status |-> "REMOVED"]
Member == [role : Assignable \cup {"OWNER"}, status : {"ACTIVE", "SUSPENDED"}]
NoInvitation == [role |-> Null, by |-> Null]
Invitation == [role : Assignable, by : Managers]   \* by: the role of the inviter

\* Steps at which a request holds a connection of the pool.
Holding == {"lock", "write", "insert", "revoke", "answer", "acceptLimit", "acceptSeats", "acceptWrite"}
Call == [pc : Holding \cup {"idle", "handler", "count"}, actor : Users \cup {Null},
         role : Managers \cup {Null}, user : Users \cup {Null}, as : Assignable \cup {Null},
         lim : Nat \cup {Unlimited}, raced : BOOLEAN]
NoCall == [pc |-> "idle", actor |-> Null, role |-> Null, user |-> Null, as |-> Null,
           lim |-> 0, raced |-> FALSE]

TeamsTypeOK ==
  /\ members \in [Users -> Member \cup {Absent}]
  /\ pending \in [Users -> Invitation \cup {NoInvitation}]
  /\ override \in Overrides \cup {Null}
  /\ call \in [Calls -> Call]

TeamsInit ==
  /\ members = [u \in Users |-> Absent]
  /\ pending = [u \in Users |-> NoInvitation]
  /\ override = Null
  /\ call = [r \in Calls |-> NoCall]

-----------------------------------------------------------------------------
(* Places, connections, locks                                              *)

Team == {u \in Users : members[u] # Absent}
Invited == {u \in Users : pending[u] # NoInvitation}
Seats == Cardinality(Team) + Cardinality(Invited)

\* SubscriptionsService.limit: the override in force, or the value of the plan.
Limit == IF override = Null THEN FreeLimit ELSE override
\* A mutant: one place too many.
RoomForOneMore(limit, seats) == limit = Unlimited \/ seats <= limit
RoomFor(limit, seats) == limit = Unlimited \/ seats < limit

Held == {r \in Calls : call[r].pc \in Holding}
\* A mutant: a connection that was not given back.
FreeConnectionButOne == Cardinality(Held) + 1 < PoolMax
FreeConnection == Cardinality(Held) < PoolMax

MemberLocked(u) == \E r \in Calls : call[r].pc = "write" /\ call[r].user = u
InvitationLocked(u) ==
  \E r \in Calls : call[r].pc \in {"acceptLimit", "acceptSeats", "acceptWrite"} /\ call[r].user = u

MoveOn(r, pc) == call' = [call EXCEPT ![r].pc = pc]
End(r) == call' = [call EXCEPT ![r] = NoCall]

\* The step that settles the invitation of u ends the requests that wait to answer it:
\* they find it no longer PENDING.
Settled(r, u, s) == s = r \/ (call[s].pc = "answer" /\ call[s].user = u)
Settle(r, u) == call' = [s \in Calls |-> IF Settled(r, u, s) THEN NoCall ELSE call[s]]

\* And one that takes a place, or fills it, overtakes the requests that have counted them.
SettleAndOvertake(r, u) ==
  call' = [s \in Calls |->
            IF Settled(r, u, s) THEN NoCall
            ELSE [call[s] EXCEPT !.raced = @ \/ call[s].pc \in {"insert", "acceptWrite"}]]

-----------------------------------------------------------------------------
(* The business and its members                                            *)

Create(r) ==
  /\ call[r].pc = "idle" /\ FreeConnection
  /\ members[Owner] = Absent
  /\ members' = [members EXCEPT ![Owner] = [role |-> "OWNER", status |-> "ACTIVE"]]
  /\ UNCHANGED <<pending, override, call>>

\* AccessGuard: the role of the caller is read here and used by the handler later.
Guard(r) ==
  /\ call[r].pc = "idle" /\ FreeConnection
  /\ \E u \in Users :
       /\ members[u].status = "ACTIVE" /\ members[u].role \in Managers
       /\ call' = [call EXCEPT ![r] = [NoCall EXCEPT !.pc = "handler", !.actor = u,
                                                 !.role = members[u].role]]
  /\ UNCHANGED <<members, pending, override>>

MayAssign(q, role) == q.role = "OWNER" \/ role \notin OwnerOnly

\* Changes of a member open their transaction, then targetFor waits for the row.
BeginManage(r) ==
  /\ call[r].pc = "handler" /\ FreeConnection
  /\ \E u \in Users \ {call[r].actor} :
       call' = [call EXCEPT ![r].pc = "lock", ![r].actor = Null, ![r].user = u]
  /\ UNCHANGED <<members, pending, override>>

\* targetFor: never the owner, an administrator only for the owner.
MayManage(q) ==
  /\ q.user \in Team
  /\ members[q.user].role # "OWNER"
  /\ q.role = "OWNER" \/ members[q.user].role \notin OwnerOnly

TargetFor(r) ==
  /\ call[r].pc = "lock"
  /\ ~MemberLocked(call[r].user)
  /\ IF MayManage(call[r]) THEN MoveOn(r, "write") ELSE End(r)
  /\ UNCHANGED <<members, pending, override>>

Write(r, row) ==
  /\ call[r].pc = "write"
  /\ members' = [members EXCEPT ![call[r].user] = row]
  /\ End(r)
  /\ UNCHANGED <<pending, override>>

Target(r) == members[call[r].user]

ChangeMemberRole(r) ==
  \E role \in Assignable :
    /\ MayAssign(call[r], role)
    /\ Write(r, [Target(r) EXCEPT !.role = role])

SetPermissionOverrides(r) == Write(r, Target(r))

SetMemberStatus(r) ==
  \E status \in {"ACTIVE", "SUSPENDED"} : Write(r, [Target(r) EXCEPT !.status = status])

RemoveMember(r) == Write(r, Absent)

-----------------------------------------------------------------------------
(* Invitations, from the team                                              *)

\* The limit is read in a transaction of its own.
Invite(r) ==
  /\ call[r].pc = "handler" /\ FreeConnection
  /\ \E u \in Users, role \in Assignable :
       /\ MayAssign(call[r], role)
       /\ call' = [call EXCEPT ![r] = [@ EXCEPT !.pc = "count", !.actor = Null, !.user = u,
                                                !.as = role, !.lim = Limit]]
  /\ UNCHANGED <<members, pending, override>>

\* The places are counted, but for the invitation this one replaces.
CountSeats(r) ==
  LET q == call[r] IN
  /\ q.pc = "count" /\ FreeConnection
  /\ IF q.user \notin Team /\ RoomFor(q.lim, Cardinality(Team) + Cardinality(Invited \ {q.user}))
     THEN MoveOn(r, "insert") ELSE End(r)
  /\ UNCHANGED <<members, pending, override>>

\* The invitation of this number that is pending is revoked (waiting for its row), the
\* new one inserted.
InsertInvitation(r) ==
  LET q == call[r] IN
  /\ q.pc = "insert"
  /\ ~InvitationLocked(q.user)
  /\ pending' = [pending EXCEPT ![q.user] = [role |-> q.as, by |-> q.role]]
  /\ SettleAndOvertake(r, q.user)
  /\ UNCHANGED <<members, override>>

BeginRevoke(r) ==
  /\ call[r].pc = "handler" /\ FreeConnection
  /\ \E u \in Invited :
       call' = [call EXCEPT ![r] = [NoCall EXCEPT !.pc = "revoke", !.user = u]]
  /\ UNCHANGED <<members, pending, override>>

RevokeInvitation(r) ==
  LET u == call[r].user IN
  /\ call[r].pc = "revoke"
  /\ ~InvitationLocked(u)
  /\ pending' = [pending EXCEPT ![u] = NoInvitation]
  /\ Settle(r, u)
  /\ UNCHANGED <<members, override>>

\* Seven days have passed: the row stays PENDING, but is neither counted nor answered.  An
\* acceptance under way goes on, and takes off its count a place that is not counted.
Expire ==
  /\ \E u \in Invited :
       /\ pending' = [pending EXCEPT ![u] = NoInvitation]
       /\ call' = [r \in Calls |->
                    IF call[r].user # u THEN call[r]
                    ELSE IF call[r].pc = "answer" THEN NoCall
                    ELSE [call[r] EXCEPT !.raced = @ \/ call[r].pc \in {"acceptLimit", "acceptSeats"}]]
  /\ UNCHANGED <<members, override>>

-----------------------------------------------------------------------------
(* Invitations, from the invited person                                    *)

BeginAnswer(r) ==
  /\ call[r].pc = "idle" /\ FreeConnection
  /\ \E u \in Invited :
       call' = [call EXCEPT ![r] = [NoCall EXCEPT !.pc = "answer", !.user = u]]
  /\ UNCHANGED <<members, pending, override>>

\* pendingInvitationFor: SELECT ... FOR UPDATE, which waits for an acceptance under way.
Pending(r) ==
  /\ call[r].pc = "answer"
  /\ call[r].user \in Invited
  /\ ~InvitationLocked(call[r].user)

DeclineInvitation(r) ==
  /\ Pending(r)
  /\ pending' = [pending EXCEPT ![call[r].user] = NoInvitation]
  /\ Settle(r, call[r].user)
  /\ UNCHANGED <<members, override>>

\* The role is read with the invitation.
AcceptInvitation(r) ==
  LET inv == pending[call[r].user] IN
  /\ Pending(r)
  /\ call' = [call EXCEPT ![r].pc = "acceptLimit", ![r].as = inv.role, ![r].role = inv.by]
  /\ UNCHANGED <<members, pending, override>>

\* The limit, and then the places, are each read on a second connection of the pool.
AcceptReadLimit(r) ==
  /\ call[r].pc = "acceptLimit" /\ FreeConnection
  /\ call' = [call EXCEPT ![r].pc = IF Limit = Unlimited THEN "acceptWrite" ELSE "acceptSeats",
                        ![r].lim = Limit]
  /\ UNCHANGED <<members, pending, override>>

AcceptCountSeats(r) ==
  /\ call[r].pc = "acceptSeats" /\ FreeConnection
  /\ IF RoomFor(call[r].lim, Seats - 1) THEN MoveOn(r, "acceptWrite") ELSE End(r)
  /\ UNCHANGED <<members, pending, override>>

\* INSERT ... ON CONFLICT DO UPDATE, waiting for the row of the member.
AcceptWrite(r) ==
  LET u == call[r].user IN
  /\ call[r].pc = "acceptWrite"
  /\ ~MemberLocked(u)
  /\ members' = [members EXCEPT ![u] = [role |-> call[r].as, status |-> "ACTIVE"]]
  /\ pending' = [pending EXCEPT ![u] = NoInvitation]
  /\ SettleAndOvertake(r, u)
  /\ UNCHANGED override

-----------------------------------------------------------------------------
(* The administration, the clock, failures                                 *)

SetOverride ==
  /\ \E v \in Overrides : v # override /\ override' = v
  /\ UNCHANGED <<members, pending, call>>

\* Removed by an administrator, or past its date.
RemoveOverride ==
  /\ override # Null
  /\ override' = Null
  /\ UNCHANGED <<members, pending, call>>

\* Holders that wait: for a row, or for one more connection.
NeedsConnection(r) == call[r].pc \in {"acceptLimit", "acceptSeats"} /\ ~FreeConnection
Waiting(r) ==
  \/ NeedsConnection(r)
  \/ call[r].pc \in {"lock", "acceptWrite"} /\ MemberLocked(call[r].user)
  \/ call[r].pc \in {"insert", "revoke", "answer"} /\ InvitationLocked(call[r].user)

\* A statement fails, or waits for a row longer than statement_timeout.  Nothing limits the
\* wait for a connection.
RollBack(r) ==
  /\ call[r].pc # "idle"
  /\ ~NeedsConnection(r)
  /\ End(r)
  /\ UNCHANGED <<members, pending, override>>

\* idle_in_transaction_session_timeout: after thirty seconds PostgreSQL ends the session of
\* an acceptance that waits; nothing handles the error of a connection in use, and the
\* process ends with all its requests.
ProcessEnds ==
  /\ \E r \in Calls : NeedsConnection(r)
  /\ call' = [r \in Calls |-> NoCall]
  /\ UNCHANGED <<members, pending, override>>

Manage(r) ==
  \/ BeginManage(r) \/ TargetFor(r)
  \/ ChangeMemberRole(r) \/ SetPermissionOverrides(r) \/ SetMemberStatus(r) \/ RemoveMember(r)
Propose(r) == Invite(r) \/ CountSeats(r) \/ InsertInvitation(r) \/ BeginRevoke(r) \/ RevokeInvitation(r)
Reply(r) ==
  \/ DeclineInvitation(r) \/ AcceptInvitation(r)
  \/ AcceptReadLimit(r) \/ AcceptCountSeats(r) \/ AcceptWrite(r)

TeamsNext ==
  \/ \E r \in Calls :
       \/ Create(r) \/ Guard(r) \/ BeginAnswer(r)
       \/ Manage(r) \/ Propose(r) \/ Reply(r) \/ RollBack(r)
  \/ Expire \/ SetOverride \/ RemoveOverride \/ ProcessEnds

TeamsSpec == TeamsInit /\ [][TeamsNext]_teamsVars

-----------------------------------------------------------------------------
(* Properties                                                              *)

\* Members and pending invitations keep to the limit that was read, though it is read,
\* the places counted and the row inserted at three moments: they pass it only when
\* another invitation was inserted between the count and the insertion.
SeatsWithinLimit ==
  [][(Cardinality(Team') + Cardinality(Invited') > Seats \/ Cardinality(Team') > Cardinality(Team))
       => \/ members[Owner] = Absent
          \/ \E r \in Calls :
               /\ call[r].pc \in {"insert", "acceptWrite"} /\ call'[r].pc = "idle"
               /\ \/ call[r].lim = Unlimited
                  \/ call[r].raced
                  \/ Cardinality(Team') + Cardinality(Invited') <= call[r].lim]_teamsVars

\* Rows are locked in an order without cycles: requests that all wait for each other are
\* always waiting for an acceptance which holds its invitation and one connection while it
\* asks the pool, all of which is taken, for another (businesses.service.ts:524-526).  With
\* fewer acceptances at a time than connections a request always goes on.
OnlyAcceptancesWedge ==
  (Held # {} /\ \A r \in Held : Waiting(r)) =>
    /\ \E r \in Held : NeedsConnection(r)
    /\ Cardinality(Held) = PoolMax
=============================================================================
