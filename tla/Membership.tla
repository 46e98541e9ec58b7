------------------------------ MODULE Membership ------------------------------
(* Organisations, members and invitations (src/core/tenancy). Every request is *)
(* one READ COMMITTED transaction that reads without locks; user_orgs is unique *)
(* on (user, organisation) and an invitation is marked accepted only once.     *)
EXTENDS Naturals, FiniteSets

CONSTANTS
  People,       \* users
  Shops,        \* rows of `organizations`
  MaxInvites,   \* bound: rows of `invites`, numbered as they are inserted
  Recruiters,       \* requests being served
  SeatsMax,     \* bound: manager seats a plan grants
  Offered       \* roles people are invited to

VARIABLES
  shops,        \* organisations that exist
  member,       \* user_orgs: user, organisation, role
  seats,        \* manager seats of the active plan, {} without a plan
  invite,       \* the invitations
  seated,       \* <<invitation, user>> that added a member
  allowed,      \* largest seat limit an invitation was judged against
  recruiter         \* what each request has read

memberVars == <<shops, member, seats, invite, seated, allowed, recruiter>>

Invites == 1..MaxInvites

\* owner and viewer are not limited; staff are counted exactly as managers are
RoleRank == [owner |-> 3, manager |-> 2, viewer |-> 0]
Roles == DOMAIN RoleRank

ASSUME MembershipAssumption ==
  /\ IsFiniteSet(Recruiters) /\ Recruiters # {} /\ Offered \subseteq Roles
  /\ MaxInvites \in Nat /\ SeatsMax \in Nat

NoInvite == [state |-> "absent", org |-> {}, role |-> "viewer"]
Free == [doing |-> "nothing", who |-> {}, org |-> {}, role |-> "viewer", invite |-> {}]

MembershipInit ==
  /\ shops = {} /\ member = {} /\ seats = [o \in Shops |-> {}]
  /\ invite = [i \in Invites |-> NoInvite] /\ seated = {}
  /\ allowed = [o \in Shops |-> 0]
  /\ recruiter = [k \in Recruiters |-> Free]

Take(k, what) == recruiter[k] = Free /\ recruiter' = [recruiter EXCEPT ![k] = what]
Leave(k) == recruiter' = [recruiter EXCEPT ![k] = Free]
MemberOf(o) == {m \in member : m.org = o}
In(o, role) == {m \in MemberOf(o) : m.role = role}
Open(o, role) == {i \in Invites : invite[i] = [state |-> "open", org |-> {o}, role |-> role]}

-----------------------------------------------------------------------------
(* Organisations                                                             *)

(* create_org: a user who has an organisation gets that one back             *)
LookForOrg(k, u) ==
  /\ \A m \in member : m.user # u
  /\ Take(k, [Free EXCEPT !.doing = "create", !.who = {u}])
  /\ UNCHANGED <<shops, member, seats, invite, seated, allowed>>
CreateOrg(k, u, o) ==
  /\ recruiter[k].doing = "create" /\ recruiter[k].who = {u} /\ o \notin shops
  /\ shops' = shops \cup {o}
  /\ member' = member \cup {[user |-> u, org |-> o, role |-> "owner"]}
  /\ Leave(k)
  /\ UNCHANGED <<seats, invite, seated, allowed>>

(* provision_store: organisation, owner, membership and subscription in one  *)
(* transaction, with an active plan and a pack that exists                   *)
ProvisionStore(u, o, n) ==
  /\ o \notin shops
  /\ shops' = shops \cup {o}
  /\ member' = member \cup {[user |-> u, org |-> o, role |-> "owner"]}
  /\ seats' = [seats EXCEPT ![o] = {n}]
  /\ UNCHANGED <<invite, seated, allowed, recruiter>>

(* The subscription changes or ends (modelled in Billing)                    *)
ChangePlan(o, n) ==
  /\ o \in shops /\ seats' = [seats EXCEPT ![o] = n]
  /\ UNCHANGED <<shops, member, invite, seated, allowed, recruiter>>

-----------------------------------------------------------------------------
(* Invitations                                                               *)

CanGrant(mine, role) == RoleRank[role] <= RoleRank[mine]

(* Mutant: outstanding invitations are not counted. *)
TakenMembers(o, role) == Cardinality(In(o, role))

Taken(o, role) == Cardinality(In(o, role)) + Cardinality(Open(o, role))

(* check_seat: no seat but an owner's without a plan, a manager's within it  *)
SeatFree(o, role) ==
  role = "owner" \/ \E n \in seats[o] : role = "viewer" \/ Taken(o, role) < n

(* create_invite: the inviter's role comes from the access token             *)
CheckSeat(k, m, role) ==
  /\ m \in member /\ m.role # "viewer" /\ CanGrant(m.role, role)
  /\ SeatFree(m.org, role)
  /\ Take(k, [Free EXCEPT !.doing = "invite", !.org = {m.org}, !.role = role])
  /\ allowed' = IF role = "manager" /\ \E n \in seats[m.org] : n > allowed[m.org]
                THEN [allowed EXCEPT ![m.org] = CHOOSE n \in seats[m.org] : TRUE] ELSE allowed
  /\ UNCHANGED <<shops, member, seats, invite, seated>>
InsertInvite(k, i) ==
  /\ recruiter[k].doing = "invite" /\ invite[i] = NoInvite
  /\ \A j \in 1..i - 1 : invite[j] # NoInvite
  /\ invite' = [invite EXCEPT ![i] = [state |-> "open", org |-> recruiter[k].org,
                                      role |-> recruiter[k].role]]
  /\ Leave(k)
  /\ UNCHANGED <<shops, member, seats, seated, allowed>>

(* accept_invite: the invitation is read, then the member row is inserted    *)
(* ON CONFLICT DO NOTHING and the invitation marked if nobody marked it      *)
ReadInvite(k, u, i) ==
  /\ invite[i].state = "open"
  /\ Take(k, [Free EXCEPT !.doing = "accept", !.who = {u}, !.org = invite[i].org,
                          !.role = invite[i].role, !.invite = {i}])
  /\ UNCHANGED <<shops, member, seats, invite, seated, allowed>>

(* Mutant: the row is replaced, as ON CONFLICT DO UPDATE would. *)
JoinedReplaced(u, o, role) ==
  {m \in member : m.user # u \/ m.org # o} \cup {[user |-> u, org |-> o, role |-> role]}

Joined(u, o, role) ==
  IF \E m \in MemberOf(o) : m.user = u THEN member
  ELSE member \cup {[user |-> u, org |-> o, role |-> role]}
Join(k, u, o, i) ==
  /\ recruiter[k].doing = "accept"
  /\ recruiter[k].who = {u} /\ recruiter[k].org = {o} /\ recruiter[k].invite = {i}
  /\ member' = Joined(u, o, recruiter[k].role)
  /\ seated' = IF member' = member THEN seated ELSE seated \cup {<<i, u>>}
  /\ invite' = [invite EXCEPT ![i].state = "accepted"]
  /\ Leave(k)
  /\ UNCHANGED <<shops, seats, allowed>>

ExpireInvite(i) ==
  /\ invite[i].state = "open"
  /\ invite' = [invite EXCEPT ![i].state = "expired"]
  /\ UNCHANGED <<shops, member, seats, seated, allowed, recruiter>>

Abandon(k) ==
  /\ recruiter[k] # Free /\ Leave(k)
  /\ UNCHANGED <<shops, member, seats, invite, seated, allowed>>

-----------------------------------------------------------------------------
MembershipNext ==
  \/ \E k \in Recruiters :
       \/ Abandon(k)
       \/ \E u \in People :
            \/ LookForOrg(k, u)
            \/ \E o \in Shops : CreateOrg(k, u, o) \/ \E i \in Invites : Join(k, u, o, i)
            \/ \E i \in Invites : ReadInvite(k, u, i)
       \/ \E m \in member, role \in Offered : CheckSeat(k, m, role)
       \/ \E i \in Invites : InsertInvite(k, i)
  \/ \E u \in People, o \in Shops, n \in 0..SeatsMax : ProvisionStore(u, o, n)
  \/ \E o \in Shops, n \in {{}} \cup {{c} : c \in 0..SeatsMax} : ChangePlan(o, n)
  \/ \E i \in Invites : ExpireInvite(i)

MembershipSpec == MembershipInit /\ [][MembershipNext]_memberVars

-----------------------------------------------------------------------------
MembershipTypeOK ==
  /\ shops \subseteq Shops
  /\ member \subseteq [user : People, org : shops, role : Roles]
  /\ \A o \in Shops : seats[o] \in {{}} \cup {{n} : n \in 0..SeatsMax}
  /\ \A i \in Invites : /\ invite[i].state \in {"absent", "open", "accepted", "expired"}
                        /\ invite[i].org \subseteq shops /\ invite[i].role \in Roles
  /\ seated \subseteq Invites \X People
  /\ allowed \in [Shops -> 0..SeatsMax]
  /\ \A k \in Recruiters : recruiter[k].doing \in {"nothing", "create", "invite", "accept"}

(* Invitations of managers that took or still hold a seat exceed the largest  *)
(* limit they were judged against by at most the other requests in flight.    *)
(* An invitation two people accept at once counts here as one seat.           *)
SeatOverrunBounded ==
  \A o \in Shops :
    Cardinality({i \in Invites :
        /\ invite[i].org = {o} /\ invite[i].role = "manager"
        /\ invite[i].state = "open" \/ \E u \in People : <<i, u>> \in seated})
      <= allowed[o] + Cardinality(Recruiters) - 1

(* A person has one role in an organisation, and no request changes a member  *)
(* into another: accepting a second invitation cannot demote the only owner.  *)
RolesStay ==
  /\ member \subseteq member'
  /\ \A a, b \in member' : a.user = b.user /\ a.org = b.org => a = b
=============================================================================
