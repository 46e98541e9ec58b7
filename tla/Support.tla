------------------------------ MODULE Support -------------------------------
(* Support tickets and the operator plane that works on them                   *)
(* (support/service.py, support/api.py, tenancy/platform_admin.py,             *)
(* platform_permissions.py and the scripts that grant and revoke).  An         *)
(* operator's request is one transaction: the role is read when it begins, the *)
(* ticket's row and the tenant's audit chain are locked on the way, and the    *)
(* row, the chain and the access log commit together.                          *)
EXTENDS Naturals, Sequences, FiniteSets

CONSTANTS
  Tenants,      \* organisations
  Operators,    \* users the scripts may put on the allowlist
  PlatformRoles,\* roles they may be given
  Patches,      \* bodies of PATCH: a field -> value function, never empty
  OperatorCalls,\* requests of operators in flight
  MaxTickets,   \* bound on tickets
  MaxGrants     \* bound on calls of the two scripts and on expiries

(* The body's fields; a PATCH with none of them is refused.                    *)
ASSUME SupportAssumption ==
  /\ \A patch \in Patches : DOMAIN patch \subseteq {"status", "priority", "note"}
  /\ MaxTickets \in Nat /\ MaxGrants \in Nat

VARIABLES
  ticket,     \* support_tickets: ticket -> row
  announced,  \* tickets with a support.ticket.raised event
  allowlist,  \* platform_admins: operator -> role, "none" without a valid row
  script,     \* the script's step: {} or the entry it has still to log
  opCall,   \* request -> what its transaction has read, locked and changed
  chain,      \* tenant -> its audit entries about tickets
  access,     \* platform_access_log
  unlogged,   \* history: operators whose script died before it logged
  grants_     \* calls of the scripts and expiries so far

supportVars == <<ticket, announced, allowlist, script, opCall, chain, access, unlogged, grants_>>

Asleep == [at |-> "none"]
ClosedStates == {"resolved", "closed"}

SupportInit ==
  /\ ticket = << >> /\ announced = {}
  /\ allowlist = [o \in Operators |-> "none"]
  /\ script = {}
  /\ opCall = [r \in OperatorCalls |-> Asleep]
  /\ chain = [s \in Tenants |-> << >>]
  /\ access = << >> /\ unlogged = {} /\ grants_ = 0

(* raise_ticket: a member files in the member's own store, and the event is    *)
(* in the same transaction                                                     *)
RaiseTicket(s) ==
  /\ Len(ticket) < MaxTickets
  /\ ticket' = Append(ticket, [org |-> s, status |-> "open", priority |-> "normal",
                               note |-> "none", by |-> {}])
  /\ announced' = announced \cup {Len(ticket) + 1}
  /\ UNCHANGED <<allowlist, script, opCall, chain, access, unlogged, grants_>>

--------------------------------------------------------------------------
(* log_platform_access, in whatever transaction the caller has               *)
LogAccess(e) == access' = Append(access, e)

(* The scripts run outside a transaction: the row, then the entry of the log.  *)
Grant(o, role) ==
  /\ script = {} /\ grants_ < MaxGrants
  /\ allowlist' = [allowlist EXCEPT ![o] = role]
  /\ script' = {[by |-> o, what |-> "granted"]} /\ grants_' = grants_ + 1
  /\ UNCHANGED <<ticket, announced, opCall, chain, access, unlogged>>
Revoke(o) ==
  /\ script = {} /\ grants_ < MaxGrants
  /\ allowlist' = [allowlist EXCEPT ![o] = "none"]
  /\ script' = {[by |-> o, what |-> "revoked"]} /\ grants_' = grants_ + 1
  /\ UNCHANGED <<ticket, announced, opCall, chain, access, unlogged>>
LogScript ==
  /\ \E e \in script : LogAccess(e)
  /\ script' = {}
  /\ UNCHANGED <<ticket, announced, allowlist, opCall, chain, unlogged, grants_>>
ScriptDies ==
  /\ script # {} /\ script' = {}
  /\ unlogged' = unlogged \cup {e.by : e \in script}
  /\ UNCHANGED <<ticket, announced, allowlist, opCall, chain, access, grants_>>
(* expires_at passes, and nothing is written                                   *)
GrantExpires(o) ==
  /\ allowlist[o] # "none" /\ grants_ < MaxGrants
  /\ allowlist' = [allowlist EXCEPT ![o] = "none"] /\ grants_' = grants_ + 1
  /\ UNCHANGED <<ticket, announced, script, opCall, chain, access, unlogged>>

--------------------------------------------------------------------------
(* PLATFORM_ROLE_PERMISSIONS, of the two that tickets need                     *)
PermissionsOf(role) ==
  CASE role \in {"dev", "admin", "staff"} -> {"read", "resolve"} [] OTHER -> {}

(* require_platform: the role is read once, at the start                       *)
Admit(r, o, permission) ==
  /\ opCall[r] = Asleep /\ permission \in PermissionsOf(allowlist[o])
  /\ opCall' = [opCall EXCEPT ![r] = [at |-> permission, by |-> o]]
  /\ UNCHANGED <<ticket, announced, allowlist, script, chain, access, unlogged, grants_>>

(* list_all, whose reading is itself logged                                    *)
ViewQueue(r) ==
  /\ opCall[r].at = "read"
  /\ LogAccess([by |-> opCall[r].by, what |-> "viewed"])
  /\ opCall' = [opCall EXCEPT ![r] = [at |-> "answered"]]
  /\ UNCHANGED <<ticket, announced, allowlist, script, chain, unlogged, grants_>>

(* Mutant: nobody waits for the row. *)
RowFreeAlways(t) == TRUE

RowFree(t) == \A q \in OperatorCalls : opCall[q].at \in {"updated", "audited"} => opCall[q].ticket # t

(* Mutant: reopening keeps who resolved it. *)
ResolverKept(row, patch, o) ==
  IF "status" \in DOMAIN patch /\ patch.status \in ClosedStates THEN {o} ELSE row.by

(* Entering a closed state stamps the operator, and reopening clears it        *)
Resolver(row, patch, o) ==
  IF "status" \notin DOMAIN patch THEN row.by
  ELSE IF patch.status \in ClosedStates THEN {o} ELSE {}

Patched(row, patch, o) ==
  [f \in DOMAIN row |-> IF f = "by" THEN Resolver(row, patch, o)
                        ELSE IF f \in DOMAIN patch THEN patch[f] ELSE row[f]]

(* update_ticket: UPDATE .. RETURNING of the fields given, under the row lock  *)
UpdateRow(r, t, patch) ==
  /\ opCall[r].at = "resolve" /\ t \in DOMAIN ticket /\ RowFree(t)
  /\ opCall' = [opCall EXCEPT ![r] =
       [at |-> "updated", by |-> @.by, ticket |-> t, patch |-> patch,
        row |-> Patched(ticket[t], patch, @.by)]]
  /\ UNCHANGED <<ticket, announced, allowlist, script, chain, access, unlogged, grants_>>

(* the audit entry takes the tenant's chain lock and keeps it to the commit    *)
ChainFree(s) ==
  \A q \in OperatorCalls : opCall[q].at = "audited" => ticket[opCall[q].ticket].org # s
WriteAudit(r) ==
  /\ opCall[r].at = "updated" /\ ChainFree(ticket[opCall[r].ticket].org)
  /\ opCall' = [opCall EXCEPT ![r].at = "audited"]
  /\ UNCHANGED <<ticket, announced, allowlist, script, chain, access, unlogged, grants_>>

CommitRequest(r) ==
  LET q == opCall[r] IN
  /\ q.at = "audited"
  /\ ticket' = [ticket EXCEPT ![q.ticket] = q.row]
  /\ chain' = [chain EXCEPT ![ticket[q.ticket].org] =
                 Append(@, [ticket |-> q.ticket, by |-> q.by, changes |-> q.patch])]
  /\ LogAccess([by |-> q.by, what |-> "updated", ticket |-> q.ticket, changes |-> q.patch])
  /\ opCall' = [opCall EXCEPT ![r] = [at |-> "answered"]]
  /\ UNCHANGED <<announced, allowlist, script, unlogged, grants_>>

RollBackRequest(r) ==
  /\ opCall[r].at \in {"read", "resolve", "updated", "audited"}
  /\ opCall' = [opCall EXCEPT ![r] = [at |-> "answered"]]
  /\ UNCHANGED <<ticket, announced, allowlist, script, chain, access, unlogged, grants_>>

SupportNext ==
  \/ \E s \in Tenants : RaiseTicket(s)
  \/ \E o \in Operators :
       \/ \E role \in PlatformRoles : Grant(o, role)
       \/ Revoke(o) \/ GrantExpires(o)
       \/ \E r \in OperatorCalls, permission \in {"read", "resolve"} : Admit(r, o, permission)
  \/ LogScript \/ ScriptDies
  \/ \E r \in OperatorCalls :
       \/ ViewQueue(r) \/ WriteAudit(r) \/ CommitRequest(r) \/ RollBackRequest(r)
       \/ \E t \in DOMAIN ticket, patch \in Patches : UpdateRow(r, t, patch)

SupportSpec == SupportInit /\ [][SupportNext]_supportVars

--------------------------------------------------------------------------
SupportTypeOK ==
  /\ \A t \in DOMAIN ticket : ticket[t].org \in Tenants /\ ticket[t].by \subseteq Operators
  /\ announced = DOMAIN ticket
  /\ \A o \in Operators : allowlist[o] \in PlatformRoles \cup {"none"}
  /\ grants_ \in 0 .. MaxGrants

(* The tenant's audit chain tells what became of each ticket: its row is what  *)
(* the entries, applied in the order of the chain, make of a new one, although *)
(* several operators change it at once.                                        *)
NewTicket(t) == [ticket[t] EXCEPT !.status = "open", !.priority = "normal", !.note = "none", !.by = {}]
ToldBy(row, e, t) == IF e.ticket = t THEN Patched(row, e.changes, e.by) ELSE row
ChainTellsTicket ==
  \A t \in DOMAIN ticket :
    LET log == chain[ticket[t].org]
        row[n \in 0 .. Len(log)] == IF n = 0 THEN NewTicket(t) ELSE ToldBy(row[n - 1], log[n], t)
    IN  ticket[t] = row[Len(log)]

(* A closed ticket names the operator of the last entry that closed it, and an *)
(* open one nobody.                                                            *)
ResolverStands ==
  \A t \in DOMAIN ticket :
    LET closing == {k \in DOMAIN chain[ticket[t].org] :
                      /\ chain[ticket[t].org][k].ticket = t
                      /\ "status" \in DOMAIN chain[ticket[t].org][k].changes}
    IN ticket[t].by = {chain[ticket[t].org][k].by :
         k \in {k \in closing : /\ ticket[t].status \in ClosedStates
                                /\ \A l \in closing : l <= k}}

(* platform_access_log: each tenant's chain is, entry for entry, in the access *)
(* log, and whoever is in the log was once granted access by a script that     *)
(* logged it or died before it could.                                          *)
AccessLogged ==
  /\ \A s \in Tenants :
       LET mine == {k \in DOMAIN access : /\ access[k].what = "updated"
                                          /\ ticket[access[k].ticket].org = s}
           place(k) == Cardinality({j \in mine : j <= k})
       IN  /\ Cardinality(mine) = Len(chain[s])
           /\ \A k \in mine :
                chain[s][place(k)] = [ticket |-> access[k].ticket, by |-> access[k].by,
                                      changes |-> access[k].changes]
  /\ \A k \in DOMAIN access :
       \/ access[k].by \in unlogged \/ \E e \in script : e.by = access[k].by
       \/ access[k].what = "revoked"
       \/ \E l \in DOMAIN access : access[l].what = "granted" /\ access[l].by = access[k].by
=============================================================================
