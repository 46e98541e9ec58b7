------------------------------- MODULE Identity -------------------------------
(* Sign-in by one-time code and refresh-token rotation (src/core/tenancy).     *)
(* A request is one READ COMMITTED transaction: it reads without a lock, then  *)
(* writes; the response leaves before the commit. A refresh token is its       *)
(* number within its session: the row holds the hash of the last committed one *)
EXTENDS Naturals, FiniteSets

CONSTANTS
  Identifiers,  \* email addresses or phone numbers
  Sessions,     \* rows of `sessions`
  Calls,        \* requests being served
  MaxTries,     \* OTP_MAX_ATTEMPTS
  MaxCodes,     \* bound: codes issued per identifier
  MaxTokens     \* bound: tokens minted per session

ASSUME IdentityAssumption ==
  /\ IsFiniteSet(Calls) /\ Calls # {}
  /\ MaxTries \in Nat /\ MaxCodes \in Nat /\ MaxTokens \in Nat \ {0}

VARIABLES
  code,         \* latest otp_challenges row of an identifier
  users,        \* identifiers that have an account
  session,      \* rows of `sessions`
  issued,       \* tokens handed out per session: 1..issued
  succeeded,    \* committed rotations: session, token presented, token given
  call          \* what each request has read

identityVars == <<code, users, session, issued, succeeded, call>>

NoCode == [serial |-> 0, tries |-> 0, used |-> FALSE, expired |-> FALSE, cooling |-> FALSE]
NoSession == [user |-> {}, token |-> 0, revoked |-> FALSE, expired |-> FALSE]
Quiet == [doing |-> "nothing", who |-> {}, serial |-> 0, known |-> FALSE,
          on |-> {}, token |-> 0, given |-> 0]

IdentityInit ==
  /\ code = [i \in Identifiers |-> NoCode] /\ users = {}
  /\ session = [s \in Sessions |-> NoSession]
  /\ issued = [s \in Sessions |-> 0] /\ succeeded = {}
  /\ call = [k \in Calls |-> Quiet]

Serve(k, what) == call' = [call EXCEPT ![k] = what]
Close(k) == Serve(k, Quiet)

-----------------------------------------------------------------------------
(* One-time codes                                                            *)

(* can_resend on the latest row, then the INSERT of a new one                *)
JudgeResend(k, i) ==
  /\ call[k] = Quiet /\ ~code[i].cooling
  /\ Serve(k, [Quiet EXCEPT !.doing = "issue", !.who = {i}])
  /\ UNCHANGED <<code, users, session, issued, succeeded>>
IssueCode(k, i) ==
  /\ call[k].doing = "issue" /\ call[k].who = {i} /\ code[i].serial < MaxCodes
  /\ code' = [code EXCEPT ![i] = [NoCode EXCEPT !.serial = code[i].serial + 1,
                                                !.cooling = TRUE]]
  /\ Close(k)
  /\ UNCHANGED <<users, session, issued, succeeded>>

(* Mutant: one attempt too many. *)
IsLockedLate(i) == code[i].tries > MaxTries

IsLocked(i) == code[i].tries >= MaxTries

(* Challenge.evaluate: used, expired and locked codes answer without a write *)
Evaluate(k, i, right) ==
  /\ call[k] = Quiet /\ code[i].serial > 0
  /\ ~code[i].used /\ ~code[i].expired /\ ~IsLocked(i)
  /\ Serve(k, [Quiet EXCEPT !.doing = IF right THEN "login" ELSE "miss", !.who = {i},
                            !.serial = code[i].serial, !.known = i \in users])
  /\ UNCHANGED <<code, users, session, issued, succeeded>>
Miss(k, i) ==
  /\ call[k].doing = "miss" /\ call[k].who = {i}
  /\ code' = IF code[i].serial = call[k].serial THEN [code EXCEPT ![i].tries = @ + 1]
             ELSE code
  /\ Close(k)
  /\ UNCHANGED <<users, session, issued, succeeded>>

(* consume, get_or_create_user, insert_session, set_session_token_hash in    *)
(* one transaction; a user inserted meanwhile violates the unique identifier *)
(* and nothing of the transaction remains                                    *)
OpenSession(k, i, s) ==
  /\ call[k].doing = "login" /\ call[k].who = {i} /\ session[s] = NoSession
  /\ IF i \in users /\ ~call[k].known
     THEN UNCHANGED <<code, users, session, issued>>
     ELSE /\ code' = IF code[i].serial = call[k].serial
                     THEN [code EXCEPT ![i].used = TRUE] ELSE code
          /\ users' = users \cup {i}
          /\ session' = [session EXCEPT ![s] = [NoSession EXCEPT !.user = {i}, !.token = 1]]
          /\ issued' = [issued EXCEPT ![s] = 1]
  /\ Close(k)
  /\ UNCHANGED succeeded

-----------------------------------------------------------------------------
(* Refresh, logout                                                           *)

RowLocked(s) == \E k \in Calls : call[k].doing = "commit" /\ call[k].on = {s}

(* The row is the truth of revocation. A token that is not the row's current *)
(* one was rotated before: the family is to be revoked.                      *)
ReadSession(k, s, t) ==
  /\ call[k] = Quiet /\ t \in 1..issued[s]
  /\ ~session[s].revoked /\ ~session[s].expired
  /\ Serve(k, [Quiet EXCEPT !.doing = IF session[s].token = t THEN "rotate" ELSE "revoke",
                            !.on = {s}, !.token = t])
  /\ UNCHANGED <<code, users, session, issued, succeeded>>

(* Mutants: the UPDATE names the session only; it ignores revoked_at. *)
MatchesAnyToken(s, t) == ~session[s].revoked
MatchesRevoked(s, t) == session[s].token = t

TokenMatches(s, t) == session[s].token = t /\ ~session[s].revoked

(* rotate_session_token: 0 rows is RACE_LOST, the family survives            *)
Rotate(k, s) ==
  /\ call[k].doing = "rotate" /\ call[k].on = {s} /\ ~RowLocked(s)
  /\ IF TokenMatches(s, call[k].token)
     THEN /\ issued[s] < MaxTokens
          /\ issued' = [issued EXCEPT ![s] = @ + 1]
          /\ Serve(k, [call[k] EXCEPT !.doing = "commit", !.given = issued[s] + 1])
     ELSE Close(k) /\ UNCHANGED issued
  /\ UNCHANGED <<code, users, session, succeeded>>
CommitRotation(k, s) ==
  /\ call[k].doing = "commit" /\ call[k].on = {s}
  /\ session' = [session EXCEPT ![s].token = call[k].given, ![s].expired = FALSE]
  /\ succeeded' = succeeded \cup {[of |-> s, old |-> call[k].token, new |-> call[k].given]}
  /\ Close(k)
  /\ UNCHANGED <<code, users, issued>>

(* revoke_session: logout decodes any token of the session, expired or not   *)
Logout(k, s) ==
  /\ call[k] = Quiet /\ issued[s] > 0
  /\ Serve(k, [Quiet EXCEPT !.doing = "revoke", !.on = {s}])
  /\ UNCHANGED <<code, users, session, issued, succeeded>>
LogoutAll(k, i) ==
  /\ call[k] = Quiet /\ \E s \in Sessions : session[s].user = {i}
  /\ Serve(k, [Quiet EXCEPT !.doing = "revoke", !.on = {s \in Sessions : session[s].user = {i}}])
  /\ UNCHANGED <<code, users, session, issued, succeeded>>
Revoke(k) ==
  /\ call[k].doing = "revoke" /\ \A s \in call[k].on : ~RowLocked(s)
  /\ session' = [s \in Sessions |-> IF s \in call[k].on
                                    THEN [session[s] EXCEPT !.revoked = TRUE] ELSE session[s]]
  /\ Close(k)
  /\ UNCHANGED <<code, users, issued, succeeded>>

-----------------------------------------------------------------------------
(* A request that dies rolls back; a token it has handed out stays out.      *)
DropCall(k) ==
  /\ call[k] # Quiet /\ Close(k)
  /\ UNCHANGED <<code, users, session, issued, succeeded>>

TimePasses(i) ==
  /\ code[i].serial > 0
  /\ \/ code[i].cooling /\ code' = [code EXCEPT ![i].cooling = FALSE]
     \/ /\ ~code[i].cooling /\ ~code[i].expired
        /\ code' = [code EXCEPT ![i].expired = TRUE]
  /\ UNCHANGED <<users, session, issued, succeeded, call>>
ExpireSession(s) ==
  /\ session[s].user # {} /\ ~session[s].expired /\ ~session[s].revoked
  /\ session' = [session EXCEPT ![s].expired = TRUE]
  /\ UNCHANGED <<code, users, issued, succeeded, call>>

IdentityNext ==
  \/ \E k \in Calls :
       \/ Revoke(k) \/ DropCall(k)
       \/ \E i \in Identifiers :
            \/ JudgeResend(k, i) \/ IssueCode(k, i) \/ Miss(k, i) \/ LogoutAll(k, i)
            \/ \E right \in BOOLEAN : Evaluate(k, i, right)
            \/ \E s \in Sessions : OpenSession(k, i, s)
       \/ \E s \in Sessions :
            \/ Rotate(k, s) \/ CommitRotation(k, s) \/ Logout(k, s)
            \/ \E t \in 1..MaxTokens : ReadSession(k, s, t)
  \/ \E i \in Identifiers : TimePasses(i)
  \/ \E s \in Sessions : ExpireSession(s)

IdentitySpec == IdentityInit /\ [][IdentityNext]_identityVars

-----------------------------------------------------------------------------
IdentityTypeOK ==
  /\ code \in [Identifiers -> [serial : 0..MaxCodes, tries : 0..MaxTries + Cardinality(Calls),
                               used : BOOLEAN, expired : BOOLEAN, cooling : BOOLEAN]]
  /\ users \subseteq Identifiers
  /\ session \in [Sessions -> [user : SUBSET Identifiers, token : 0..MaxTokens,
                               revoked : BOOLEAN, expired : BOOLEAN]]
  /\ issued \in [Sessions -> 0..MaxTokens]
  /\ succeeded \subseteq [of : Sessions, old : 1..MaxTokens, new : 1..MaxTokens]
  /\ \A k \in Calls : call[k].doing \in {"nothing", "issue", "login", "miss", "rotate",
                                         "revoke", "commit"}

(* A refresh token is exchanged for at most one successor: of the requests    *)
(* that matched the same current token, one wins the conditional UPDATE and   *)
(* the others are RACE_LOST (tokens.refresh_session).                         *)
OneSuccessor == \A a, b \in succeeded : a.of = b.of /\ a.old = b.old => a.new = b.new

(* A session that was signed out stays out: no refresh that had read the row  *)
(* while it was live writes it again.                                         *)
RevokedStaysDead == \A s \in Sessions : session[s].revoked => session'[s] = session[s]

(* Attempts are counted after they are judged, so requests in flight can pass *)
(* the limit of tries, by no more than their number.                          *)
AttemptsBounded ==
  \A i \in Identifiers : code[i].tries <= MaxTries + Cardinality(Calls) - 1
=============================================================================
