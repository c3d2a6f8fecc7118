------------------------------ MODULE Sessions ------------------------------
(***************************************************************************)
(* Sessions of the API server: auth.rs, the rate limiter, the challenges   *)
(* and the token version of state.rs, the access changes of                *)
(* routes/access.rs, and the persisted secret of lib.rs.                   *)
(*                                                                         *)
(* One user signs in with a key to some repository, everybody else with    *)
(* the server's password.  A token carries the repository, the role that   *)
(* was read from it and the version of the server; changing access saves   *)
(* the repository first and raises the version afterwards, which is what   *)
(* makes the tokens of before invalid.  Handlers run on several threads,   *)
(* and one whose client goes away is dropped where it waits.               *)
(***************************************************************************)
EXTENDS Integers, Sequences, FiniteSets

CONSTANTS
    Repos,              \* repositories of the server
    Auths,              \* concurrent calls of key_auth
    Admins,             \* concurrent requests that change access
    AuthRateLimit,      \* AUTH_RATE_LIMIT
    AuthRateWindow,     \* AUTH_RATE_WINDOW
    TokenDuration,      \* TOKEN_DURATION_SECS
    ChallengeDuration,  \* CHALLENGE_DURATION_SECS
    MaxPending,         \* MAX_PENDING_CHALLENGES
    GivenRoles,         \* bound: the roles that are given out
    MaxNow,             \* bound: the clock
    MaxChallenges,      \* bound: challenges ever made
    MaxTokens,          \* bound: tokens ever issued
    MaxChanges          \* bound: access changes and restarts

ASSUME SessionsAssumptions ==
    /\ AuthRateLimit \in Nat \ {0} /\ AuthRateWindow \in Nat \ {0}
    /\ TokenDuration \in Nat \ {0} /\ ChallengeDuration \in Nat
    /\ MaxPending \in Nat \ {0}
    /\ GivenRoles \subseteq {"read", "write", "admin", "owner"}
    /\ {MaxNow, MaxChallenges, MaxTokens, MaxChanges} \subseteq Nat

VARIABLES
    now,         \* the clock
    up,          \* the server runs
    secretFile,  \* .ovc-server-secret: 0 missing, -1 empty, otherwise a secret
    secret,      \* AppState.jwt_secret
    version,     \* AppState.token_version
    bucket,      \* the rate bucket of the address everybody comes from
    challenges,  \* AppState.auth_challenges: challenge -> expiry
    made,        \* challenges made so far
    acl,         \* acl[r]: the user in the file of repository r
    auth,        \* auth[a]: a call of key_auth
    admin,       \* admin[h]: a request that changes access
    tokens,      \* the tokens issued
    admitted,    \* history: when the limiter let an attempt through
    forgotten,   \* history: a restart forgot that tokens had been revoked
    unraised,    \* history: repositories changed by a dropped handler, until
                 \* the next raise
    outside,     \* history: repositories that the command line changed
    changes      \* bound: access changes and restarts so far

sessionsVars == <<now, up, secretFile, secret, version, bucket, challenges, made, acl,
          auth, admin, tokens, admitted, forgotten, unraised, outside, changes>>
server == <<secretFile, secret, version, forgotten, unraised>>
history == <<outside, changes>>

(* A user of the repository: no key slot, a key slot without an entry in   *)
(* the access list, or a role.                                             *)
Roles    == {"read", "write", "admin", "owner"}
Standing == Roles \cup {"none", "keyonly"}
User     == "user"
Local    == "local-user"
Nowhere  == "nowhere"
Idle     == [pc |-> "idle", role |-> "none", repo |-> Nowhere, chal |-> 0]
Rest     == [pc |-> "idle", repo |-> Nowhere]

role_level(r) ==
    CASE r = "owner" -> 3 [] r = "admin" -> 2 [] r = "write" -> 1 [] OTHER -> 0

(* The role that a token of the user would carry. *)
TokenRole(s) == IF s = "keyonly" THEN "write" ELSE s

(* What the roles allow, from nothing on. *)
Rank(role) ==
    CASE role = "owner" -> 4 [] role = "admin" -> 3 [] role = "write" -> 2
      [] role = "read" -> 1 [] OTHER -> 0

(* The role is no more than what the list of the repository gives now. *)
Covered(role, r) == Rank(role) <= Rank(TokenRole(acl[r]))

---------------------------------------------------------------------------
(* The rate limiter *)

FreshBucket == [count |-> 0, start |-> now]

CurrentBucket ==
    IF now - bucket.start >= AuthRateWindow THEN FreshBucket ELSE bucket

(* Mutant: one more than the limit. *)
MutAllowed(b) == b.count <= AuthRateLimit

Allowed(b) == b.count < AuthRateLimit

check_auth_rate_limit ==
    IF Allowed(CurrentBucket)
      THEN /\ bucket' = [CurrentBucket EXCEPT !.count = @ + 1]
           /\ admitted' = Append(admitted, now)
      ELSE /\ bucket' = CurrentBucket
           /\ UNCHANGED admitted

---------------------------------------------------------------------------
(* Tokens *)

create_jwt_with_claims(sub, role, repo_id, chal, fresh) ==
    [sub |-> sub, role |-> role, repo |-> repo_id, tkv |-> version,
     exp |-> now + TokenDuration, key |-> secret, chal |-> chal, fresh |-> fresh]

(* Mutant: a token of an older version is accepted. *)
MutValidateJwt(t) == t.key = secret /\ now <= t.exp

validate_jwt(t) == t.key = secret /\ now <= t.exp /\ t.tkv >= version

has_role(t, r) == t.sub = Local \/ role_level(t.role) >= role_level(r)

(* POST /auth/token, with the password or without. *)
CreateToken(right) ==
    /\ up /\ Cardinality(tokens) < MaxTokens
    /\ check_auth_rate_limit
    /\ tokens' = IF right /\ Allowed(CurrentBucket)
                   THEN tokens \cup {create_jwt_with_claims(Local, "admin", Nowhere, 0, TRUE)}
                   ELSE tokens
    /\ UNCHANGED <<now, up, server, challenges, made, acl, auth, admin, history>>

---------------------------------------------------------------------------
(* Challenges *)

Pending == {c \in DOMAIN challenges : challenges[c] > now}
Keep(C) == [c \in C |-> challenges[c]]

(* Mutant: the limit is not applied. *)
MutRoomLeft == TRUE

RoomLeft == Cardinality(Pending) < MaxPending

(* GET /auth/challenge: expired challenges go first. *)
GetChallenge ==
    /\ up /\ made < MaxChallenges
    /\ challenges' = IF RoomLeft
                       THEN [c \in Pending \cup {made + 1} |->
                                IF c \in Pending THEN challenges[c]
                                ELSE now + ChallengeDuration]
                       ELSE Keep(Pending)
    /\ made' = IF RoomLeft THEN made + 1 ELSE made
    /\ UNCHANGED <<now, up, server, bucket, acl, auth, admin, tokens, admitted, history>>

(* The background task of every minute. *)
CleanupExpiredChallenges ==
    /\ up /\ Pending # DOMAIN challenges
    /\ challenges' = Keep(Pending)
    /\ UNCHANGED <<now, up, server, bucket, made, acl, auth, admin, tokens, admitted, history>>

(* Mutant: the challenge is looked up and stays. *)
MutConsumed(c) == challenges

Consumed(c) == Keep(DOMAIN challenges \ {c})

(* POST /auth/key-auth: the limiter, the challenge, then the repository    *)
(* with its key slots and roles; a call that fails returns.                *)
KeyAuthOpen(a) ==
    /\ up /\ auth[a].pc = "idle" /\ Cardinality(tokens) < MaxTokens
    /\ check_auth_rate_limit
    /\ \E c \in DOMAIN challenges, r \in Repos :
         /\ challenges' = IF Allowed(CurrentBucket) THEN Consumed(c) ELSE challenges
         /\ auth' = IF Allowed(CurrentBucket) /\ now <= challenges[c] /\ acl[r] # "none"
                      THEN [auth EXCEPT ![a] = [pc |-> "opened", role |-> TokenRole(acl[r]),
                                                repo |-> r, chal |-> c]]
                      ELSE auth
    /\ UNCHANGED <<now, up, server, made, acl, admin, tokens, history>>

(* The version goes into the token when it is issued. *)
KeyAuthIssue(a) ==
    /\ up /\ auth[a].pc = "opened"
    /\ tokens' = tokens \cup
         {create_jwt_with_claims(User, auth[a].role, auth[a].repo, auth[a].chal,
                                 Covered(auth[a].role, auth[a].repo))}
    /\ auth' = [auth EXCEPT ![a] = Idle]
    /\ UNCHANGED <<now, up, server, bucket, challenges, made, acl, admin,
                   admitted, history>>

---------------------------------------------------------------------------
(* Access changes *)

(* The request for repository r is let in with a token that has the role   *)
(* of an owner; require_role does not look at the token's repository.      *)
AdminEnter(h, r) ==
    /\ up /\ admin[h].pc = "idle" /\ changes < MaxChanges
    /\ \E t \in tokens : validate_jwt(t) /\ has_role(t, "owner")
    /\ admin' = [admin EXCEPT ![h] = [pc |-> "entered", repo |-> r]]
    /\ UNCHANGED <<now, up, server, bucket, challenges, made, acl, auth, tokens,
                   admitted, history>>

(* It saves under the mutex of the repository, which another one may hold  *)
(* until it has raised the version; a task whose handler was dropped goes  *)
(* on without.                                                             *)
MaySave(h) ==
    \/ admin[h].pc = "orphan"
    \/ /\ admin[h].pc = "entered"
       /\ \A k \in Admins : admin[k].pc = "saved" => admin[k].repo # admin[h].repo

Saved(h, standing) ==
    /\ up /\ MaySave(h)
    /\ acl' = [acl EXCEPT ![admin[h].repo] = standing]
    /\ changes' = changes + 1
    /\ UNCHANGED <<now, up, secretFile, secret, version, forgotten, bucket, challenges,
                   made, auth, tokens, admitted, outside>>

(* grant_access: the user must have no key slot; tokens are left alone. *)
GrantAccess(h, role) ==
    /\ Saved(h, role)
    /\ acl[admin[h].repo] = "none"
    /\ admin' = [admin EXCEPT ![h] = Rest]
    /\ UNCHANGED unraised

(* Mutant: the version is not raised. *)
MutRaiseNext(h) == admin' = [admin EXCEPT ![h] = Rest] /\ UNCHANGED unraised

(* The handler goes on to raise the version, unless it is gone. *)
RaiseNext(h) ==
    IF admin[h].pc = "orphan"
      THEN /\ admin' = [admin EXCEPT ![h] = Rest]
           /\ unraised' = unraised \cup {admin[h].repo}
      ELSE /\ admin' = [admin EXCEPT ![h].pc = "saved"]
           /\ UNCHANGED unraised

(* set_role: the user must have an entry. *)
SetRole(h, role) ==
    /\ Saved(h, role)
    /\ acl[admin[h].repo] \in Roles
    /\ RaiseNext(h)

(* revoke_access takes the entry and the key slot; some other owner is     *)
(* left (AccessControl).                                                   *)
RevokeAccess(h) ==
    /\ Saved(h, "none")
    /\ acl[admin[h].repo] # "none"
    /\ RaiseNext(h)

(* Both then raise the version. *)
RevokeAllTokens(h) ==
    /\ up /\ admin[h].pc = "saved"
    /\ version' = version + 1
    /\ admin' = [admin EXCEPT ![h] = Rest]
    /\ unraised' = {}
    /\ UNCHANGED <<now, up, secretFile, secret, bucket, challenges, made, acl, auth,
                   tokens, admitted, forgotten, history>>

(* The client goes away: the future ends where it waits, for the mutex or  *)
(* for a task that goes on, or after the task saved.                       *)
AdminDropped(h) ==
    /\ up /\ admin[h].pc \in {"entered", "saved"}
    /\ \/ admin' = [admin EXCEPT ![h] = Rest]
       \/ /\ MaySave(h)
          /\ admin' = [admin EXCEPT ![h].pc = "orphan"]
    /\ unraised' = unraised \cup (IF admin[h].pc = "saved" THEN {admin[h].repo} ELSE {})
    /\ UNCHANGED <<now, up, secretFile, secret, version, forgotten, bucket, challenges,
                   made, acl, auth, tokens, admitted, history>>

(* `ovc access` and `ovc key` change the file behind the server. *)
CommandLine(r, standing) ==
    /\ changes < MaxChanges /\ standing # acl[r]
    /\ acl' = [acl EXCEPT ![r] = standing]
    /\ outside' = outside \cup {r}
    /\ changes' = changes + 1
    /\ UNCHANGED <<now, up, server, bucket, challenges, made, auth, admin, tokens, admitted>>

---------------------------------------------------------------------------
(* The server *)

(* A crash: everything in memory is gone. *)
Stop ==
    /\ up /\ changes < MaxChanges
    /\ up' = FALSE
    /\ changes' = changes + 1
    /\ forgotten' = (forgotten \/ version > 1 \/ \E h \in Admins : admin[h].pc = "saved")
    /\ auth' = [a \in Auths |-> Idle]
    /\ admin' = [h \in Admins |-> Rest]
    /\ UNCHANGED <<now, secretFile, secret, version, unraised, bucket, challenges, made,
                   acl, tokens, admitted, outside>>

(* Mutant: a new secret at every start. *)
MutLoadSecret == secret + 1

(* load_or_create_persisted_secret. *)
LoadSecret == IF secretFile > 0 THEN secretFile ELSE secret + 1

(* start_server_on_listener with AppState::new.  It may die while it       *)
(* writes a new secret, which leaves the file empty.                       *)
Start ==
    /\ ~up
    /\ secret' = LoadSecret
    /\ \/ up' = TRUE /\ secretFile' = LoadSecret
       \/ up' = FALSE /\ secretFile = 0 /\ secretFile' = -1
    /\ version' = 1
    /\ challenges' = [c \in {} |-> 0]
    /\ bucket' = FreshBucket
    /\ UNCHANGED <<now, made, acl, auth, admin, tokens, admitted, forgotten, unraised,
                   history>>

Tick ==
    /\ now < MaxNow
    /\ now' = now + 1
    /\ UNCHANGED <<up, server, bucket, challenges, made, acl, auth, admin, tokens,
                   admitted, history>>

SessionsInit ==
    /\ now = 0
    /\ up = FALSE /\ secretFile = 0 /\ secret = 0 /\ version = 1
    /\ bucket = [count |-> 0, start |-> 0]
    /\ challenges = [c \in {} |-> 0] /\ made = 0
    /\ acl \in [Repos -> {"owner", "keyonly", "read"}]
    /\ auth = [a \in Auths |-> Idle]
    /\ admin = [h \in Admins |-> Rest]
    /\ tokens = {}
    /\ admitted = <<>>
    /\ forgotten = FALSE /\ unraised = {} /\ outside = {} /\ changes = 0

SessionsNext ==
    \/ Start \/ Stop \/ Tick
    \/ \E b \in BOOLEAN : CreateToken(b)
    \/ GetChallenge \/ CleanupExpiredChallenges
    \/ \E a \in Auths : KeyAuthOpen(a) \/ KeyAuthIssue(a)
    \/ \E h \in Admins :
         \/ RevokeAccess(h) \/ RevokeAllTokens(h) \/ AdminDropped(h)
         \/ \E r \in Repos : AdminEnter(h, r)
         \/ \E role \in GivenRoles : GrantAccess(h, role) \/ SetRole(h, role)
    \/ \E r \in Repos, s \in GivenRoles \cup {"none", "keyonly"} : CommandLine(r, s)

SessionsSpec == SessionsInit /\ [][SessionsNext]_sessionsVars

---------------------------------------------------------------------------
(* Every value has its type, and the server never keeps more challenges    *)
(* than its limit, however fast they are asked for and expire.             *)
SessionsTypeOK ==
    /\ now \in 0..MaxNow /\ acl \in [Repos -> Standing]
    /\ up => secret = secretFile
    /\ Cardinality(DOMAIN challenges) <= MaxPending
    /\ \A t \in tokens : t.sub \in {User, Local} /\ t.role \in Roles

(* A token that the server accepts gives its user no more than the access  *)
(* list of the repository does where the user signed in, though the list   *)
(* changes while it is valid and while others sign in; to one who was      *)
(* taken off the list it gives nothing.  It takes one of five windows: the *)
(* change is saved and the version not yet raised; the handler was dropped *)
(* in between, and nobody raised it since; the role was read before the    *)
(* change and the version after it; a restart began again at version 1;    *)
(* the file was changed by a command.                                      *)
RevocationHolds ==
    up => \A t \in tokens :
        validate_jwt(t) /\ t.sub = User =>
            \/ Covered(t.role, t.repo)
            \/ \E h \in Admins : admin[h].pc = "saved" /\ admin[h].repo = t.repo
            \/ t.repo \in unraised \/ ~t.fresh \/ forgotten \/ t.repo \in outside

(* A challenge is good for one token, even when two calls present it at    *)
(* the same time.                                                          *)
ChallengeOnce ==
    \A t, u \in tokens : t.sub = User /\ u.sub = User /\ t.chal = u.chal => t = u

(* The limiter's windows are fixed, so an interval of a window's length    *)
(* meets at most two of them: twice the limit gets through, and never      *)
(* more, until the server is restarted.                                    *)
AttemptsBounded ==
    changes = 0 =>
        Cardinality({i \in DOMAIN admitted : admitted[i] > now - AuthRateWindow})
            <= 2 * AuthRateLimit

(* Signing in: what a token gives, what a challenge is good for, and how   *)
(* many attempts get through, under any interleaving of sign-ins, changes  *)
(* of access and restarts.                                                 *)
SignInSafe == SessionsTypeOK /\ RevocationHolds /\ ChallengeOnce /\ AttemptsBounded

(* A restart keeps the sessions: a token that was accepted before it is    *)
(* accepted after it unless it expired, also when an earlier start died    *)
(* while it wrote the secret.                                              *)
SessionsSurvive ==
    [][up' /\ ~up => \A t \in tokens : now <= t.exp => validate_jwt(t)']_sessionsVars
=============================================================================
