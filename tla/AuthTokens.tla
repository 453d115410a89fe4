----------------------------- MODULE AuthTokens -----------------------------
(***************************************************************************)
(* Sessions (internal/identity): the account row in PostgreSQL and the     *)
(* refresh tokens in Redis.  A login opens a family; each refresh consumes *)
(* the presented token and issues its heir in the same family.  Redis      *)
(* keeps token:<hash>, token:used:<hash> and two index sets of hashes, one *)
(* per user and one per family.                                            *)
(*                                                                         *)
(* A pipeline is not a transaction: each Redis command is a step, other    *)
(* requests run between two of them and a lost connection leaves a prefix  *)
(* done.  Only the two DELs of one hash are one step: between them the     *)
(* token is already gone and a SETNX still fails, as it would before both. *)
(***************************************************************************)
EXTENDS Naturals, FiniteSets

CONSTANTS
    User,          \* the accounts
    Token,         \* the hashes of the refresh tokens that can be generated
    Family,        \* the uuids a login can open a family with
    Request,       \* the requests in flight
    Operation,     \* what happens in this instance: the calls, "expire" for
                   \* keys whose TTL runs out
    MaxPassword,   \* bound on password changes per account
    MaxFaults,     \* bound on lost connections and crashes
    None           \* no value

Operations == {"login", "refresh", "logout", "logoutAll", "revoke", "password", "deactivate",
               "expire"}

ASSUME OperationAssumption == Operation \subseteq Operations
ASSUME NoneAssumption == None \notin User \cup Token \cup Family
ASSUME BoundAssumption == MaxPassword \in Nat /\ MaxFaults \in Nat

VARIABLES
    account,       \* table users: is_active and the password, by version
    token,         \* keys token:<hash>
    used,          \* the hashes that have a key token:used:<hash>
    userTokens,    \* keys user_tokens:<user>
    familyTokens,  \* keys family:<family>
    delivered,     \* the tokens a client was given
    session,       \* each family's account and the password its login verified
    req,           \* the local state of each request
    faults,        \* faults so far
    generated,     \* history: the hashes ever stored
    wins,          \* history: how often a token was exchanged
    disturbed,     \* history: families that lost a key, by a DEL or its TTL
    raced,         \* history: users of whom a token was added to the index
                   \* while a revocation was emptying it
    reused         \* history: families whose revocation on reuse has finished

redis == <<token, used, userTokens, familyTokens>>
history == <<generated, wins, disturbed, raced, reused>>
vars == <<account, redis, delivered, session, req, faults, history>>

-----------------------------------------------------------------------------
NoToken == [user |-> None, family |-> None]

RefreshToken == [user : User, family : Family]

NoSession == [user |-> None, password |-> 0]

Live(t) == token[t] # NoToken

Opened(f) == session[f] # NoSession

RequestPc ==
    {"idle", "ttl", "mark", "load", "issue", "indexUser", "indexFamily",
     "reuse", "members", "drop", "unindex", "dropFamily",
     "setPassword", "list", "wipe", "dropIndex",
     "end", "endDrop", "endUser", "endFamily"}

RequestState ==
    [pc : RequestPc, user : User \cup {None}, family : Family \cup {None},
     tok : Token \cup {None}, todo : SUBSET Token, seen : SUBSET Token,
     doomed : SUBSET Family]

IdleRequest ==
    [pc |-> "idle", user |-> None, family |-> None, tok |-> None,
     todo |-> {}, seen |-> {}, doomed |-> {}]

Init ==
    /\ account = [u \in User |-> [active |-> TRUE, password |-> 0]]
    /\ token = [t \in Token |-> NoToken]
    /\ used = {}
    /\ userTokens = [u \in User |-> {}]
    /\ familyTokens = [f \in Family |-> {}]
    /\ delivered = {}
    /\ session = [f \in Family |-> NoSession]
    /\ req = [r \in Request |-> IdleRequest]
    /\ faults = 0
    /\ generated = {}
    /\ wins = [t \in Token |-> 0]
    /\ disturbed = {}
    /\ raced = {}
    /\ reused = {}

-----------------------------------------------------------------------------
(* Steps of a request.                                                     *)

Starts(r, operation) == operation \in Operation /\ req[r].pc = "idle"

At(r, p) == req[r].pc = p

Goto(r, p) == req' = [req EXCEPT ![r].pc = p]

Return(r) == req' = [req EXCEPT ![r] = IdleRequest]

(* DEL token:<hash>, DEL token:used:<hash> *)
DropToken(t) ==
    /\ token' = [token EXCEPT ![t] = NoToken]
    /\ used' = used \ {t}
    /\ disturbed' = IF Live(t) THEN disturbed \cup {token[t].family} ELSE disturbed

-----------------------------------------------------------------------------
(* Login and createTokenPair.                                              *)

Login(r, u, f) ==
    /\ Starts(r, "login")
    /\ account[u].active
    /\ ~Opened(f)
    /\ session' = [session EXCEPT ![f] = [user |-> u, password |-> account[u].password]]
    /\ req' = [req EXCEPT ![r] = [IdleRequest EXCEPT !.pc = "issue", !.user = u, !.family = f]]
    /\ UNCHANGED <<account, redis, delivered, faults, history>>

(* SET token:<hash> *)
CreateToken(r, t) ==
    /\ At(r, "issue")
    /\ t \notin generated
    /\ generated' = generated \cup {t}
    /\ token' = [token EXCEPT ![t] = [user |-> req[r].user, family |-> req[r].family]]
    /\ req' = [req EXCEPT ![r].pc = "indexUser", ![r].tok = t]
    /\ UNCHANGED <<account, used, userTokens, familyTokens, delivered, session, faults,
                   wins, disturbed, raced, reused>>

(* A request that has read the index of u and not yet deleted it. *)
Emptying(u) == \E q \in Request : req[q].user = u /\ req[q].pc \in {"wipe", "dropIndex"}

(* SADD user_tokens:<user>.  The EXPIRE .. GT that follows finds a set     *)
(* without a TTL, which GT takes as infinite: it never sets one.           *)
IndexUser(r) ==
    /\ At(r, "indexUser")
    /\ userTokens' = [userTokens EXCEPT ![req[r].user] = @ \cup {req[r].tok}]
    /\ raced' = IF Emptying(req[r].user) THEN raced \cup {req[r].user} ELSE raced
    /\ Goto(r, "indexFamily")
    /\ UNCHANGED <<account, token, used, familyTokens, delivered, session, faults,
                   generated, wins, disturbed, reused>>

(* SADD family:<family>; the pipeline has succeeded, the pair is returned. *)
IndexFamily(r) ==
    /\ At(r, "indexFamily")
    /\ familyTokens' = [familyTokens EXCEPT ![req[r].family] = @ \cup {req[r].tok}]
    /\ delivered' = delivered \cup {req[r].tok}
    /\ Return(r)
    /\ UNCHANGED <<account, token, used, userTokens, session, faults, history>>

-----------------------------------------------------------------------------
(* Refresh.                                                                *)

GetTokenByHash(r, t) ==
    /\ Starts(r, "refresh")
    /\ t \in delivered
    /\ Live(t)
    /\ req' = [req EXCEPT ![r] = [IdleRequest EXCEPT
                  !.pc = "ttl", !.tok = t, !.user = token[t].user, !.family = token[t].family]]
    /\ UNCHANGED <<account, redis, delivered, session, faults, history>>

(* Mutant: a refresh that forgets to mark the token. *)
RefreshUnmarked(r) ==
    /\ At(r, "ttl")
    /\ IF Live(req[r].tok) THEN Goto(r, "load") ELSE Return(r)
    /\ UNCHANGED <<account, redis, delivered, session, faults, history>>

(* TTL token:<hash> *)
ReadTTL(r) ==
    /\ At(r, "ttl")
    /\ IF Live(req[r].tok) THEN Goto(r, "mark") ELSE Return(r)
    /\ UNCHANGED <<account, redis, delivered, session, faults, history>>

(* Mutant: the mark is looked at and then SET, not SETNX. *)
MarkWithoutNX(r) ==
    /\ At(r, "mark")
    /\ used' = used \cup {req[r].tok}
    /\ wins' = [wins EXCEPT ![req[r].tok] = @ + 1]
    /\ Goto(r, "load")
    /\ UNCHANGED <<account, token, userTokens, familyTokens, delivered, session, faults,
                   generated, disturbed, raced, reused>>

(* SETNX token:used:<hash> *)
MarkTokenUsed(r) ==
    /\ At(r, "mark")
    /\ \/ /\ req[r].tok \notin used
          /\ used' = used \cup {req[r].tok}
          /\ wins' = [wins EXCEPT ![req[r].tok] = @ + 1]
          /\ Goto(r, "load")
       \/ /\ req[r].tok \in used
          /\ Goto(r, "reuse")
          /\ UNCHANGED <<used, wins>>
    /\ UNCHANGED <<account, token, userTokens, familyTokens, delivered, session, faults,
                   generated, disturbed, raced, reused>>

(* GetByID and GetUserRole *)
LoadUser(r) ==
    /\ At(r, "load")
    /\ IF account[req[r].user].active THEN Goto(r, "issue") ELSE Return(r)
    /\ UNCHANGED <<account, redis, delivered, session, faults, history>>

-----------------------------------------------------------------------------
(* InvalidateFamily, on the refresh that found its token used.             *)

(* SMEMBERS family:<family> *)
ListFamily(r) ==
    /\ At(r, "reuse")
    /\ LET members == familyTokens[req[r].family] IN
        IF members = {}
        THEN Return(r) /\ reused' = reused \cup {req[r].family}
        ELSE /\ req' = [req EXCEPT ![r].pc = "members", ![r].todo = members]
             /\ UNCHANGED reused
    /\ UNCHANGED <<account, redis, delivered, session, faults,
                   generated, wins, disturbed, raced>>

(* The GETs that find the owner of each hash; one that misses is skipped.  *)
ReadMembers(r) ==
    /\ At(r, "members")
    /\ req' = [req EXCEPT ![r].pc = "drop", ![r].seen = {t \in req[r].todo : Live(t)}]
    /\ UNCHANGED <<account, redis, delivered, session, faults, history>>

DropMember(r) ==
    /\ At(r, "drop")
    /\ \E t \in req[r].todo :
        /\ DropToken(t)
        /\ req' = [req EXCEPT ![r].todo = @ \ {t},
                              ![r].pc = IF req[r].todo = {t} THEN "unindex" ELSE @]
    /\ UNCHANGED <<account, userTokens, familyTokens, delivered, session, faults,
                   generated, wins, raced, reused>>

(* Mutant: a family's revocation deletes its user's whole index. *)
UnindexWholeUser(r) ==
    /\ At(r, "unindex")
    /\ userTokens' = [userTokens EXCEPT ![req[r].user] = {}]
    /\ Goto(r, "dropFamily")
    /\ UNCHANGED <<account, token, used, familyTokens, delivered, session, faults, history>>

(* SREM user_tokens:<user> *)
UnindexMembers(r) ==
    /\ At(r, "unindex")
    /\ userTokens' = [userTokens EXCEPT ![req[r].user] = @ \ req[r].seen]
    /\ Goto(r, "dropFamily")
    /\ UNCHANGED <<account, token, used, familyTokens, delivered, session, faults, history>>

(* DEL family:<family>, then ErrTokenReused *)
DropFamily(r) ==
    /\ At(r, "dropFamily")
    /\ familyTokens' = [familyTokens EXCEPT ![req[r].family] = {}]
    /\ reused' = reused \cup {req[r].family}
    /\ Return(r)
    /\ UNCHANGED <<account, token, used, userTokens, delivered, session, faults,
                   generated, wins, disturbed, raced>>

-----------------------------------------------------------------------------
(* DeleteUserTokens and the operations that end in it.  "doomed" are the   *)
(* sessions the operation is to end.                                       *)

LogoutAll(r, u) ==
    /\ Starts(r, "logoutAll")
    /\ req' = [req EXCEPT ![r] = [IdleRequest EXCEPT !.pc = "list", !.user = u,
                  !.doomed = {token[t].family : t \in {x \in delivered : token[x].user = u}}]]
    /\ UNCHANGED <<account, redis, delivered, session, faults, history>>

(* ChangePassword verifies the current password first; AdminSetPassword    *)
(* only looks that the account exists.                                     *)
VerifyPassword(r, u) ==
    /\ Starts(r, "password")
    /\ req' = [req EXCEPT ![r] = [IdleRequest EXCEPT !.pc = "setPassword", !.user = u]]
    /\ UNCHANGED <<account, redis, delivered, session, faults, history>>

FamiliesOf(u) == {f \in Family : session[f].user = u}

SetPassword(r) ==
    /\ At(r, "setPassword")
    /\ account[req[r].user].password < MaxPassword
    /\ account' = [account EXCEPT ![req[r].user].password = @ + 1]
    /\ req' = [req EXCEPT ![r].pc = "list", ![r].doomed = FamiliesOf(req[r].user)]
    /\ UNCHANGED <<redis, delivered, session, faults, history>>

Deactivate(r, u) ==
    /\ Starts(r, "deactivate")
    /\ account' = [account EXCEPT ![u].active = FALSE]
    /\ req' = [req EXCEPT ![r] = [IdleRequest EXCEPT
                  !.pc = "list", !.user = u, !.doomed = FamiliesOf(u)]]
    /\ UNCHANGED <<redis, delivered, session, faults, history>>

(* Mutant: the early return is taken for a single session too. *)
ListUserOffByOne(r) ==
    /\ At(r, "list")
    /\ LET members == userTokens[req[r].user] IN
        IF Cardinality(members) <= 1
        THEN Return(r)
        ELSE req' = [req EXCEPT ![r].pc = "wipe", ![r].todo = members]
    /\ UNCHANGED <<account, redis, delivered, session, faults, history>>

(* SMEMBERS user_tokens:<user> *)
ListUser(r) ==
    /\ At(r, "list")
    /\ LET members == userTokens[req[r].user] IN
        IF members = {}
        THEN Return(r)
        ELSE req' = [req EXCEPT ![r].pc = "wipe", ![r].todo = members]
    /\ UNCHANGED <<account, redis, delivered, session, faults, history>>

WipeToken(r) ==
    /\ At(r, "wipe")
    /\ \E t \in req[r].todo :
        /\ DropToken(t)
        /\ req' = [req EXCEPT ![r].todo = @ \ {t},
                              ![r].pc = IF req[r].todo = {t} THEN "dropIndex" ELSE @]
    /\ UNCHANGED <<account, userTokens, familyTokens, delivered, session, faults,
                   generated, wins, raced, reused>>

(* DEL user_tokens:<user>; the operation returns. *)
DropUserIndex(r) ==
    /\ At(r, "dropIndex")
    /\ userTokens' = [userTokens EXCEPT ![req[r].user] = {}]
    /\ Return(r)
    /\ UNCHANGED <<account, token, used, familyTokens, delivered, session, faults, history>>

-----------------------------------------------------------------------------
(* DeleteToken, for a logout or for a choice of the caller's sessions.     *)

Logout(r, t) ==
    /\ Starts(r, "logout")
    /\ t \in delivered
    /\ req' = [req EXCEPT ![r] = [IdleRequest EXCEPT !.pc = "end", !.todo = {t}]]
    /\ UNCHANGED <<account, redis, delivered, session, faults, history>>

GetUserSessions(u) == {t \in userTokens[u] : Live(t)}

RevokeSessions(r, u) ==
    /\ Starts(r, "revoke")
    /\ \E chosen \in {{t} : t \in GetUserSessions(u)}
                        \cup {GetUserSessions(u) \ {t} : t \in Token} :
        /\ chosen # {}
        /\ req' = [req EXCEPT ![r] = [IdleRequest EXCEPT !.pc = "end", !.todo = chosen]]
    /\ UNCHANGED <<account, redis, delivered, session, faults, history>>

(* Mutant: DeleteToken goes on with a token that is not there. *)
EndMissing(r) ==
    /\ At(r, "end")
    /\ \E t \in req[r].todo :
        req' = [req EXCEPT ![r] = [@ EXCEPT !.pc = "endDrop", !.tok = t,
                    !.user = token[t].user, !.family = token[t].family]]
    /\ UNCHANGED <<account, redis, delivered, session, faults, history>>

(* The GET that opens DeleteToken: a missing token is a no-op. *)
EndNext(r) ==
    /\ At(r, "end")
    /\ \E t \in req[r].todo :
        \/ /\ Live(t)
           /\ req' = [req EXCEPT ![r] = [@ EXCEPT !.pc = "endDrop", !.tok = t,
                          !.user = token[t].user, !.family = token[t].family]]
        \/ /\ ~Live(t)
           /\ IF req[r].todo = {t} THEN Return(r)
                                   ELSE req' = [req EXCEPT ![r].todo = @ \ {t}]
    /\ UNCHANGED <<account, redis, delivered, session, faults, history>>

EndDrop(r) ==
    /\ At(r, "endDrop")
    /\ DropToken(req[r].tok)
    /\ Goto(r, "endUser")
    /\ UNCHANGED <<account, userTokens, familyTokens, delivered, session, faults,
                   generated, wins, raced, reused>>

EndUnindexUser(r) ==
    /\ At(r, "endUser")
    /\ userTokens' = [userTokens EXCEPT ![req[r].user] = @ \ {req[r].tok}]
    /\ Goto(r, "endFamily")
    /\ UNCHANGED <<account, token, used, familyTokens, delivered, session, faults, history>>

EndUnindexFamily(r) ==
    /\ At(r, "endFamily")
    /\ familyTokens' = [familyTokens EXCEPT ![req[r].family] = @ \ {req[r].tok}]
    /\ IF req[r].todo = {req[r].tok}
       THEN Return(r)
       ELSE req' = [req EXCEPT ![r].pc = "end", ![r].todo = @ \ {req[r].tok}]
    /\ UNCHANGED <<account, token, used, userTokens, delivered, session, faults, history>>

-----------------------------------------------------------------------------
(* A lost connection or a crash: the request returns an error and what it  *)
(* did stays done.                                                         *)
Fail(r) ==
    /\ req[r].pc # "idle"
    /\ faults < MaxFaults
    /\ faults' = faults + 1
    /\ Return(r)
    /\ UNCHANGED <<account, redis, delivered, session, history>>

(* The TTL of token:<hash> runs out. *)
Expire(t) ==
    /\ "expire" \in Operation
    /\ Live(t)
    /\ token' = [token EXCEPT ![t] = NoToken]
    /\ disturbed' = disturbed \cup {token[t].family}
    /\ UNCHANGED <<account, used, userTokens, familyTokens, delivered, session, req, faults,
                   generated, wins, raced, reused>>

(* The mark got the token's remaining TTL, rounded to a second: when it    *)
(* runs out the token's own TTL reads 0, which MarkTokenUsed takes as gone. *)
ExpireMark(t) ==
    /\ "expire" \in Operation
    /\ t \in used
    /\ ~Live(t)
    /\ used' = used \ {t}
    /\ UNCHANGED <<account, token, userTokens, familyTokens, delivered, session, req,
                   faults, history>>

Continue(r) ==
    \/ IndexUser(r) \/ IndexFamily(r)
    \/ ReadTTL(r) \/ MarkTokenUsed(r) \/ LoadUser(r)
    \/ ListFamily(r) \/ ReadMembers(r) \/ DropMember(r) \/ UnindexMembers(r) \/ DropFamily(r)
    \/ SetPassword(r) \/ ListUser(r) \/ WipeToken(r) \/ DropUserIndex(r)
    \/ EndNext(r) \/ EndDrop(r) \/ EndUnindexUser(r) \/ EndUnindexFamily(r)
    \/ \E t \in Token : CreateToken(r, t)

Start(r) ==
    \/ \E u \in User, f \in Family : Login(r, u, f)
    \/ \E t \in Token : GetTokenByHash(r, t) \/ Logout(r, t)
    \/ \E u \in User :
        LogoutAll(r, u) \/ VerifyPassword(r, u) \/ Deactivate(r, u) \/ RevokeSessions(r, u)

Next ==
    \/ \E r \in Request : Start(r) \/ Continue(r) \/ Fail(r)
    \/ \E t \in Token : Expire(t) \/ ExpireMark(t)

Spec == Init /\ [][Next]_vars

-----------------------------------------------------------------------------
(* Invariants.                                                             *)

(* The local values a request needs at each point of its program.          *)
LocalsOK(s, hashes) ==
    /\ s.pc \notin {"idle", "end"} => s.user \in User
    /\ s.pc \in {"ttl", "mark", "load", "issue", "indexUser", "indexFamily", "reuse",
                 "members", "drop", "unindex", "dropFamily",
                 "endDrop", "endUser", "endFamily"} => s.family \in Family
    /\ s.pc \in {"ttl", "mark", "load", "indexUser", "indexFamily",
                 "endDrop", "endUser", "endFamily"} => s.tok \in hashes
    /\ s.pc \in {"members", "drop", "wipe", "end", "endDrop", "endUser", "endFamily"}
          => s.todo # {}
    /\ s.todo \subseteq hashes

(* Every store and every request is well typed, at each point of a         *)
(* request's program its locals are set, and no index or mark names a hash *)
(* that was never stored.                                                  *)
TypeOK ==
    /\ account \in [User -> [active : BOOLEAN, password : Nat]]
    /\ token \in [Token -> RefreshToken \cup {NoToken}]
    /\ used \in SUBSET generated
    /\ userTokens \in [User -> SUBSET generated]
    /\ familyTokens \in [Family -> SUBSET generated]
    /\ delivered \in SUBSET generated
    /\ session \in [Family -> [user : User, password : Nat] \cup {NoSession}]
    /\ req \in [Request -> RequestState]
    /\ faults \in Nat
    /\ generated \in SUBSET Token
    /\ wins \in [Token -> Nat]
    /\ disturbed \in SUBSET Family
    /\ raced \in SUBSET User
    /\ reused \in SUBSET Family
    /\ \A t \in Token : Live(t) => t \in generated
    /\ \A r \in Request : LocalsOK(req[r], generated)

(* A token that is still stored was exchanged at most once, and if it was  *)
(* its mark is there: a second presentation finds it, whatever runs at the *)
(* same time (MarkTokenUsed, the deletes that take token and mark).        *)
ConsumedIsMarked ==
    \A t \in Token : Live(t) /\ wins[t] > 0 => t \in used /\ wins[t] = 1

(* A family that lost none of its keys is a chain: it has one head, a      *)
(* stored token not yet exchanged or a refresh about to store the heir.    *)
Heads(f) ==
    {t \in Token : token[t].family = f /\ t \notin used}
        \cup {r \in Request : req[r].family = f /\ req[r].pc \in {"load", "issue"}}

ChainUnlessDisturbed ==
    \A f \in Family \ disturbed : \A x, y \in Heads(f) : x = y

(* Tokens of a family are used up one by one, in order.                     *)
RotationHolds == ConsumedIsMarked /\ ChainUnlessDisturbed

(* Every token a client holds and Redis stores is in its user's index, so  *)
(* the operations that go by the index reach it - unless it was added while *)
(* another revocation was emptying that index.                             *)
IndexCoversSessions ==
    \A t \in delivered :
        Live(t) /\ token[t].user \notin raced => t \in userTokens[token[t].user]

-----------------------------------------------------------------------------
(* Action properties.                                                      *)

(* The requests about to hand out a token of an account that is not active *)
(* only get fewer: neither a login nor a refresh joins them.               *)
Issuers(u) ==
    {r \in Request : req[r].user = u /\ req[r].pc \in {"issue", "indexUser", "indexFamily"}}

DeactivationStopsIssuing ==
    [][\A u \in User : ~account[u].active => Issuers(u)' \subseteq Issuers(u)]_vars

(* DeleteUserTokens has returned without an error. *)
RevocationReturns(r) ==
    /\ req[r].pc \in {"list", "dropIndex"} /\ req[r]'.pc = "idle"
    /\ faults' = faults

(* When it returns, no client holds a stored token of a session that it    *)
(* was to end, unless an issue overlapped a revocation of that user.       *)
RevocationEndsSessions ==
    [][\A r \in Request : RevocationReturns(r) =>
        \A t \in delivered : token[t]'.family \in req[r].doomed => req[r].user \in raced]_vars

(* After a deactivation nobody is handed a new token who was not about to  *)
(* get one, and a revocation that returns has ended every session it was   *)
(* to end, unless an issue overlapped it (auth.go:369-396,                 *)
(* redis/tokens.go:128-160).                                               *)
AccessEnds == DeactivationStopsIssuing /\ RevocationEndsSessions

-----------------------------------------------------------------------------
(* What the code's comments say; the runs show where the code differs.     *)

(* identity/user.go:270, :324, :352, auth.go:391: an operation that revokes *)
(* every session leaves no token of a session it was to end.               *)
RevokedSessionsEnd ==
    [][\A r \in Request : RevocationReturns(r) =>
        \A t \in delivered : token[t]'.family \notin req[r].doomed]_vars

(* identity/auth.go:343: once a reuse has been reported, its whole family  *)
(* is revoked.                                                             *)
ReusedFamilyIsRevoked == \A t \in delivered : token[t].family \notin reused

=============================================================================
