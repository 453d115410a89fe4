-------------------------- MODULE AuthTokensProofs --------------------------
(* Proofs about AuthTokens, for any number of accounts, tokens, families   *)
(* and concurrent requests.                                                *)
EXTENDS AuthTokens, TLAPS

-----------------------------------------------------------------------------
(* Type correctness.                                                       *)

(* A step that gives one request a well-typed state keeps all of them so.  *)
LEMMA SetRequest ==
    ASSUME TypeOK, NEW r \in Request, NEW n \in RequestState,
           req' = [req EXCEPT ![r] = n], generated \subseteq generated', LocalsOK(n, generated')
    PROVE  /\ req' \in [Request -> RequestState]
           /\ \A q \in Request : LocalsOK(req'[q], generated')
<1>1. req' \in [Request -> RequestState]
    BY DEF TypeOK
<1>2. ASSUME NEW q \in Request PROVE LocalsOK(req'[q], generated')
    <2>1. CASE q = r
        BY <2>1 DEF TypeOK, LocalsOK
    <2>2. CASE q # r
        <3>1. req'[q] = req[q] /\ LocalsOK(req[q], generated)
            BY <2>2 DEF TypeOK
        <3> QED BY <3>1 DEF LocalsOK
    <2> QED BY <2>1, <2>2
<1> QED BY <1>1, <1>2

LEMMA IdleOK == IdleRequest \in RequestState /\ LocalsOK(IdleRequest, generated')
BY DEF IdleRequest, RequestState, RequestPc, LocalsOK

LEMMA InitTypeOK == Init => TypeOK
<1> SUFFICES ASSUME Init PROVE TypeOK
    OBVIOUS
<1>1. \A r \in Request : LocalsOK(req[r], generated)
    BY DEF Init, IdleRequest, LocalsOK
<1> QED BY <1>1
    DEF Init, TypeOK, RefreshToken, NoToken, NoSession, Live, IdleRequest, RequestState,
        RequestPc

(* A step that only moves one request on.                                  *)
LEMMA MoveTypeOK ==
    ASSUME TypeOK, NEW r \in Request, NEW n \in RequestState,
           req' = [req EXCEPT ![r] = n], LocalsOK(n, generated),
           UNCHANGED <<account, redis, delivered, session, faults, history>>
    PROVE  TypeOK'
<1>1. LocalsOK(n, generated')
    BY DEF LocalsOK, history
<1>2. req' \in [Request -> RequestState] /\ \A q \in Request : LocalsOK(req'[q], generated')
    BY <1>1, SetRequest DEF history
<1> QED BY <1>2 DEF TypeOK, Live, redis, history

LEMMA LoginTypeOK ==
    ASSUME TypeOK, NEW r \in Request, NEW u \in User, NEW f \in Family, Login(r, u, f)
    PROVE  TypeOK'
<1> DEFINE n == [IdleRequest EXCEPT !.pc = "issue", !.user = u, !.family = f]
<1>1. n \in RequestState /\ LocalsOK(n, generated')
    BY DEF IdleRequest, RequestState, RequestPc, LocalsOK
<1>2. req' = [req EXCEPT ![r] = n] /\ generated' = generated
    BY DEF Login, history
<1>3. req' \in [Request -> RequestState] /\ \A q \in Request : LocalsOK(req'[q], generated')
    BY <1>1, <1>2, SetRequest
<1>4. session' \in [Family -> [user : User, password : Nat] \cup {NoSession}]
    BY DEF Login, TypeOK
<1> QED BY <1>3, <1>4 DEF Login, TypeOK, Live, redis, history

(* The records the steps build.                                            *)
LEMMA AtPc ==
    ASSUME NEW s \in RequestState, NEW p \in RequestPc
    PROVE  /\ [s EXCEPT !.pc = p] \in RequestState
           /\ [s EXCEPT !.pc = p].pc = p
           /\ [s EXCEPT !.pc = p].user = s.user
           /\ [s EXCEPT !.pc = p].family = s.family
           /\ [s EXCEPT !.pc = p].tok = s.tok
           /\ [s EXCEPT !.pc = p].todo = s.todo
BY DEF RequestState

(* A step that moves one request from one label to the next.               *)
LEMMA GotoTypeOK ==
    ASSUME TypeOK, NEW r \in Request, NEW p \in RequestPc, Goto(r, p),
           generated' = generated, LocalsOK([req[r] EXCEPT !.pc = p], generated)
    PROVE  /\ req' \in [Request -> RequestState]
           /\ \A q \in Request : LocalsOK(req'[q], generated')
<1> DEFINE n == [req[r] EXCEPT !.pc = p]
<1>1. n \in RequestState
    BY AtPc DEF TypeOK
<1>2. LocalsOK(n, generated')
    BY DEF LocalsOK
<1>3. req' = [req EXCEPT ![r] = n]
    BY DEF TypeOK, Goto
<1> QED BY <1>1, <1>2, <1>3, SetRequest

LEMMA ReturnTypeOK ==
    ASSUME TypeOK, NEW r \in Request, Return(r), generated' = generated
    PROVE  /\ req' \in [Request -> RequestState]
           /\ \A q \in Request : LocalsOK(req'[q], generated')
BY IdleOK, SetRequest DEF Return

-----------------------------------------------------------------------------
LEMMA CreateTokenTypeOK ==
    ASSUME TypeOK, NEW r \in Request, NEW t \in Token, CreateToken(r, t)
    PROVE  TypeOK'
<1> DEFINE n == [req[r] EXCEPT !.pc = "indexUser", !.tok = t]
<1>1. /\ req[r] \in RequestState /\ LocalsOK(req[r], generated) /\ req[r].pc = "issue"
      /\ generated' = generated \cup {t}
    BY DEF CreateToken, At, TypeOK
<1>2. req' = [req EXCEPT ![r] = n]
    BY DEF CreateToken, TypeOK
<1>3. "indexUser" \in RequestPc
    BY DEF RequestPc
<1>4. /\ n \in RequestState /\ n.pc = "indexUser" /\ n.tok = t
      /\ n.user = req[r].user /\ n.family = req[r].family /\ n.todo = req[r].todo
    BY <1>1, <1>3 DEF RequestState
<1> HIDE DEF n
<1>5. LocalsOK(n, generated')
    BY <1>1, <1>4 DEF LocalsOK
<1>6. req' \in [Request -> RequestState] /\ \A q \in Request : LocalsOK(req'[q], generated')
    BY <1>1, <1>2, <1>4, <1>5, SetRequest
<1>7. [user |-> req[r].user, family |-> req[r].family] \in RefreshToken
    BY <1>1 DEF LocalsOK, RefreshToken
<1>8. token' \in [Token -> RefreshToken \cup {NoToken}]
    BY <1>7 DEF CreateToken, TypeOK
<1>9. \A x \in Token : Live(x)' => x \in generated'
    BY <1>1 DEF CreateToken, TypeOK, Live
<1> QED BY <1>1, <1>6, <1>8, <1>9 DEF CreateToken, TypeOK

LEMMA IndexUserTypeOK ==
    ASSUME TypeOK, NEW r \in Request, IndexUser(r)
    PROVE  TypeOK'
<1>1. req[r] \in RequestState /\ LocalsOK(req[r], generated) /\ req[r].pc = "indexUser"
    BY DEF IndexUser, At, TypeOK
<1>2. "indexFamily" \in RequestPc
    BY DEF RequestPc
<1>3. LocalsOK([req[r] EXCEPT !.pc = "indexFamily"], generated)
    BY <1>1, <1>2, AtPc DEF LocalsOK
<1>4. req' \in [Request -> RequestState] /\ \A q \in Request : LocalsOK(req'[q], generated')
    BY <1>2, <1>3, GotoTypeOK DEF IndexUser
<1>5. req[r].user \in User /\ req[r].tok \in generated
    BY <1>1 DEF LocalsOK
<1>6. userTokens' \in [User -> SUBSET generated] /\ raced' \in SUBSET User
    BY <1>5 DEF IndexUser, TypeOK
<1> QED BY <1>4, <1>6 DEF IndexUser, TypeOK, Live

LEMMA IndexFamilyTypeOK ==
    ASSUME TypeOK, NEW r \in Request, IndexFamily(r)
    PROVE  TypeOK'
<1>1. req[r].family \in Family /\ req[r].tok \in generated
    BY DEF IndexFamily, At, TypeOK, LocalsOK
<1>2. req' \in [Request -> RequestState] /\ \A q \in Request : LocalsOK(req'[q], generated')
    BY ReturnTypeOK DEF IndexFamily, history
<1>3. /\ familyTokens' \in [Family -> SUBSET generated]
      /\ delivered' \in SUBSET generated
    BY <1>1 DEF IndexFamily, TypeOK
<1> QED BY <1>2, <1>3 DEF IndexFamily, TypeOK, Live, history

(* The steps of a refresh.                                                 *)
LEMMA GetTokenByHashTypeOK ==
    ASSUME TypeOK, NEW r \in Request, NEW t \in Token, GetTokenByHash(r, t)
    PROVE  TypeOK'
<1> DEFINE n == [IdleRequest EXCEPT !.pc = "ttl", !.tok = t, !.user = token[t].user,
                                    !.family = token[t].family]
<1>1. token[t] \in RefreshToken /\ t \in generated
    BY DEF GetTokenByHash, TypeOK, Live
<1>2. token[t].user \in User /\ token[t].family \in Family
    BY <1>1 DEF RefreshToken
<1>3. n \in RequestState /\ LocalsOK(n, generated)
    BY <1>1, <1>2 DEF IdleRequest, RequestState, RequestPc, LocalsOK
<1> QED BY <1>3, MoveTypeOK DEF GetTokenByHash

LEMMA ReadTTLTypeOK ==
    ASSUME TypeOK, NEW r \in Request, ReadTTL(r)
    PROVE  TypeOK'
<1>1. req[r] \in RequestState /\ LocalsOK(req[r], generated) /\ req[r].pc = "ttl"
    BY DEF ReadTTL, At, TypeOK
<1>2. "mark" \in RequestPc
    BY DEF RequestPc
<1>3. LocalsOK([req[r] EXCEPT !.pc = "mark"], generated)
    BY <1>1, <1>2, AtPc DEF LocalsOK
<1>4. req' \in [Request -> RequestState] /\ \A q \in Request : LocalsOK(req'[q], generated')
    BY <1>2, <1>3, GotoTypeOK, ReturnTypeOK DEF ReadTTL, history
<1> QED BY <1>4 DEF ReadTTL, TypeOK, Live, redis, history

LEMMA MarkTokenUsedTypeOK ==
    ASSUME TypeOK, NEW r \in Request, MarkTokenUsed(r)
    PROVE  TypeOK'
<1>1. req[r] \in RequestState /\ LocalsOK(req[r], generated) /\ req[r].pc = "mark"
    BY DEF MarkTokenUsed, At, TypeOK
<1>2. "load" \in RequestPc /\ "reuse" \in RequestPc
    BY DEF RequestPc
<1>3. /\ LocalsOK([req[r] EXCEPT !.pc = "load"], generated)
      /\ LocalsOK([req[r] EXCEPT !.pc = "reuse"], generated)
    BY <1>1, <1>2, AtPc DEF LocalsOK
<1>4. req' \in [Request -> RequestState] /\ \A q \in Request : LocalsOK(req'[q], generated')
    BY <1>2, <1>3, GotoTypeOK DEF MarkTokenUsed
<1>5. req[r].tok \in generated
    BY <1>1 DEF LocalsOK
<1>6. used' \in SUBSET generated /\ wins' \in [Token -> Nat]
    BY <1>5 DEF MarkTokenUsed, TypeOK
<1> QED BY <1>4, <1>6 DEF MarkTokenUsed, TypeOK, Live

LEMMA LoadUserTypeOK ==
    ASSUME TypeOK, NEW r \in Request, LoadUser(r)
    PROVE  TypeOK'
<1>1. req[r] \in RequestState /\ LocalsOK(req[r], generated) /\ req[r].pc = "load"
    BY DEF LoadUser, At, TypeOK
<1>2. "issue" \in RequestPc
    BY DEF RequestPc
<1>3. LocalsOK([req[r] EXCEPT !.pc = "issue"], generated)
    BY <1>1, <1>2, AtPc DEF LocalsOK
<1>4. req' \in [Request -> RequestState] /\ \A q \in Request : LocalsOK(req'[q], generated')
    BY <1>2, <1>3, GotoTypeOK, ReturnTypeOK DEF LoadUser, history
<1> QED BY <1>4 DEF LoadUser, TypeOK, Live, redis, history

-----------------------------------------------------------------------------
(* The steps that take keys away.                                          *)
LEMMA DropTokenTypeOK ==
    ASSUME TypeOK, NEW t \in Token, DropToken(t), generated' = generated
    PROVE  /\ token' \in [Token -> RefreshToken \cup {NoToken}]
           /\ used' \in SUBSET generated
           /\ disturbed' \in SUBSET Family
           /\ \A x \in Token : Live(x)' => x \in generated
<1>1. Live(t) => token[t].family \in Family
    BY DEF TypeOK, Live, RefreshToken
<1>2. /\ token' \in [Token -> RefreshToken \cup {NoToken}]
      /\ used' \in SUBSET generated
      /\ disturbed' \in SUBSET Family
    BY <1>1 DEF DropToken, TypeOK
<1> QED BY <1>2 DEF DropToken, TypeOK, Live

LEMMA ListFamilyTypeOK ==
    ASSUME TypeOK, NEW r \in Request, ListFamily(r)
    PROVE  TypeOK'
<1> DEFINE M == familyTokens[req[r].family]
           n == [req[r] EXCEPT !.pc = "members", !.todo = M]
<1>1. req[r] \in RequestState /\ LocalsOK(req[r], generated) /\ req[r].pc = "reuse"
    BY DEF ListFamily, At, TypeOK
<1>2. req[r].family \in Family /\ req[r].user \in User
    BY <1>1 DEF LocalsOK
<1>3. M \in SUBSET generated /\ M \in SUBSET Token
    BY <1>2 DEF TypeOK
<1>4. "members" \in RequestPc
    BY DEF RequestPc
<1>5. generated' = generated
    BY DEF ListFamily
<1>6. CASE M = {}
    <2>1. req' \in [Request -> RequestState] /\ \A q \in Request : LocalsOK(req'[q], generated')
        BY <1>5, <1>6, ReturnTypeOK DEF ListFamily
    <2>2. reused' \in SUBSET Family
        BY <1>2, <1>6 DEF ListFamily, TypeOK
    <2> QED BY <2>1, <2>2 DEF ListFamily, TypeOK, Live, redis
<1>7. CASE M # {}
    <2>1. req' = [req EXCEPT ![r] = n]
        BY <1>7 DEF ListFamily, TypeOK
    <2> HIDE DEF M
    <2>2. n \in RequestState /\ n.pc = "members" /\ n.todo = M
          /\ n.user = req[r].user /\ n.family = req[r].family
        BY <1>1, <1>3, <1>4 DEF RequestState
    <2> HIDE DEF n
    <2>3. LocalsOK(n, generated)
        BY <1>2, <1>3, <1>7, <2>2 DEF LocalsOK
    <2>4. req' \in [Request -> RequestState] /\ \A q \in Request : LocalsOK(req'[q], generated')
        BY <1>5, <2>1, <2>2, <2>3, SetRequest
    <2>5. reused' \in SUBSET Family
        BY <1>2 DEF ListFamily, TypeOK
    <2> QED BY <2>4, <2>5 DEF ListFamily, TypeOK, Live, redis
<1> QED BY <1>6, <1>7

LEMMA ReadMembersTypeOK ==
    ASSUME TypeOK, NEW r \in Request, ReadMembers(r)
    PROVE  TypeOK'
<1> DEFINE S == {t \in req[r].todo : Live(t)}
           n == [req[r] EXCEPT !.pc = "drop", !.seen = S]
<1>1. req[r] \in RequestState /\ LocalsOK(req[r], generated) /\ req[r].pc = "members"
    BY DEF ReadMembers, At, TypeOK
<1>2. "drop" \in RequestPc /\ S \in SUBSET Token
    BY <1>1 DEF RequestPc, RequestState
<1>3. /\ n \in RequestState /\ n.pc = "drop" /\ n.todo = req[r].todo
      /\ n.user = req[r].user /\ n.family = req[r].family
    BY <1>1, <1>2 DEF RequestState
<1>4. req' = [req EXCEPT ![r] = n]
    BY DEF ReadMembers, TypeOK
<1> HIDE DEF n, S
<1>5. LocalsOK(n, generated)
    BY <1>1, <1>3 DEF LocalsOK
<1> QED BY <1>3, <1>4, <1>5, MoveTypeOK DEF ReadMembers

(* One hash of a pipeline of DELs, and the label after the last.           *)
LEMMA DropOneTypeOK ==
    ASSUME TypeOK, NEW r \in Request, NEW t \in req[r].todo, NEW p \in RequestPc,
           req[r].pc \in {"drop", "wipe"},
           req[r].pc = "drop" => p = "unindex", req[r].pc = "wipe" => p = "dropIndex",
           DropToken(t), generated' = generated,
           req' = [req EXCEPT ![r].todo = @ \ {t},
                              ![r].pc = IF req[r].todo = {t} THEN p ELSE @]
    PROVE  /\ req' \in [Request -> RequestState]
           /\ \A q \in Request : LocalsOK(req'[q], generated')
           /\ token' \in [Token -> RefreshToken \cup {NoToken}]
           /\ used' \in SUBSET generated
           /\ disturbed' \in SUBSET Family
           /\ \A x \in Token : Live(x)' => x \in generated
<1> DEFINE P == IF req[r].todo = {t} THEN p ELSE req[r].pc
           T == req[r].todo \ {t}
           n == [req[r] EXCEPT !.pc = P, !.todo = T]
<1>1. req[r] \in RequestState /\ LocalsOK(req[r], generated)
    BY DEF TypeOK
<1>2. P \in RequestPc /\ T \in SUBSET Token /\ t \in Token
    BY <1>1 DEF RequestState
<1>3. req' = [req EXCEPT ![r] = n]
    BY DEF TypeOK
<1>4. P \in {"drop", "wipe"} => T # {}
    OBVIOUS
<1>5. /\ P \in {"drop", "wipe", "unindex", "dropIndex"}
      /\ P \in {"drop", "unindex"} => req[r].pc = "drop"
    OBVIOUS
<1> HIDE DEF P, T
<1>6. n \in RequestState /\ n.pc = P /\ n.todo = T
      /\ n.user = req[r].user /\ n.family = req[r].family
    BY <1>1, <1>2 DEF RequestState
<1>7. T \subseteq generated
    BY <1>1 DEF LocalsOK, T
<1> HIDE DEF n
<1>8. LocalsOK(n, generated)
    BY <1>1, <1>6, <1>4, <1>5, <1>7 DEF LocalsOK
<1>9. req' \in [Request -> RequestState] /\ \A q \in Request : LocalsOK(req'[q], generated')
    BY <1>6, <1>3, <1>8, SetRequest
<1> QED BY <1>2, <1>9, DropTokenTypeOK

LEMMA DropMemberTypeOK ==
    ASSUME TypeOK, NEW r \in Request, DropMember(r)
    PROVE  TypeOK'
<1>1. PICK t \in req[r].todo :
        /\ DropToken(t)
        /\ req' = [req EXCEPT ![r].todo = @ \ {t},
                              ![r].pc = IF req[r].todo = {t} THEN "unindex" ELSE @]
    BY DEF DropMember
<1>2. req[r].pc = "drop" /\ generated' = generated /\ "unindex" \in RequestPc
    BY DEF DropMember, At, RequestPc
<1>3. /\ req' \in [Request -> RequestState]
      /\ \A q \in Request : LocalsOK(req'[q], generated')
      /\ token' \in [Token -> RefreshToken \cup {NoToken}]
      /\ used' \in SUBSET generated
      /\ disturbed' \in SUBSET Family
      /\ \A x \in Token : Live(x)' => x \in generated
    BY <1>1, <1>2, DropOneTypeOK
<1> QED BY <1>2, <1>3 DEF DropMember, TypeOK

LEMMA WipeTokenTypeOK ==
    ASSUME TypeOK, NEW r \in Request, WipeToken(r)
    PROVE  TypeOK'
<1>1. PICK t \in req[r].todo :
        /\ DropToken(t)
        /\ req' = [req EXCEPT ![r].todo = @ \ {t},
                              ![r].pc = IF req[r].todo = {t} THEN "dropIndex" ELSE @]
    BY DEF WipeToken
<1>2. req[r].pc = "wipe" /\ generated' = generated /\ "dropIndex" \in RequestPc
    BY DEF WipeToken, At, RequestPc
<1>3. /\ req' \in [Request -> RequestState]
      /\ \A q \in Request : LocalsOK(req'[q], generated')
      /\ token' \in [Token -> RefreshToken \cup {NoToken}]
      /\ used' \in SUBSET generated
      /\ disturbed' \in SUBSET Family
      /\ \A x \in Token : Live(x)' => x \in generated
    BY <1>1, <1>2, DropOneTypeOK
<1> QED BY <1>2, <1>3 DEF WipeToken, TypeOK

LEMMA UnindexMembersTypeOK ==
    ASSUME TypeOK, NEW r \in Request, UnindexMembers(r)
    PROVE  TypeOK'
<1>1. req[r] \in RequestState /\ LocalsOK(req[r], generated) /\ req[r].pc = "unindex"
    BY DEF UnindexMembers, At, TypeOK
<1>2. "dropFamily" \in RequestPc
    BY DEF RequestPc
<1>3. LocalsOK([req[r] EXCEPT !.pc = "dropFamily"], generated)
    BY <1>1, <1>2, AtPc DEF LocalsOK
<1>4. req' \in [Request -> RequestState] /\ \A q \in Request : LocalsOK(req'[q], generated')
    BY <1>2, <1>3, GotoTypeOK DEF UnindexMembers, history
<1>5. userTokens' \in [User -> SUBSET generated]
    BY DEF UnindexMembers, TypeOK
<1> QED BY <1>4, <1>5 DEF UnindexMembers, TypeOK, Live, history

LEMMA DropFamilyTypeOK ==
    ASSUME TypeOK, NEW r \in Request, DropFamily(r)
    PROVE  TypeOK'
<1>1. req[r].family \in Family
    BY DEF DropFamily, At, TypeOK, LocalsOK
<1>2. req' \in [Request -> RequestState] /\ \A q \in Request : LocalsOK(req'[q], generated')
    BY ReturnTypeOK DEF DropFamily
<1>3. familyTokens' \in [Family -> SUBSET generated] /\ reused' \in SUBSET Family
    BY <1>1 DEF DropFamily, TypeOK
<1> QED BY <1>2, <1>3 DEF DropFamily, TypeOK, Live

LEMMA DropUserIndexTypeOK ==
    ASSUME TypeOK, NEW r \in Request, DropUserIndex(r)
    PROVE  TypeOK'
<1>1. req' \in [Request -> RequestState] /\ \A q \in Request : LocalsOK(req'[q], generated')
    BY ReturnTypeOK DEF DropUserIndex, history
<1>2. userTokens' \in [User -> SUBSET generated]
    BY DEF DropUserIndex, TypeOK
<1> QED BY <1>1, <1>2 DEF DropUserIndex, TypeOK, Live, history

-----------------------------------------------------------------------------
(* The operations that revoke.                                             *)
LEMMA LogoutAllTypeOK ==
    ASSUME TypeOK, NEW r \in Request, NEW u \in User, LogoutAll(r, u)
    PROVE  TypeOK'
<1> DEFINE D == {token[t].family : t \in {x \in delivered : token[x].user = u}}
           n == [IdleRequest EXCEPT !.pc = "list", !.user = u, !.doomed = D]
<1>1. D \in SUBSET Family
    <2>1. ASSUME NEW t \in delivered, token[t].user = u PROVE token[t].family \in Family
        <3>1. token[t] \in RefreshToken \cup {NoToken}
            BY DEF TypeOK
        <3>2. token[t] # NoToken
            BY <2>1, NoneAssumption DEF NoToken
        <3> QED BY <3>1, <3>2 DEF RefreshToken
    <2> QED BY <2>1
<1>2. req' = [req EXCEPT ![r] = n]
    BY DEF LogoutAll
<1> HIDE DEF D
<1>3. n \in RequestState /\ LocalsOK(n, generated)
    BY <1>1 DEF IdleRequest, RequestState, RequestPc, LocalsOK
<1> QED BY <1>2, <1>3, MoveTypeOK DEF LogoutAll

LEMMA VerifyPasswordTypeOK ==
    ASSUME TypeOK, NEW r \in Request, NEW u \in User, VerifyPassword(r, u)
    PROVE  TypeOK'
<1> DEFINE n == [IdleRequest EXCEPT !.pc = "setPassword", !.user = u]
<1>1. n \in RequestState /\ LocalsOK(n, generated)
    BY DEF IdleRequest, RequestState, RequestPc, LocalsOK
<1> QED BY <1>1, MoveTypeOK DEF VerifyPassword

LEMMA SetPasswordTypeOK ==
    ASSUME TypeOK, NEW r \in Request, SetPassword(r)
    PROVE  TypeOK'
<1> DEFINE D == FamiliesOf(req[r].user)
           n == [req[r] EXCEPT !.pc = "list", !.doomed = D]
<1>1. req[r] \in RequestState /\ LocalsOK(req[r], generated) /\ req[r].pc = "setPassword"
    BY DEF SetPassword, At, TypeOK
<1>2. "list" \in RequestPc /\ D \in SUBSET Family
    BY DEF RequestPc, FamiliesOf
<1>3. req' = [req EXCEPT ![r] = n]
    BY DEF SetPassword, TypeOK
<1> HIDE DEF D
<1>4. /\ n \in RequestState /\ n.pc = "list" /\ n.user = req[r].user
      /\ n.todo = req[r].todo
    BY <1>1, <1>2 DEF RequestState
<1> HIDE DEF n
<1>5. LocalsOK(n, generated)
    BY <1>1, <1>4 DEF LocalsOK
<1>6. generated' = generated
    BY DEF SetPassword, history
<1>7. req' \in [Request -> RequestState] /\ \A q \in Request : LocalsOK(req'[q], generated')
    BY <1>3, <1>4, <1>5, <1>6, SetRequest
<1>8. account' \in [User -> [active : BOOLEAN, password : Nat]]
    <2> DEFINE k == account[req[r].user].password + 1
    <2>1. account[req[r].user] \in [active : BOOLEAN, password : Nat]
        BY <1>1 DEF TypeOK, LocalsOK
    <2>2. account' = [account EXCEPT ![req[r].user].password = k]
        BY DEF SetPassword
    <2>3. k \in Nat
        BY <2>1
    <2> HIDE DEF k
    <2> QED BY <2>2, <2>3 DEF TypeOK
<1> QED BY <1>7, <1>8 DEF SetPassword, TypeOK, Live, redis, history

LEMMA DeactivateTypeOK ==
    ASSUME TypeOK, NEW r \in Request, NEW u \in User, Deactivate(r, u)
    PROVE  TypeOK'
<1> DEFINE D == FamiliesOf(u)
           n == [IdleRequest EXCEPT !.pc = "list", !.user = u, !.doomed = D]
<1>1. D \in SUBSET Family
    BY DEF FamiliesOf
<1>2. req' = [req EXCEPT ![r] = n] /\ generated' = generated
    BY DEF Deactivate, history
<1> HIDE DEF D
<1>3. n \in RequestState /\ LocalsOK(n, generated)
    BY <1>1 DEF IdleRequest, RequestState, RequestPc, LocalsOK
<1>4. req' \in [Request -> RequestState] /\ \A q \in Request : LocalsOK(req'[q], generated')
    BY <1>2, <1>3, SetRequest
<1>5. account' \in [User -> [active : BOOLEAN, password : Nat]]
    BY DEF Deactivate, TypeOK
<1> QED BY <1>4, <1>5 DEF Deactivate, TypeOK, Live, redis, history

LEMMA ListUserTypeOK ==
    ASSUME TypeOK, NEW r \in Request, ListUser(r)
    PROVE  TypeOK'
<1> DEFINE M == userTokens[req[r].user]
           n == [req[r] EXCEPT !.pc = "wipe", !.todo = M]
<1>1. req[r] \in RequestState /\ LocalsOK(req[r], generated) /\ req[r].pc = "list"
    BY DEF ListUser, At, TypeOK
<1>2. req[r].user \in User
    BY <1>1 DEF LocalsOK
<1>3. M \in SUBSET generated /\ M \in SUBSET Token /\ "wipe" \in RequestPc
    BY <1>2 DEF TypeOK, RequestPc
<1>4. CASE M = {}
    <2>1. req' \in [Request -> RequestState] /\ \A q \in Request : LocalsOK(req'[q], generated')
        BY <1>4, ReturnTypeOK DEF ListUser, history
    <2> QED BY <2>1 DEF ListUser, TypeOK, Live, redis, history
<1>5. CASE M # {}
    <2>1. req' = [req EXCEPT ![r] = n]
        BY <1>5 DEF ListUser, TypeOK
    <2> HIDE DEF M
    <2>2. n \in RequestState /\ n.pc = "wipe" /\ n.todo = M /\ n.user = req[r].user
        BY <1>1, <1>3 DEF RequestState
    <2> HIDE DEF n
    <2>3. LocalsOK(n, generated)
        BY <1>2, <1>3, <1>5, <2>2 DEF LocalsOK
    <2> QED BY <2>1, <2>2, <2>3, MoveTypeOK DEF ListUser
<1> QED BY <1>4, <1>5

LEMMA LogoutTypeOK ==
    ASSUME TypeOK, NEW r \in Request, NEW t \in Token, Logout(r, t)
    PROVE  TypeOK'
<1> DEFINE n == [IdleRequest EXCEPT !.pc = "end", !.todo = {t}]
<1>1. n \in RequestState
    BY DEF IdleRequest, RequestState, RequestPc
<1>2. LocalsOK(n, generated)
    BY DEF IdleRequest, LocalsOK, Logout, TypeOK
<1> QED BY <1>1, <1>2, MoveTypeOK DEF Logout

LEMMA RevokeSessionsTypeOK ==
    ASSUME TypeOK, NEW r \in Request, NEW u \in User, RevokeSessions(r, u)
    PROVE  TypeOK'
<1>1. PICK chosen \in {{t} : t \in GetUserSessions(u)}
                        \cup {GetUserSessions(u) \ {t} : t \in Token} :
        /\ chosen # {}
        /\ req' = [req EXCEPT ![r] = [IdleRequest EXCEPT !.pc = "end", !.todo = chosen]]
    BY DEF RevokeSessions
<1> DEFINE n == [IdleRequest EXCEPT !.pc = "end", !.todo = chosen]
<1>2. chosen \in SUBSET generated /\ chosen \in SUBSET Token
    BY DEF GetUserSessions, TypeOK
<1>3. n \in RequestState
    BY <1>2 DEF IdleRequest, RequestState, RequestPc
<1>4. LocalsOK(n, generated)
    BY <1>1, <1>2 DEF IdleRequest, LocalsOK
<1> QED BY <1>1, <1>3, <1>4, MoveTypeOK DEF RevokeSessions

LEMMA EndNextTypeOK ==
    ASSUME TypeOK, NEW r \in Request, EndNext(r)
    PROVE  TypeOK'
<1>1. req[r] \in RequestState /\ LocalsOK(req[r], generated) /\ req[r].pc = "end"
    BY DEF EndNext, At, TypeOK
<1>2. PICK t \in req[r].todo :
        \/ /\ Live(t)
           /\ req' = [req EXCEPT ![r] = [@ EXCEPT !.pc = "endDrop", !.tok = t,
                          !.user = token[t].user, !.family = token[t].family]]
        \/ /\ ~Live(t)
           /\ IF req[r].todo = {t} THEN Return(r)
                                   ELSE req' = [req EXCEPT ![r].todo = @ \ {t}]
    BY DEF EndNext
<1>3. t \in Token /\ t \in generated
    BY <1>1 DEF LocalsOK, RequestState
<1>4. UNCHANGED <<account, redis, delivered, session, faults, history>>
    BY DEF EndNext
<1>5. CASE Live(t)
    <2> DEFINE u == token[t].user
               f == token[t].family
               n == [req[r] EXCEPT !.pc = "endDrop", !.tok = t, !.user = u, !.family = f]
    <2>1. u \in User /\ f \in Family
        BY <1>3, <1>5 DEF TypeOK, Live, RefreshToken
    <2>2. req' = [req EXCEPT ![r] = n]
        BY <1>2, <1>5 DEF TypeOK
    <2>3. "endDrop" \in RequestPc
        BY DEF RequestPc
    <2> HIDE DEF u, f
    <2>4. /\ n \in RequestState /\ n.pc = "endDrop" /\ n.tok = t /\ n.user = u
          /\ n.family = f /\ n.todo = req[r].todo
        BY <1>1, <1>3, <2>1, <2>3 DEF RequestState
    <2> HIDE DEF n
    <2>5. LocalsOK(n, generated)
        BY <1>1, <1>3, <2>1, <2>4 DEF LocalsOK
    <2> QED BY <1>4, <2>2, <2>4, <2>5, MoveTypeOK
<1>6. CASE ~Live(t) /\ req[r].todo = {t}
    BY <1>2, <1>4, <1>6, IdleOK, MoveTypeOK DEF Return, history
<1>7. CASE ~Live(t) /\ req[r].todo # {t}
    <2> DEFINE T == req[r].todo \ {t}
               n == [req[r] EXCEPT !.todo = T]
    <2>1. T # {} /\ T \in SUBSET Token /\ T \in SUBSET generated
        BY <1>1, <1>7 DEF LocalsOK, RequestState
    <2>2. req' = [req EXCEPT ![r] = n]
        BY <1>2, <1>7 DEF TypeOK
    <2> HIDE DEF T
    <2>3. n \in RequestState /\ n.pc = "end" /\ n.todo = T
        BY <1>1, <2>1 DEF RequestState
    <2> HIDE DEF n
    <2>4. LocalsOK(n, generated)
        BY <2>1, <2>3 DEF LocalsOK
    <2> QED BY <1>4, <2>2, <2>3, <2>4, MoveTypeOK
<1> QED BY <1>5, <1>6, <1>7

LEMMA EndDropTypeOK ==
    ASSUME TypeOK, NEW r \in Request, EndDrop(r)
    PROVE  TypeOK'
<1>1. req[r] \in RequestState /\ LocalsOK(req[r], generated) /\ req[r].pc = "endDrop"
    BY DEF EndDrop, At, TypeOK
<1>2. "endUser" \in RequestPc /\ generated' = generated /\ req[r].tok \in Token
    BY <1>1 DEF RequestPc, EndDrop, LocalsOK, TypeOK
<1>3. LocalsOK([req[r] EXCEPT !.pc = "endUser"], generated)
    BY <1>1, <1>2, AtPc DEF LocalsOK
<1>4. req' \in [Request -> RequestState] /\ \A q \in Request : LocalsOK(req'[q], generated')
    BY <1>2, <1>3, GotoTypeOK DEF EndDrop
<1>5. /\ token' \in [Token -> RefreshToken \cup {NoToken}]
      /\ used' \in SUBSET generated
      /\ disturbed' \in SUBSET Family
      /\ \A x \in Token : Live(x)' => x \in generated
    BY <1>2, DropTokenTypeOK DEF EndDrop
<1> QED BY <1>2, <1>4, <1>5 DEF EndDrop, TypeOK

LEMMA EndUnindexUserTypeOK ==
    ASSUME TypeOK, NEW r \in Request, EndUnindexUser(r)
    PROVE  TypeOK'
<1>1. req[r] \in RequestState /\ LocalsOK(req[r], generated) /\ req[r].pc = "endUser"
    BY DEF EndUnindexUser, At, TypeOK
<1>2. "endFamily" \in RequestPc
    BY DEF RequestPc
<1>3. LocalsOK([req[r] EXCEPT !.pc = "endFamily"], generated)
    BY <1>1, <1>2, AtPc DEF LocalsOK
<1>4. req' \in [Request -> RequestState] /\ \A q \in Request : LocalsOK(req'[q], generated')
    BY <1>2, <1>3, GotoTypeOK DEF EndUnindexUser, history
<1>5. userTokens' \in [User -> SUBSET generated]
    BY DEF EndUnindexUser, TypeOK
<1> QED BY <1>4, <1>5 DEF EndUnindexUser, TypeOK, Live, history

LEMMA EndUnindexFamilyTypeOK ==
    ASSUME TypeOK, NEW r \in Request, EndUnindexFamily(r)
    PROVE  TypeOK'
<1> DEFINE T == req[r].todo \ {req[r].tok}
           n == [req[r] EXCEPT !.pc = "end", !.todo = T]
<1>1. req[r] \in RequestState /\ LocalsOK(req[r], generated) /\ req[r].pc = "endFamily"
    BY DEF EndUnindexFamily, At, TypeOK
<1>2. generated' = generated /\ "end" \in RequestPc
    BY DEF EndUnindexFamily, history, RequestPc
<1>3. req' \in [Request -> RequestState] /\ \A q \in Request : LocalsOK(req'[q], generated')
    <2>1. CASE req[r].todo = {req[r].tok}
        BY <1>2, <2>1, ReturnTypeOK DEF EndUnindexFamily
    <2>2. CASE req[r].todo # {req[r].tok}
        <3>1. T # {} /\ T \in SUBSET Token /\ T \in SUBSET generated
            BY <1>1, <2>2 DEF LocalsOK, RequestState
        <3>2. req' = [req EXCEPT ![r] = n]
            BY <2>2 DEF EndUnindexFamily, TypeOK
        <3> HIDE DEF T
        <3>3. n \in RequestState /\ n.pc = "end" /\ n.todo = T
            BY <1>1, <1>2, <3>1 DEF RequestState
        <3> HIDE DEF n
        <3>4. LocalsOK(n, generated)
            BY <3>1, <3>3 DEF LocalsOK
        <3> QED BY <1>2, <3>2, <3>3, <3>4, SetRequest
    <2> QED BY <2>1, <2>2
<1>4. familyTokens' \in [Family -> SUBSET generated]
    BY DEF EndUnindexFamily, TypeOK
<1> QED BY <1>3, <1>4 DEF EndUnindexFamily, TypeOK, Live, history

-----------------------------------------------------------------------------
(* Faults, expiry, and the theorem.                                        *)
LEMMA FailTypeOK ==
    ASSUME TypeOK, NEW r \in Request, Fail(r)
    PROVE  TypeOK'
<1>1. req' \in [Request -> RequestState] /\ \A q \in Request : LocalsOK(req'[q], generated')
    BY ReturnTypeOK DEF Fail, history
<1> QED BY <1>1 DEF Fail, TypeOK, Live, redis, history

LEMMA ExpireTypeOK ==
    ASSUME TypeOK, NEW t \in Token, Expire(t) \/ ExpireMark(t)
    PROVE  TypeOK'
<1>1. CASE Expire(t)
    <2>1. token[t].family \in Family
        BY <1>1 DEF Expire, TypeOK, Live, RefreshToken
    <2>2. token' \in [Token -> RefreshToken \cup {NoToken}] /\ disturbed' \in SUBSET Family
        BY <1>1, <2>1 DEF Expire, TypeOK
    <2> QED BY <1>1, <2>2 DEF Expire, TypeOK, Live
<1>2. CASE ExpireMark(t)
    <2>1. used' \in SUBSET generated
        BY <1>2 DEF ExpireMark, TypeOK
    <2> QED BY <1>2, <2>1 DEF ExpireMark, TypeOK, Live, history
<1> QED BY <1>1, <1>2

LEMMA NextTypeOK == TypeOK /\ [Next]_vars => TypeOK'
<1> SUFFICES ASSUME TypeOK, [Next]_vars PROVE TypeOK'
    OBVIOUS
<1>1. ASSUME NEW r \in Request, Start(r) PROVE TypeOK'
    BY <1>1, LoginTypeOK, GetTokenByHashTypeOK, LogoutTypeOK, LogoutAllTypeOK,
       VerifyPasswordTypeOK, DeactivateTypeOK, RevokeSessionsTypeOK DEF Start
<1>2. ASSUME NEW r \in Request, Continue(r) PROVE TypeOK'
    BY <1>2, CreateTokenTypeOK, IndexUserTypeOK, IndexFamilyTypeOK, ReadTTLTypeOK,
       MarkTokenUsedTypeOK, LoadUserTypeOK, ListFamilyTypeOK, ReadMembersTypeOK,
       DropMemberTypeOK, UnindexMembersTypeOK, DropFamilyTypeOK, SetPasswordTypeOK,
       ListUserTypeOK, WipeTokenTypeOK, DropUserIndexTypeOK, EndNextTypeOK, EndDropTypeOK,
       EndUnindexUserTypeOK, EndUnindexFamilyTypeOK DEF Continue
<1>3. ASSUME NEW r \in Request, Fail(r) PROVE TypeOK'
    BY <1>3, FailTypeOK
<1>4. ASSUME NEW t \in Token, Expire(t) \/ ExpireMark(t) PROVE TypeOK'
    BY <1>4, ExpireTypeOK
<1>5. CASE UNCHANGED vars
    BY <1>5 DEF vars, redis, history, TypeOK, Live
<1> QED BY <1>1, <1>2, <1>3, <1>4, <1>5 DEF Next

(* The stores and the requests stay well typed: no index and no mark names *)
(* a hash that was never stored, whatever the interleaving of the Redis    *)
(* commands and wherever a pipeline breaks off.                            *)
THEOREM TypeCorrect == Spec => []TypeOK
BY InitTypeOK, NextTypeOK, PTL DEF Spec

-----------------------------------------------------------------------------
(* One exchange per stored token.  A mark only goes when its token has     *)
(* gone, and a hash is stored once, so an exchange leaves a mark for as    *)
(* long as the token stands.                                               *)

FreshUnexchanged == \A t \in Token : t \notin generated => wins[t] = 0

ExchangeInv == TypeOK /\ ConsumedIsMarked /\ FreshUnexchanged

(* A step that stores no token, exchanges none and unmarks only what has   *)
(* gone.                                                                   *)
LEMMA ExchangeKept ==
    ASSUME ExchangeInv, wins' = wins, generated' = generated,
           \A t \in Token : Live(t)' => Live(t) /\ (t \in used => t \in used')
    PROVE  ConsumedIsMarked' /\ FreshUnexchanged'
BY DEF ExchangeInv, ConsumedIsMarked, FreshUnexchanged

LEMMA DropKeepsExchange ==
    ASSUME ExchangeInv, NEW t \in Token, DropToken(t), wins' = wins, generated' = generated
    PROVE  ConsumedIsMarked' /\ FreshUnexchanged'
<1>1. \A x \in Token : Live(x)' => Live(x) /\ x # t
    BY DEF DropToken, Live, ExchangeInv, TypeOK
<1> QED BY <1>1, ExchangeKept DEF DropToken

LEMMA CreateTokenKeepsExchange ==
    ASSUME ExchangeInv, NEW r \in Request, NEW t \in Token, CreateToken(r, t)
    PROVE  ConsumedIsMarked' /\ FreshUnexchanged'
<1>1. wins[t] = 0 /\ wins' = wins /\ used' = used
    BY DEF CreateToken, ExchangeInv, FreshUnexchanged
<1>2. \A x \in Token : x # t /\ Live(x)' => Live(x)
    BY DEF CreateToken, Live, ExchangeInv, TypeOK
<1>3. ConsumedIsMarked'
    BY <1>1, <1>2 DEF ExchangeInv, ConsumedIsMarked
<1> QED BY <1>1, <1>3 DEF CreateToken, ExchangeInv, FreshUnexchanged

LEMMA MarkTokenUsedKeepsExchange ==
    ASSUME ExchangeInv, NEW r \in Request, MarkTokenUsed(r)
    PROVE  ConsumedIsMarked' /\ FreshUnexchanged'
<1> DEFINE t == req[r].tok
<1>1. t \in generated /\ t \in Token /\ token' = token /\ generated' = generated
    BY DEF MarkTokenUsed, At, ExchangeInv, TypeOK, LocalsOK
<1>2. CASE t \in used
    <2>1. wins' = wins /\ used' = used
        BY <1>2 DEF MarkTokenUsed
    <2> QED BY <1>1, <2>1, ExchangeKept DEF Live
<1>3. CASE t \notin used
    <2>1. used' = used \cup {t} /\ wins' = [wins EXCEPT ![t] = @ + 1]
        BY <1>3 DEF MarkTokenUsed
    <2>2. wins[t] \in Nat /\ (Live(t) => wins[t] = 0)
        BY <1>1, <1>3 DEF ExchangeInv, TypeOK, ConsumedIsMarked
    <2> HIDE DEF t
    <2>3. wins'[t] = wins[t] + 1 /\ \A x \in Token : x # t => wins'[x] = wins[x]
        BY <1>1, <2>1 DEF ExchangeInv, TypeOK
    <2>4. ConsumedIsMarked'
        BY <1>1, <2>1, <2>2, <2>3 DEF ExchangeInv, ConsumedIsMarked, Live
    <2>5. FreshUnexchanged'
        BY <1>1, <2>3 DEF ExchangeInv, FreshUnexchanged
    <2> QED BY <2>4, <2>5
<1> QED BY <1>2, <1>3

LEMMA ExpireKeepsExchange ==
    ASSUME ExchangeInv, NEW t \in Token, Expire(t) \/ ExpireMark(t)
    PROVE  ConsumedIsMarked' /\ FreshUnexchanged'
<1>1. \A x \in Token : Live(x)' => Live(x) /\ (x \in used => x \in used')
    BY DEF Expire, ExpireMark, Live, ExchangeInv, TypeOK
<1>2. wins' = wins /\ generated' = generated
    BY DEF Expire, ExpireMark, history
<1> QED BY <1>1, <1>2, ExchangeKept

(* The steps that take token and mark away.                                *)
Dropping(r) == DropMember(r) \/ WipeToken(r) \/ EndDrop(r)

LEMMA DroppingKeepsExchange ==
    ASSUME ExchangeInv, NEW r \in Request, Dropping(r)
    PROVE  ConsumedIsMarked' /\ FreshUnexchanged'
<1>1. wins' = wins /\ generated' = generated
    BY DEF Dropping, DropMember, WipeToken, EndDrop
<1>2. req[r] \in RequestState /\ LocalsOK(req[r], generated)
    BY DEF ExchangeInv, TypeOK
<1>3. CASE DropMember(r) \/ WipeToken(r)
    <2>1. PICK t \in req[r].todo : DropToken(t)
        BY <1>3 DEF DropMember, WipeToken
    <2> QED BY <1>1, <1>2, <2>1, DropKeepsExchange DEF RequestState
<1>4. CASE EndDrop(r)
    <2>1. req[r].tok \in Token /\ DropToken(req[r].tok)
        BY <1>2, <1>4 DEF EndDrop, At, LocalsOK, ExchangeInv, TypeOK
    <2> QED BY <1>1, <2>1, DropKeepsExchange
<1> QED BY <1>3, <1>4 DEF Dropping

(* Every other step of a request leaves the tokens and the marks alone.    *)
LEMMA OthersKeepTokens ==
    ASSUME NEW r \in Request, Start(r) \/ Continue(r) \/ Fail(r),
           ~MarkTokenUsed(r), ~Dropping(r), \A t \in Token : ~CreateToken(r, t)
    PROVE  UNCHANGED <<token, used, wins, generated, disturbed>>
<1>1. CASE Start(r)
    BY <1>1 DEF Start, Login, GetTokenByHash, Logout, LogoutAll, VerifyPassword, Deactivate,
       RevokeSessions, redis, history
<1>2. CASE Continue(r)
    BY <1>2 DEF Continue, Dropping, IndexUser, IndexFamily, ReadTTL, LoadUser, ListFamily,
       ReadMembers, UnindexMembers, DropFamily, SetPassword, ListUser, DropUserIndex,
       EndNext, EndUnindexUser, EndUnindexFamily, redis, history
<1>3. CASE Fail(r)
    BY <1>3 DEF Fail, redis, history
<1> QED BY <1>1, <1>2, <1>3

LEMMA NextExchangeInv == ExchangeInv /\ [Next]_vars => ExchangeInv'
<1> SUFFICES ASSUME ExchangeInv, [Next]_vars PROVE ConsumedIsMarked' /\ FreshUnexchanged'
    BY NextTypeOK DEF ExchangeInv
<1>1. ASSUME NEW r \in Request, Start(r) \/ Continue(r) \/ Fail(r)
      PROVE  ConsumedIsMarked' /\ FreshUnexchanged'
    <2>1. CASE \E t \in Token : CreateToken(r, t)
        BY <2>1, CreateTokenKeepsExchange
    <2>2. CASE MarkTokenUsed(r)
        BY <2>2, MarkTokenUsedKeepsExchange
    <2>3. CASE Dropping(r)
        BY <2>3, DroppingKeepsExchange
    <2>4. CASE UNCHANGED <<token, used, wins, generated, disturbed>>
        BY <2>4, ExchangeKept DEF Live
    <2> QED BY <1>1, <2>1, <2>2, <2>3, <2>4, OthersKeepTokens
<1>2. ASSUME NEW t \in Token, Expire(t) \/ ExpireMark(t)
      PROVE  ConsumedIsMarked' /\ FreshUnexchanged'
    BY <1>2, ExpireKeepsExchange
<1>3. CASE UNCHANGED vars
    BY <1>3, ExchangeKept DEF vars, redis, history, Live
<1> QED BY <1>1, <1>2, <1>3 DEF Next

(* A token that is stored was exchanged at most once, and the exchange     *)
(* left its mark: a replay of it is detected, however the refreshes,       *)
(* logouts and revocations interleave.                                     *)
THEOREM OneExchange == Spec => []ConsumedIsMarked
<1>1. Init => ExchangeInv
    BY InitTypeOK DEF Init, ExchangeInv, ConsumedIsMarked, FreshUnexchanged
<1>2. ExchangeInv => ConsumedIsMarked
    BY DEF ExchangeInv
<1> QED BY <1>1, <1>2, NextExchangeInv, PTL DEF Spec

-----------------------------------------------------------------------------
(* The chain.  A family that lost no key has one head: a stored token not  *)
(* yet exchanged, or a refresh or login about to store the heir.  It needs *)
(* to know that a family is opened before anything bears its name, and     *)
(* that a refresh about to mark its token still has it, or the family lost *)
(* a key.                                                                  *)

HeadToken(t, f) == token[t].family = f /\ t \notin used
HeadRequest(r, f) == req[r].family = f /\ req[r].pc \in {"load", "issue"}

OneHead(f) ==
    /\ \A t, x \in Token : HeadToken(t, f) /\ HeadToken(x, f) => t = x
    /\ \A r, q \in Request : HeadRequest(r, f) /\ HeadRequest(q, f) => r = q
    /\ \A t \in Token, r \in Request : ~(HeadToken(t, f) /\ HeadRequest(r, f))

Presents(r) ==
    req[r].pc \in {"ttl", "mark"} =>
        \/ req[r].family \in disturbed
        \/ Live(req[r].tok) /\ token[req[r].tok].family = req[r].family

ChainInv ==
    /\ \A t \in Token : Live(t) => Opened(token[t].family)
    /\ \A r \in Request : req[r].family \in Family => Opened(req[r].family)
    /\ \A r \in Request : Presents(r)
    /\ \A f \in Family \ disturbed : OneHead(f)

LEMMA NoFamily == NoToken.family = None
BY DEF NoToken

(* A token that is gone, or never was, bears no family. *)
LEMMA FamilyOfLive ==
    ASSUME TypeOK, NEW t \in Token
    PROVE  /\ Live(t) <=> token[t].family \in Family
           /\ Live(t) => token[t] \in RefreshToken
BY NoneAssumption, NoFamily DEF TypeOK, Live, NoToken, RefreshToken

(* No family is closed again, none forgets that it lost a key, no token is *)
(* stored; one that goes disturbs its family, and one that stays keeps its *)
(* mark.  A request becomes no head that was none.                         *)
StoresSettle ==
    /\ \A f \in Family : Opened(f) => Opened(f)'
    /\ disturbed \subseteq disturbed'
    /\ \A t \in Token : Live(t)' => token'[t] = token[t] /\ (t \notin used' => t \notin used)
    /\ \A t \in Token : Live(t) /\ ~Live(t)' => token[t].family \in disturbed'

Settles(r) ==
    /\ req'[r].family \in Family => Opened(req'[r].family)
    /\ req'[r].pc \in {"ttl", "mark"} => Presents(r)'
    /\ req'[r].pc \in {"load", "issue"} =>
           req[r].pc \in {"load", "issue"} /\ req'[r].family = req[r].family

LEMMA ChainKept ==
    ASSUME TypeOK, TypeOK', ChainInv, StoresSettle,
           \A r \in Request : req'[r] = req[r] \/ Settles(r)
    PROVE  ChainInv'
<1>1. \A t \in Token : Live(t)' => Opened(token[t].family)'
    <2> SUFFICES ASSUME NEW t \in Token, Live(t)' PROVE Opened(token[t].family)'
        OBVIOUS
    <2>1. token'[t] = token[t] /\ Live(t)
        BY DEF StoresSettle, Live
    <2>2. Opened(token[t].family) /\ token[t].family \in Family
        BY <2>1, FamilyOfLive DEF ChainInv
    <2>3. ASSUME NEW f \in Family, Opened(f), f = token'[t].family
          PROVE  Opened(token[t].family)'
        BY <2>3 DEF StoresSettle, Opened
    <2> QED BY <2>1, <2>2, <2>3
<1>2. ASSUME NEW r \in Request, req'[r].family \in Family
      PROVE  Opened(req[r].family)'
    <2>1. Opened(req'[r].family)
        BY <1>2 DEF ChainInv, Settles
    <2>2. ASSUME NEW f \in Family, Opened(f), f = req'[r].family
          PROVE  Opened(req[r].family)'
        BY <2>2 DEF StoresSettle, Opened
    <2> QED BY <1>2, <2>1, <2>2
<1>3. ASSUME NEW r \in Request
      PROVE  Presents(r)'
    <2>1. CASE Settles(r)
        BY <2>1 DEF Settles, Presents
    <2>2. CASE req'[r] = req[r] /\ req[r].pc \in {"ttl", "mark"}
        <3>1. Presents(r) /\ req[r].tok \in Token
            BY <2>2 DEF ChainInv, TypeOK, LocalsOK
        <3>2. CASE req[r].family \in disturbed
            BY <2>2, <3>2 DEF Presents, StoresSettle
        <3>3. CASE Live(req[r].tok) /\ token[req[r].tok].family = req[r].family
            BY <2>2, <3>1, <3>3 DEF Presents, StoresSettle, Live
        <3> QED BY <2>2, <3>1, <3>2, <3>3 DEF Presents
    <2>3. CASE req'[r] = req[r] /\ req[r].pc \notin {"ttl", "mark"}
        BY <2>3 DEF Presents
    <2> QED BY <2>1, <2>2, <2>3
<1>4. ASSUME NEW f \in Family \ disturbed'
      PROVE  OneHead(f)'
    <2>1. f \in Family \ disturbed /\ OneHead(f)
        BY DEF StoresSettle, ChainInv
    <2>2. \A t \in Token : HeadToken(t, f)' => HeadToken(t, f)
        <3> SUFFICES ASSUME NEW t \in Token, HeadToken(t, f)' PROVE HeadToken(t, f)
            OBVIOUS
        <3>1. Live(t)'
            BY NoFamily, NoneAssumption DEF HeadToken, Live
        <3> QED BY <3>1 DEF HeadToken, StoresSettle
    <2>3. \A r \in Request : HeadRequest(r, f)' => HeadRequest(r, f)
        BY DEF HeadRequest, Settles
    <2> QED BY <2>1, <2>2, <2>3 DEF OneHead
<1> QED BY <1>1, <1>2, <1>3, <1>4 DEF ChainInv

(* What a request is after each kind of step.                              *)
LEMMA NewState ==
    ASSUME TypeOK, NEW r \in Request, NEW n, req' = [req EXCEPT ![r] = n]
    PROVE  req'[r] = n /\ \A q \in Request : q # r => req'[q] = req[q]
BY DEF TypeOK

LEMMA ReturnSettles ==
    ASSUME TypeOK, NEW r \in Request, Return(r)
    PROVE  Settles(r) /\ \A q \in Request : q # r => req'[q] = req[q]
<1>1. req'[r] = IdleRequest /\ \A q \in Request : q # r => req'[q] = req[q]
    BY NewState DEF Return
<1>2. IdleRequest.family = None /\ IdleRequest.pc = "idle"
    BY DEF IdleRequest
<1> QED BY <1>1, <1>2, NoneAssumption DEF Settles

LEMMA QuietSettles ==
    ASSUME TypeOK, ChainInv, NEW r \in Request, NEW n, req' = [req EXCEPT ![r] = n],
           n.family = req[r].family \/ n.family = None,
           n.pc \notin {"ttl", "mark", "load", "issue"}
    PROVE  Settles(r) /\ \A q \in Request : q # r => req'[q] = req[q]
<1>1. req'[r] = n /\ \A q \in Request : q # r => req'[q] = req[q]
    BY NewState
<1> QED BY <1>1, NoneAssumption DEF Settles, ChainInv

LEMMA GotoSettles ==
    ASSUME TypeOK, ChainInv, NEW r \in Request,
           NEW p \in RequestPc \ {"ttl", "mark", "load", "issue"}, Goto(r, p)
    PROVE  Settles(r) /\ \A q \in Request : q # r => req'[q] = req[q]
<1> DEFINE n == [req[r] EXCEPT !.pc = p]
<1>1. req[r] \in RequestState /\ req' = [req EXCEPT ![r] = n]
    BY DEF Goto, TypeOK
<1>2. n.family = req[r].family /\ n.pc = p
    BY <1>1, AtPc
<1> HIDE DEF n
<1> QED BY <1>1, <1>2, QuietSettles

(* A step of one request that leaves the tokens and the sessions alone.    *)
LEMMA ChainQuiet ==
    ASSUME TypeOK, TypeOK', ChainInv, UNCHANGED <<token, used, disturbed, session>>,
           NEW r \in Request, Settles(r), \A q \in Request : q # r => req'[q] = req[q]
    PROVE  ChainInv'
<1>1. StoresSettle
    BY DEF StoresSettle, Opened, Live
<1> QED BY <1>1, ChainKept

LEMMA StartKeepsChain ==
    ASSUME TypeOK, TypeOK', ChainInv, NEW r \in Request, Start(r),
           \A u \in User, f \in Family : ~Login(r, u, f)
    PROVE  ChainInv'
<1>0. UNCHANGED <<token, used, disturbed, session>>
    BY DEF Start, GetTokenByHash, Logout, LogoutAll, VerifyPassword, Deactivate,
       RevokeSessions, redis, history
<1>1. CASE \E t \in Token : GetTokenByHash(r, t)
    <2>1. PICK t \in Token : GetTokenByHash(r, t)
        BY <1>1
    <2> DEFINE n == [IdleRequest EXCEPT
                       !.pc = "ttl", !.tok = t, !.user = token[t].user, !.family = token[t].family]
    <2>2. n.pc = "ttl" /\ n.tok = t /\ n.family = token[t].family
        BY DEF IdleRequest
    <2>3. req' = [req EXCEPT ![r] = n] /\ Live(t)
        BY <2>1 DEF GetTokenByHash
    <2> HIDE DEF n
    <2>4. req'[r] = n /\ \A q \in Request : q # r => req'[q] = req[q]
        BY <2>3, NewState
    <2>5. Settles(r)
        BY <1>0, <2>2, <2>3, <2>4 DEF Settles, Presents, ChainInv, Live
    <2> QED BY <1>0, <2>4, <2>5, ChainQuiet
<1>2. ASSUME NEW p \in {"list", "setPassword", "end"}, NEW n, n.pc = p, n.family = None,
             req' = [req EXCEPT ![r] = n]
      PROVE  ChainInv'
    BY <1>0, <1>2, QuietSettles, ChainQuiet
<1>3. CASE \E t \in Token : Logout(r, t)
    <2>1. PICK t \in Token : Logout(r, t)
        BY <1>3
    <2> DEFINE n == [IdleRequest EXCEPT !.pc = "end", !.todo = {t}]
    <2>2. n.pc = "end" /\ n.family = None
        BY DEF IdleRequest
    <2>3. req' = [req EXCEPT ![r] = n]
        BY <2>1 DEF Logout
    <2> HIDE DEF n
    <2> QED BY <1>2, <2>2, <2>3
<1>4. CASE \E u \in User : LogoutAll(r, u)
    <2>1. PICK u \in User : LogoutAll(r, u)
        BY <1>4
    <2> DEFINE n == [IdleRequest EXCEPT !.pc = "list", !.user = u,
                   !.doomed = {token[t].family : t \in {x \in delivered : token[x].user = u}}]
    <2>2. n.pc = "list" /\ n.family = None
        BY DEF IdleRequest
    <2>3. req' = [req EXCEPT ![r] = n]
        BY <2>1 DEF LogoutAll
    <2> HIDE DEF n
    <2> QED BY <1>2, <2>2, <2>3
<1>5. CASE \E u \in User : VerifyPassword(r, u)
    <2>1. PICK u \in User : VerifyPassword(r, u)
        BY <1>5
    <2> DEFINE n == [IdleRequest EXCEPT !.pc = "setPassword", !.user = u]
    <2>2. n.pc = "setPassword" /\ n.family = None
        BY DEF IdleRequest
    <2>3. req' = [req EXCEPT ![r] = n]
        BY <2>1 DEF VerifyPassword
    <2> HIDE DEF n
    <2> QED BY <1>2, <2>2, <2>3
<1>6. CASE \E u \in User : Deactivate(r, u)
    <2>1. PICK u \in User : Deactivate(r, u)
        BY <1>6
    <2> DEFINE n == [IdleRequest EXCEPT !.pc = "list", !.user = u, !.doomed = FamiliesOf(u)]
    <2>2. n.pc = "list" /\ n.family = None
        BY DEF IdleRequest
    <2>3. req' = [req EXCEPT ![r] = n]
        BY <2>1 DEF Deactivate
    <2> HIDE DEF n
    <2> QED BY <1>2, <2>2, <2>3
<1>7. CASE \E u \in User : RevokeSessions(r, u)
    <2>1. PICK chosen :
                req' = [req EXCEPT ![r] = [IdleRequest EXCEPT !.pc = "end", !.todo = chosen]]
        BY <1>7 DEF RevokeSessions
    <2> DEFINE n == [IdleRequest EXCEPT !.pc = "end", !.todo = chosen]
    <2>2. n.pc = "end" /\ n.family = None
        BY DEF IdleRequest
    <2>3. req' = [req EXCEPT ![r] = n]
        BY <2>1
    <2> HIDE DEF n
    <2> QED BY <1>2, <2>2, <2>3
<1> QED BY <1>1, <1>3, <1>4, <1>5, <1>6, <1>7 DEF Start

(* A login opens a family nothing bears yet, and is its only head. *)
LEMMA LoginKeepsChain ==
    ASSUME TypeOK, ChainInv, NEW r \in Request, NEW u \in User, NEW f \in Family, Login(r, u, f)
    PROVE  ChainInv'
<1> DEFINE n == [IdleRequest EXCEPT !.pc = "issue", !.user = u, !.family = f]
<1>1. n.pc = "issue" /\ n.family = f
    BY DEF IdleRequest
<1>2. /\ ~Opened(f) /\ req' = [req EXCEPT ![r] = n]
      /\ session' = [session EXCEPT ![f] = [user |-> u, password |-> account[u].password]]
      /\ UNCHANGED <<token, used, disturbed>>
    BY DEF Login, redis, history
<1> HIDE DEF n
<1>3. req'[r] = n /\ \A q \in Request : q # r => req'[q] = req[q]
    BY <1>2, NewState
<1>4. \A g \in Family : Opened(g)' <=> Opened(g) \/ g = f
    <2>1. \A p : [user |-> u, password |-> p] # NoSession
        BY NoneAssumption DEF NoSession
    <2> QED BY <1>2, <2>1 DEF Opened, TypeOK
<1>5. \A t \in Token : token[t].family # f
    BY <1>2, FamilyOfLive DEF ChainInv
<1>6. \A q \in Request : q # r => req[q].family # f
    BY <1>2 DEF ChainInv
<1>7. \A t \in Token : Live(t)' => Opened(token[t].family)'
    <2> SUFFICES ASSUME NEW t \in Token, Live(t) PROVE Opened(token[t].family)'
        BY <1>2 DEF Live
    <2>1. token[t].family \in Family /\ Opened(token[t].family)
        BY FamilyOfLive DEF ChainInv
    <2>2. ASSUME NEW g \in Family, Opened(g), g = token'[t].family
          PROVE  Opened(token[t].family)'
        BY <1>4, <2>2 DEF Opened
    <2> QED BY <1>2, <2>1, <2>2
<1>8. \A q \in Request : req'[q].family \in Family => Opened(req[q].family)'
    <2> SUFFICES ASSUME NEW q \in Request, NEW g \in Family, g = req'[q].family
                 PROVE  Opened(req[q].family)'
        OBVIOUS
    <2>1. Opened(g) \/ g = f
        BY <1>1, <1>3 DEF ChainInv
    <2> QED BY <1>4, <2>1 DEF Opened
<1>9. \A q \in Request : Presents(q)'
    BY <1>1, <1>2, <1>3 DEF ChainInv, Presents, Live
<1>10. ASSUME NEW g \in Family \ disturbed' PROVE OneHead(g)'
    <2>1. CASE g = f
        BY <1>1, <1>2, <1>3, <1>5, <1>6, <2>1 DEF OneHead, HeadToken, HeadRequest
    <2>2. CASE g # f
        BY <1>1, <1>2, <1>3, <2>2 DEF ChainInv, OneHead, HeadToken, HeadRequest
    <2> QED BY <2>1, <2>2
<1> QED BY <1>7, <1>8, <1>9, <1>10 DEF ChainInv

(* The request that stores the heir hands it its place. *)
LEMMA CreateTokenKeepsChain ==
    ASSUME TypeOK, ChainInv, NEW r \in Request, NEW t \in Token, CreateToken(r, t)
    PROVE  ChainInv'
<1> DEFINE n == [req[r] EXCEPT !.pc = "indexUser", !.tok = t]
           f == req[r].family
           row == [user |-> req[r].user, family |-> f]
<1>1. /\ req[r] \in RequestState /\ req[r].pc = "issue" /\ f \in Family /\ t \notin used /\ ~Live(t)
      /\ token' = [token EXCEPT ![t] = row]
      /\ UNCHANGED <<used, disturbed, session>>
    BY DEF CreateToken, At, TypeOK, LocalsOK
<1>2. req' = [req EXCEPT ![r] = n] /\ n.pc = "indexUser" /\ n.family = f
    BY <1>1 DEF CreateToken, TypeOK, RequestState
<1> HIDE DEF n
<1>3. req'[r] = n /\ \A q \in Request : q # r => req'[q] = req[q]
    BY <1>2, NewState
<1>4. token'[t].family = f /\ \A x \in Token : x # t => token'[x] = token[x]
    BY <1>1 DEF TypeOK
<1>5. \A x \in Token : Live(x)' => Opened(token[x].family)'
    <2> SUFFICES ASSUME NEW x \in Token, Live(x)' PROVE Opened(token[x].family)'
        OBVIOUS
    <2>1. CASE x = t
        BY <1>1, <1>4, <2>1 DEF ChainInv, Opened
    <2>2. CASE x # t
        BY <1>1, <1>4, <2>2 DEF ChainInv, Opened, Live
    <2> QED BY <2>1, <2>2
<1>6. \A q \in Request : req'[q].family \in Family => Opened(req[q].family)'
    <2> SUFFICES ASSUME NEW q \in Request, req'[q].family \in Family PROVE Opened(req[q].family)'
        OBVIOUS
    <2>1. req'[q].family = req[q].family
        BY <1>2, <1>3
    <2> QED BY <1>1, <2>1 DEF ChainInv, Opened
<1>7. \A q \in Request : Presents(q)'
    <2> SUFFICES ASSUME NEW q \in Request, req'[q].pc \in {"ttl", "mark"} PROVE Presents(q)'
        BY DEF Presents
    <2>1. q # r /\ req'[q] = req[q]
        BY <1>2, <1>3
    <2>2. Presents(q) /\ req[q].tok \in Token
        BY <2>1 DEF ChainInv, TypeOK, LocalsOK
    <2>3. Live(req[q].tok) => req[q].tok # t
        BY <1>1
    <2> QED BY <1>1, <1>4, <2>1, <2>2, <2>3 DEF Presents, Live
<1>8. ASSUME NEW g \in Family \ disturbed' PROVE OneHead(g)'
    <2>0. OneHead(g)
        BY <1>1 DEF ChainInv
    <2>1. CASE g = f
        <3>1. HeadRequest(r, g)
            BY <1>1, <2>1 DEF HeadRequest
        <3>2. \A x \in Token : HeadToken(x, g)' => x = t
            BY <1>1, <1>4, <2>0, <3>1 DEF OneHead, HeadToken
        <3>3. \A q \in Request : ~HeadRequest(q, g)'
            BY <1>2, <1>3, <2>0, <3>1 DEF OneHead, HeadRequest
        <3> QED BY <3>2, <3>3 DEF OneHead
    <2>2. CASE g # f
        <3>1. \A x \in Token : HeadToken(x, g)' => HeadToken(x, g)
            BY <1>1, <1>4, <2>2 DEF HeadToken
        <3>2. \A q \in Request : HeadRequest(q, g)' => HeadRequest(q, g)
            BY <1>2, <1>3 DEF HeadRequest
        <3> QED BY <2>0, <3>1, <3>2 DEF OneHead
    <2> QED BY <2>1, <2>2
<1> QED BY <1>5, <1>6, <1>7, <1>8 DEF ChainInv

(* The request that marks a token takes its place, or the family has lost  *)
(* a key; one that finds the mark takes none.                              *)
LEMMA MarkTokenUsedKeepsChain ==
    ASSUME TypeOK, TypeOK', ChainInv, NEW r \in Request, MarkTokenUsed(r)
    PROVE  ChainInv'
<1> DEFINE t == req[r].tok
           f == req[r].family
<1>1. /\ req[r] \in RequestState /\ req[r].pc = "mark" /\ t \in Token /\ f \in Family
      /\ UNCHANGED <<token, disturbed, session>>
    BY DEF MarkTokenUsed, At, TypeOK, LocalsOK
<1>2. CASE t \in used
    <2>1. Goto(r, "reuse") /\ UNCHANGED <<token, used, disturbed, session>>
        BY <1>2 DEF MarkTokenUsed
    <2> QED BY <2>1, GotoSettles, ChainQuiet DEF RequestPc
<1>3. CASE t \notin used
    <2>1. used' = used \cup {t} /\ Goto(r, "load")
        BY <1>3 DEF MarkTokenUsed
    <2> DEFINE n == [req[r] EXCEPT !.pc = "load"]
    <2>2. n.pc = "load" /\ n.family = f /\ req' = [req EXCEPT ![r] = n]
        BY <1>1, <2>1 DEF Goto, TypeOK, RequestState
    <2> HIDE DEF n
    <2>3. req'[r] = n /\ \A q \in Request : q # r => req'[q] = req[q]
        BY <2>2, NewState
    <2>4. \A x \in Token : Live(x)' => Opened(token[x].family)'
        BY <1>1 DEF ChainInv, Opened, Live
    <2>5. \A q \in Request : req'[q].family \in Family => Opened(req[q].family)'
        <3> SUFFICES ASSUME NEW q \in Request, req'[q].family \in Family PROVE Opened(req[q].family)'
            OBVIOUS
        <3>1. req'[q].family = req[q].family
            BY <2>2, <2>3
        <3> QED BY <1>1, <3>1 DEF ChainInv, Opened
    <2>6. \A q \in Request : Presents(q)'
        BY <1>1, <2>2, <2>3 DEF ChainInv, Presents, Live
    <2>7. ASSUME NEW g \in Family \ disturbed' PROVE OneHead(g)'
        <3>0. OneHead(g)
            BY <1>1 DEF ChainInv
        <3>1. \A x \in Token : HeadToken(x, g)' => HeadToken(x, g) /\ x # t
            BY <1>1, <2>1 DEF HeadToken
        <3>2. CASE g = f
            <4>1. Live(t) /\ token[t].family = g
                BY <1>1, <3>2 DEF ChainInv, Presents
            <4>2. HeadToken(t, g)
                BY <1>3, <4>1 DEF HeadToken
            <4>3. \A x \in Token : ~HeadToken(x, g)'
                BY <1>1, <3>0, <3>1, <4>2 DEF OneHead
            <4>4. \A q \in Request : HeadRequest(q, g)' => q = r
                BY <1>1, <2>3, <3>0, <4>2 DEF OneHead, HeadRequest
            <4> QED BY <4>3, <4>4 DEF OneHead
        <3>3. CASE g # f
            <4>1. \A q \in Request : HeadRequest(q, g)' => HeadRequest(q, g)
                BY <2>2, <2>3, <3>3 DEF HeadRequest
            <4> QED BY <3>0, <3>1, <4>1 DEF OneHead
        <3> QED BY <3>2, <3>3
    <2> QED BY <2>4, <2>5, <2>6, <2>7 DEF ChainInv
<1> QED BY <1>2, <1>3

(* The steps of a request that leave tokens, marks and sessions alone. *)
LEMMA ContinueKeepsChain ==
    ASSUME TypeOK, TypeOK', ChainInv, NEW r \in Request, Continue(r) \/ Fail(r),
           ~MarkTokenUsed(r), ~Dropping(r), \A t \in Token : ~CreateToken(r, t)
    PROVE  ChainInv'
<1>0. UNCHANGED <<token, used, disturbed, session>>
    BY DEF Continue, Fail, Dropping, IndexUser, IndexFamily, ReadTTL, LoadUser, ListFamily,
       ReadMembers, UnindexMembers, DropFamily, SetPassword, ListUser, DropUserIndex,
       EndNext, EndUnindexUser, EndUnindexFamily, redis, history
<1>1. CASE Return(r)
    BY <1>0, <1>1, ReturnSettles, ChainQuiet
<1>2. ASSUME NEW p \in RequestPc \ {"ttl", "mark", "load", "issue"}, Goto(r, p)
      PROVE  ChainInv'
    BY <1>0, <1>2, GotoSettles, ChainQuiet
<1>3. ASSUME NEW n, req' = [req EXCEPT ![r] = n],
             n.family = req[r].family \/ n.family = None,
             n.pc \notin {"ttl", "mark", "load", "issue"}
      PROVE  ChainInv'
    BY <1>0, <1>3, QuietSettles, ChainQuiet
<1>4. req[r] \in RequestState
    BY DEF TypeOK
<1>5. CASE IndexUser(r) \/ IndexFamily(r) \/ UnindexMembers(r) \/ DropFamily(r) \/ DropUserIndex(r)
           \/ EndUnindexUser(r) \/ Fail(r)
    BY <1>1, <1>2, <1>5 DEF RequestPc, IndexUser, IndexFamily, UnindexMembers, DropFamily,
       DropUserIndex, EndUnindexUser, Fail
<1>6. CASE ReadTTL(r)
    <2>1. CASE Return(r)
        BY <1>1, <2>1
    <2>2. CASE Goto(r, "mark")
        <3> DEFINE n == [req[r] EXCEPT !.pc = "mark"]
        <3>1. n.pc = "mark" /\ n.tok = req[r].tok /\ n.family = req[r].family
            BY <1>4 DEF RequestState
        <3>2. req' = [req EXCEPT ![r] = n] /\ req[r].pc = "ttl"
            BY <1>4, <1>6, <2>2 DEF Goto, ReadTTL, At, TypeOK
        <3> HIDE DEF n
        <3>3. req'[r] = n /\ \A q \in Request : q # r => req'[q] = req[q]
            BY <3>2, NewState
        <3>4. Settles(r)
            BY <1>0, <3>1, <3>2, <3>3 DEF Settles, ChainInv, Presents, Live
        <3> QED BY <1>0, <3>3, <3>4, ChainQuiet
    <2> QED BY <1>6, <2>1, <2>2 DEF ReadTTL
<1>7. CASE LoadUser(r)
    <2>1. CASE Return(r)
        BY <1>1, <2>1
    <2>2. CASE Goto(r, "issue")
        <3> DEFINE n == [req[r] EXCEPT !.pc = "issue"]
        <3>1. n.pc = "issue" /\ n.family = req[r].family
            BY <1>4 DEF RequestState
        <3>2. req' = [req EXCEPT ![r] = n] /\ req[r].pc = "load"
            BY <1>4, <1>7, <2>2 DEF Goto, LoadUser, At, TypeOK
        <3> HIDE DEF n
        <3>3. req'[r] = n /\ \A q \in Request : q # r => req'[q] = req[q]
            BY <3>2, NewState
        <3>4. Settles(r)
            BY <3>1, <3>2, <3>3 DEF Settles, ChainInv
        <3> QED BY <1>0, <3>3, <3>4, ChainQuiet
    <2> QED BY <1>7, <2>1, <2>2 DEF LoadUser
<1>8. CASE ListFamily(r)
    <2>1. CASE Return(r)
        BY <1>1, <2>1
    <2>2. CASE ~Return(r)
        <3> DEFINE n == [req[r] EXCEPT !.pc = "members", !.todo = familyTokens[req[r].family]]
        <3>1. n.pc = "members" /\ n.family = req[r].family
            BY <1>4 DEF RequestState
        <3>2. req' = [req EXCEPT ![r] = n]
            BY <1>4, <1>8, <2>2 DEF ListFamily, TypeOK
        <3> HIDE DEF n
        <3> QED BY <1>3, <3>1, <3>2
    <2> QED BY <2>1, <2>2
<1>9. CASE ReadMembers(r)
    <2> DEFINE n == [req[r] EXCEPT !.pc = "drop", !.seen = {t \in req[r].todo : Live(t)}]
    <2>1. n.pc = "drop" /\ n.family = req[r].family
        BY <1>4 DEF RequestState
    <2>2. req' = [req EXCEPT ![r] = n]
        BY <1>4, <1>9 DEF ReadMembers, TypeOK
    <2> HIDE DEF n
    <2> QED BY <1>3, <2>1, <2>2
<1>10. CASE SetPassword(r)
    <2> DEFINE n == [req[r] EXCEPT !.pc = "list", !.doomed = FamiliesOf(req[r].user)]
    <2>1. n.pc = "list" /\ n.family = req[r].family
        BY <1>4 DEF RequestState
    <2>2. req' = [req EXCEPT ![r] = n]
        BY <1>4, <1>10 DEF SetPassword, TypeOK
    <2> HIDE DEF n
    <2> QED BY <1>3, <2>1, <2>2
<1>11. CASE ListUser(r)
    <2>1. CASE Return(r)
        BY <1>1, <2>1
    <2>2. CASE ~Return(r)
        <3> DEFINE n == [req[r] EXCEPT !.pc = "wipe", !.todo = userTokens[req[r].user]]
        <3>1. n.pc = "wipe" /\ n.family = req[r].family
            BY <1>4 DEF RequestState
        <3>2. req' = [req EXCEPT ![r] = n]
            BY <1>4, <1>11, <2>2 DEF ListUser, TypeOK
        <3> HIDE DEF n
        <3> QED BY <1>3, <3>1, <3>2
    <2> QED BY <2>1, <2>2
<1>12. CASE EndNext(r)
    <2>1. PICK t \in req[r].todo :
            \/ /\ Live(t)
               /\ req' = [req EXCEPT ![r] = [@ EXCEPT !.pc = "endDrop", !.tok = t,
                            !.user = token[t].user, !.family = token[t].family]]
            \/ /\ ~Live(t)
               /\ IF req[r].todo = {t} THEN Return(r)
                                       ELSE req' = [req EXCEPT ![r].todo = @ \ {t}]
        BY <1>12 DEF EndNext
    <2>2. CASE Return(r)
        BY <1>1, <2>2
    <2>3. CASE Live(t) /\ ~Return(r)
        <3> DEFINE n == [req[r] EXCEPT !.pc = "endDrop", !.tok = t,
                           !.user = token[t].user, !.family = token[t].family]
        <3>1. n.pc = "endDrop" /\ n.family = token[t].family
            BY <1>4 DEF RequestState
        <3>2. req' = [req EXCEPT ![r] = n]
            BY <2>1, <2>3
        <3> HIDE DEF n
        <3>3. req'[r] = n /\ \A q \in Request : q # r => req'[q] = req[q]
            BY <3>2, NewState
        <3>4. t \in Token
            BY <1>4 DEF RequestState
        <3>5. Settles(r)
            BY <2>3, <3>1, <3>3, <3>4 DEF Settles, ChainInv
        <3> QED BY <1>0, <3>3, <3>5, ChainQuiet
    <2>4. CASE ~Live(t) /\ ~Return(r)
        <3> DEFINE n == [req[r] EXCEPT !.todo = @ \ {t}]
        <3>1. n.pc = "end" /\ n.family = req[r].family
            BY <1>4, <1>12 DEF RequestState, EndNext, At
        <3>2. req' = [req EXCEPT ![r] = n]
            BY <1>4, <2>1, <2>4 DEF TypeOK
        <3> HIDE DEF n
        <3> QED BY <1>3, <3>1, <3>2
    <2> QED BY <2>2, <2>3, <2>4
<1>13. CASE EndUnindexFamily(r)
    <2>1. CASE Return(r)
        BY <1>1, <2>1
    <2>2. CASE ~Return(r)
        <3> DEFINE n == [req[r] EXCEPT !.pc = "end", !.todo = @ \ {req[r].tok}]
        <3>1. n.pc = "end" /\ n.family = req[r].family
            BY <1>4 DEF RequestState
        <3>2. req' = [req EXCEPT ![r] = n]
            BY <1>4, <1>13, <2>2 DEF EndUnindexFamily, TypeOK
        <3> HIDE DEF n
        <3> QED BY <1>3, <3>1, <3>2
    <2> QED BY <2>1, <2>2
<1> QED BY <1>5, <1>6, <1>7, <1>8, <1>9, <1>10, <1>11, <1>12, <1>13 DEF Continue, Dropping

(* A token taken away disturbs its family; its mark goes only with it. *)
LEMMA DropSettles ==
    ASSUME TypeOK, NEW t \in Token, DropToken(t), UNCHANGED session
    PROVE  StoresSettle
<1>1. /\ token' = [token EXCEPT ![t] = NoToken] /\ used' = used \ {t}
      /\ disturbed' = IF Live(t) THEN disturbed \cup {token[t].family} ELSE disturbed
    BY DEF DropToken
<1>2. token'[t] = NoToken /\ \A x \in Token : x # t => token'[x] = token[x]
    BY <1>1 DEF TypeOK
<1>3. \A x \in Token : Live(x)' => x # t
    BY <1>2 DEF Live
<1> QED BY <1>1, <1>2, <1>3 DEF StoresSettle, Opened, Live

LEMMA DroppingKeepsChain ==
    ASSUME TypeOK, TypeOK', ChainInv, NEW r \in Request, Dropping(r)
    PROVE  ChainInv'
<1>1. req[r] \in RequestState /\ LocalsOK(req[r], generated) /\ UNCHANGED session
    BY DEF TypeOK, Dropping, DropMember, WipeToken, EndDrop
<1>2. CASE EndDrop(r)
    <2>1. req[r].tok \in Token /\ DropToken(req[r].tok)
        BY <1>1, <1>2 DEF EndDrop, At, LocalsOK, TypeOK
    <2>2. Settles(r) /\ \A q \in Request : q # r => req'[q] = req[q]
        BY <1>2, GotoSettles DEF EndDrop, RequestPc
    <2> QED BY <1>1, <2>1, <2>2, DropSettles, ChainKept
<1>3. CASE DropMember(r) \/ WipeToken(r)
    <2>1. PICK t \in req[r].todo, p \in {"unindex", "dropIndex"} :
            /\ DropToken(t)
            /\ req' = [req EXCEPT ![r].todo = @ \ {t},
                                  ![r].pc = IF req[r].todo = {t} THEN p ELSE @]
            /\ req[r].pc \in {"drop", "wipe"}
        BY <1>3 DEF DropMember, WipeToken, At
    <2> DEFINE n == [req[r] EXCEPT !.todo = @ \ {t}, !.pc = IF req[r].todo = {t} THEN p ELSE @]
    <2>2. n.family = req[r].family /\ n.pc \in {"drop", "wipe", "unindex", "dropIndex"}
        BY <1>1, <2>1 DEF RequestState
    <2>3. req' = [req EXCEPT ![r] = n]
        BY <1>1, <2>1 DEF TypeOK
    <2> HIDE DEF n
    <2>4. Settles(r) /\ \A q \in Request : q # r => req'[q] = req[q]
        BY <2>2, <2>3, QuietSettles
    <2>5. t \in Token
        BY <1>1 DEF RequestState
    <2> QED BY <1>1, <2>1, <2>4, <2>5, DropSettles, ChainKept
<1> QED BY <1>2, <1>3 DEF Dropping

LEMMA ExpireKeepsChain ==
    ASSUME TypeOK, TypeOK', ChainInv, NEW t \in Token, Expire(t) \/ ExpireMark(t)
    PROVE  ChainInv'
<1>1. UNCHANGED <<session, req>>
    BY DEF Expire, ExpireMark
<1>2. CASE Expire(t)
    <2>1. token'[t] = NoToken /\ \A x \in Token : x # t => token'[x] = token[x]
        BY <1>2 DEF Expire, TypeOK
    <2>2. StoresSettle
        BY <1>1, <1>2, <2>1 DEF Expire, StoresSettle, Opened, Live
    <2> QED BY <1>1, <2>2, ChainKept
<1>3. CASE ExpireMark(t)
    <2>1. StoresSettle
        BY <1>1, <1>3 DEF ExpireMark, StoresSettle, Opened, Live, history
    <2> QED BY <1>1, <2>1, ChainKept
<1> QED BY <1>2, <1>3

LEMMA InitChainInv == Init => ChainInv
<1> SUFFICES ASSUME Init PROVE ChainInv
    OBVIOUS
<1>1. \A t \in Token : ~Live(t) /\ token[t].family = None
    BY NoFamily DEF Init, Live
<1>2. \A r \in Request : req[r].pc = "idle" /\ req[r].family = None
    BY DEF Init, IdleRequest
<1> QED BY <1>1, <1>2, NoneAssumption DEF ChainInv, Presents, OneHead, HeadToken, HeadRequest

LEMMA NextChainInv == TypeOK /\ ChainInv /\ [Next]_vars => ChainInv'
<1> SUFFICES ASSUME TypeOK, ChainInv, [Next]_vars PROVE ChainInv'
    OBVIOUS
<1>0. TypeOK'
    BY NextTypeOK
<1>1. ASSUME NEW r \in Request, Start(r) \/ Continue(r) \/ Fail(r) PROVE ChainInv'
    BY <1>0, <1>1, StartKeepsChain, LoginKeepsChain, CreateTokenKeepsChain,
       MarkTokenUsedKeepsChain, DroppingKeepsChain, ContinueKeepsChain
<1>2. ASSUME NEW t \in Token, Expire(t) \/ ExpireMark(t) PROVE ChainInv'
    BY <1>0, <1>2, ExpireKeepsChain
<1>3. CASE UNCHANGED vars
    <2>1. StoresSettle /\ \A r \in Request : req'[r] = req[r]
        BY <1>3 DEF vars, redis, history, StoresSettle, Opened, Live
    <2> QED BY <1>0, <2>1, ChainKept
<1> QED BY <1>1, <1>2, <1>3 DEF Next

(* The tokens of a family are used up one by one: each was exchanged at    *)
(* most once and is marked when it was, and a family that lost no key has  *)
(* one head, however logins, refreshes, logouts and revocations interleave *)
(* and wherever they break off (redis/tokens.go:99-126).                   *)
THEOREM RotationAlwaysHolds == Spec => []RotationHolds
<1>1. Init => TypeOK /\ ChainInv
    BY InitTypeOK, InitChainInv
<1>2. TypeOK /\ ChainInv /\ [Next]_vars => TypeOK' /\ ChainInv'
    BY NextTypeOK, NextChainInv
<1>3. ChainInv => ChainUnlessDisturbed
    BY DEF ChainInv, ChainUnlessDisturbed, Heads, OneHead, HeadToken, HeadRequest
<1>4. Spec => []ChainUnlessDisturbed
    BY <1>1, <1>2, <1>3, PTL DEF Spec
<1> QED BY <1>4, OneExchange, PTL DEF RotationHolds

-----------------------------------------------------------------------------
(* Access ends.  A revocation goes by the index of its user, so the index   *)
(* must cover what clients hold.  A token leaves the index after it is      *)
(* gone, except by the DEL of the whole set: whoever is about to make that  *)
(* has listed what was in it, and what came in since marks the user raced.  *)

Dead(t) == t \in generated /\ ~Live(t)

(* What a request relies on, besides the types of its locals.               *)
Safe(s) ==
    /\ s.pc \in {"ttl", "mark", "load", "issue", "indexUser", "indexFamily"}
          => session[s.family].user = s.user
    /\ s.pc \in {"list", "wipe", "dropIndex"} => \A f \in s.doomed : session[f].user = s.user
    /\ s.pc \in {"indexUser", "indexFamily"} /\ Live(s.tok) => token[s.tok].user = s.user
    /\ s.pc = "indexFamily" /\ Live(s.tok) /\ s.user \notin raced => s.tok \in userTokens[s.user]
    /\ s.pc = "drop" => s.seen \subseteq generated /\ \A t \in s.seen \ s.todo : Dead(t)
    /\ s.pc = "unindex" => \A t \in s.seen : Dead(t)
    /\ s.pc = "endUser" => Dead(s.tok)
    /\ s.pc \in {"wipe", "dropIndex"} =>
          s.user \in raced \/ \A t \in userTokens[s.user] : t \in s.todo \/ Dead(t)
    /\ s.pc = "dropIndex" => s.todo = {}

(* A stored token is one of a session of its user. *)
Owned(t) == Live(t) => session[token[t].family].user = token[t].user

AccessInv ==
    /\ \A t \in Token : Owned(t)
    /\ \A r \in Request : Safe(req[r])
    /\ IndexCoversSessions

(* What is stored stays as it is until it goes, sessions do not change      *)
(* hands, and the index of a user loses only what is gone.                  *)
StoresKeep ==
    /\ generated \subseteq generated' /\ raced \subseteq raced'
    /\ \A f \in Family : session[f].user \in User => session'[f] = session[f]
    /\ \A t \in generated : Live(t)' => token'[t] = token[t]
    /\ \A t \in generated, u \in User :
          t \in userTokens[u] /\ Live(t)' /\ u \notin raced' => t \in userTokens'[u]

(* The index of a user grows behind a revocation only if it marks him. *)
GrowsMarked(u) == u \in raced' \/ userTokens'[u] \subseteq userTokens[u]

LEMMA UserOfLive ==
    ASSUME TypeOK, NEW t \in Token, Live(t)
    PROVE  token[t].user \in User /\ token[t].family \in Family /\ t \in generated
BY DEF TypeOK, Live, RefreshToken

LEMMA DeadStays ==
    ASSUME TypeOK, StoresKeep, NEW t \in Token, Dead(t)
    PROVE  Dead(t)'
BY DEF StoresKeep, Dead, Live

LEMMA SafeKept ==
    ASSUME TypeOK, StoresKeep, NEW q \in Request, req'[q] = req[q], Safe(req[q]),
           req[q].pc \in {"wipe", "dropIndex"} => GrowsMarked(req[q].user)
    PROVE  Safe(req[q])'
<1>0. req[q] \in RequestState /\ LocalsOK(req[q], generated) /\ generated \subseteq Token
    BY DEF TypeOK
<1>1. req[q].pc \in {"ttl", "mark", "load", "issue", "indexUser", "indexFamily"}
        => session'[req[q].family].user = req[q].user
    BY <1>0 DEF Safe, StoresKeep, LocalsOK
<1>2. req[q].pc \in {"list", "wipe", "dropIndex"}
        => \A f \in req[q].doomed : session'[f].user = req[q].user
    <2>1. req[q].doomed \subseteq Family
        BY <1>0 DEF RequestState
    <2> QED BY <1>0, <2>1 DEF Safe, StoresKeep, LocalsOK
<1>3. req[q].pc \in {"indexUser", "indexFamily"} /\ Live(req[q].tok)'
        => token'[req[q].tok].user = req[q].user
    BY <1>0 DEF Safe, StoresKeep, LocalsOK, Live
<1>4. req[q].pc = "indexFamily" /\ Live(req[q].tok)' /\ req[q].user \notin raced'
        => req[q].tok \in userTokens'[req[q].user]
    BY <1>0 DEF Safe, StoresKeep, LocalsOK, Live
<1>5. req[q].pc = "drop"
        => req[q].seen \subseteq generated' /\ \A t \in req[q].seen \ req[q].todo : Dead(t)'
    BY <1>0, DeadStays DEF Safe, StoresKeep
<1>6. req[q].pc = "unindex" => \A t \in req[q].seen : Dead(t)'
    BY <1>0, DeadStays DEF Safe, RequestState
<1>7. req[q].pc = "endUser" => Dead(req[q].tok)'
    BY <1>0, DeadStays DEF Safe, LocalsOK
<1>8. req[q].pc \in {"wipe", "dropIndex"} =>
        req[q].user \in raced' \/ \A t \in userTokens'[req[q].user] : t \in req[q].todo \/ Dead(t)'
    <2> SUFFICES ASSUME req[q].pc \in {"wipe", "dropIndex"}, req[q].user \notin raced',
                        NEW t \in userTokens'[req[q].user], t \notin req[q].todo
                 PROVE  Dead(t)'
        OBVIOUS
    <2>1. req[q].user \in User /\ t \in userTokens[req[q].user] /\ req[q].user \notin raced
        BY <1>0 DEF GrowsMarked, StoresKeep, LocalsOK
    <2>2. Dead(t) /\ t \in Token
        BY <1>0, <2>1 DEF Safe, TypeOK
    <2> QED BY <2>2, DeadStays
<1>9. req[q].pc = "dropIndex" => req[q].todo = {}
    BY DEF Safe
<1> QED BY <1>1, <1>2, <1>3, <1>4, <1>5, <1>6, <1>7, <1>8, <1>9 DEF Safe, Live, Dead

LEMMA AccessKept ==
    ASSUME TypeOK, TypeOK', AccessInv, StoresKeep,
           \A q \in Request :
              \/ req'[q] = req[q] /\ (req[q].pc \in {"wipe", "dropIndex"} => GrowsMarked(req[q].user))
              \/ Safe(req[q])',
           \A t \in Token : Live(t)' /\ t \notin generated => Owned(t)',
           \A t \in delivered' \ delivered : Live(t)' /\ token'[t].user \notin raced'
              => t \in userTokens'[token'[t].user]
    PROVE  AccessInv'
<1>1. ASSUME NEW t \in Token PROVE Owned(t)'
    <2>1. CASE Live(t)' /\ t \in generated
        <3>1. token'[t] = token[t] /\ Live(t)
            BY <2>1 DEF StoresKeep, Live
        <3>2. session[token[t].family].user = token[t].user
            BY <3>1 DEF AccessInv, Owned
        <3>3. session'[token[t].family].user = token[t].user
            BY <3>1, <3>2, UserOfLive DEF StoresKeep
        <3> QED BY <3>1, <3>3 DEF Owned
    <2> QED BY <2>1 DEF Owned
<1>2. ASSUME NEW q \in Request PROVE Safe(req[q])'
    BY SafeKept DEF AccessInv
<1>3. IndexCoversSessions'
    <2> SUFFICES ASSUME NEW t \in delivered', Live(t)', token'[t].user \notin raced'
                 PROVE  t \in userTokens'[token'[t].user]
        BY DEF IndexCoversSessions
    <2>1. CASE t \in delivered
        <3>1. t \in generated /\ t \in Token
            BY <2>1 DEF TypeOK
        <3>2. token'[t] = token[t] /\ Live(t) /\ token[t].user \notin raced
            BY <3>1 DEF StoresKeep, Live
        <3>3. t \in userTokens[token[t].user] /\ token[t].user \in User
            BY <2>1, <3>1, <3>2, UserOfLive DEF AccessInv, IndexCoversSessions
        <3> QED BY <3>1, <3>2, <3>3 DEF StoresKeep
    <2> QED BY <2>1
<1> QED BY <1>1, <1>2, <1>3 DEF AccessInv

(* A step of one request that leaves tokens, sessions and index alone.      *)
LEMMA AccessQuiet ==
    ASSUME TypeOK, TypeOK', AccessInv,
           UNCHANGED <<token, userTokens, session, raced, generated, delivered>>,
           NEW r \in Request, Safe(req[r])', \A q \in Request : q # r => req'[q] = req[q]
    PROVE  AccessInv'
<1>1. StoresKeep /\ \A u \in User : GrowsMarked(u)
    BY DEF StoresKeep, GrowsMarked, Live
<1>2. \A q \in Request : req[q].pc \in {"wipe", "dropIndex"} => GrowsMarked(req[q].user)
    BY <1>1 DEF TypeOK, LocalsOK
<1>3. \A t \in Token : Live(t)' => t \in generated
    BY DEF TypeOK
<1>4. \A q \in Request :
        \/ req'[q] = req[q] /\ (req[q].pc \in {"wipe", "dropIndex"} => GrowsMarked(req[q].user))
        \/ Safe(req[q])'
    BY <1>2
<1> QED BY <1>1, <1>3, <1>4, AccessKept

(* Where a request relies on nothing. *)
Careless == {"idle", "setPassword", "end", "endDrop", "endFamily", "members", "reuse", "dropFamily"}

LEMMA CarelessIsSafe == ASSUME NEW q \in Request, req'[q].pc \in Careless PROVE Safe(req[q])'
BY DEF Careless, Safe

LEMMA ReturnIsCareless ==
    ASSUME TypeOK, NEW r \in Request, Return(r)
    PROVE  req'[r].pc \in Careless /\ \A q \in Request : q # r => req'[q] = req[q]
<1>1. req'[r] = IdleRequest /\ \A q \in Request : q # r => req'[q] = req[q]
    BY NewState DEF Return
<1>2. IdleRequest.pc \in Careless
    BY DEF IdleRequest, Careless
<1> QED BY <1>1, <1>2

LEMMA GotoMoves ==
    ASSUME TypeOK, NEW r \in Request, NEW p \in RequestPc, Goto(r, p)
    PROVE  /\ req'[r].pc = p /\ req'[r].user = req[r].user /\ req'[r].family = req[r].family
           /\ req'[r].tok = req[r].tok /\ req'[r].todo = req[r].todo
           /\ req'[r].seen = req[r].seen /\ req'[r].doomed = req[r].doomed
           /\ \A q \in Request : q # r => req'[q] = req[q]
<1>1. req[r] \in RequestState
    BY DEF TypeOK
<1> QED BY <1>1 DEF Goto, TypeOK, RequestState

-----------------------------------------------------------------------------
LEMMA StartKeepsAccess ==
    ASSUME TypeOK, TypeOK', AccessInv, NEW r \in Request, Start(r),
           \A u \in User, f \in Family : ~Login(r, u, f)
    PROVE  AccessInv'
<1>0. UNCHANGED <<token, userTokens, session, raced, generated, delivered>>
    BY DEF Start, GetTokenByHash, Logout, LogoutAll, VerifyPassword, Deactivate,
       RevokeSessions, redis, history
<1>1. CASE \E t \in Token : GetTokenByHash(r, t)
    <2>1. PICK t \in Token : GetTokenByHash(r, t)
        BY <1>1
    <2> DEFINE n == [IdleRequest EXCEPT
                       !.pc = "ttl", !.tok = t, !.user = token[t].user, !.family = token[t].family]
    <2>2. n.pc = "ttl" /\ n.user = token[t].user /\ n.family = token[t].family
        BY DEF IdleRequest
    <2>3. req' = [req EXCEPT ![r] = n] /\ Live(t)
        BY <2>1 DEF GetTokenByHash
    <2> HIDE DEF n
    <2>4. req'[r] = n /\ \A q \in Request : q # r => req'[q] = req[q]
        BY <2>3, NewState
    <2>5. Safe(req[r])'
        BY <1>0, <2>2, <2>3, <2>4 DEF Safe, AccessInv, Owned
    <2> QED BY <1>0, <2>4, <2>5, AccessQuiet
<1>2. ASSUME NEW n, n.pc \in Careless, req' = [req EXCEPT ![r] = n]
      PROVE  AccessInv'
    <2>1. req'[r] = n /\ \A q \in Request : q # r => req'[q] = req[q]
        BY <1>2, NewState
    <2> QED BY <1>0, <1>2, <2>1, CarelessIsSafe, AccessQuiet
<1>3. ASSUME NEW n, NEW u \in User, n.pc = "list", n.user = u,
             \A f \in n.doomed : session[f].user = u, req' = [req EXCEPT ![r] = n]
      PROVE  AccessInv'
    <2>1. req'[r] = n /\ \A q \in Request : q # r => req'[q] = req[q]
        BY <1>3, NewState
    <2>2. Safe(req[r])'
        BY <1>0, <1>3, <2>1 DEF Safe
    <2> QED BY <1>0, <2>1, <2>2, AccessQuiet
<1>4. CASE \E t \in Token : Logout(r, t)
    <2>1. PICK t \in Token : Logout(r, t)
        BY <1>4
    <2> DEFINE n == [IdleRequest EXCEPT !.pc = "end", !.todo = {t}]
    <2>2. n.pc \in Careless
        BY DEF IdleRequest, Careless
    <2>3. req' = [req EXCEPT ![r] = n]
        BY <2>1 DEF Logout
    <2> HIDE DEF n
    <2> QED BY <1>2, <2>2, <2>3
<1>5. CASE \E u \in User : VerifyPassword(r, u)
    <2>1. PICK u \in User : VerifyPassword(r, u)
        BY <1>5
    <2> DEFINE n == [IdleRequest EXCEPT !.pc = "setPassword", !.user = u]
    <2>2. n.pc \in Careless
        BY DEF IdleRequest, Careless
    <2>3. req' = [req EXCEPT ![r] = n]
        BY <2>1 DEF VerifyPassword
    <2> HIDE DEF n
    <2> QED BY <1>2, <2>2, <2>3
<1>6. CASE \E u \in User : RevokeSessions(r, u)
    <2>1. PICK chosen :
                req' = [req EXCEPT ![r] = [IdleRequest EXCEPT !.pc = "end", !.todo = chosen]]
        BY <1>6 DEF RevokeSessions
    <2> DEFINE n == [IdleRequest EXCEPT !.pc = "end", !.todo = chosen]
    <2>2. n.pc \in Careless
        BY DEF IdleRequest, Careless
    <2>3. req' = [req EXCEPT ![r] = n]
        BY <2>1
    <2> HIDE DEF n
    <2> QED BY <1>2, <2>2, <2>3
<1>7. CASE \E u \in User : LogoutAll(r, u)
    <2>1. PICK u \in User : LogoutAll(r, u)
        BY <1>7
    <2> DEFINE ended == {token[t].family : t \in {x \in delivered : token[x].user = u}}
               n == [IdleRequest EXCEPT !.pc = "list", !.user = u, !.doomed = ended]
    <2>2. n.pc = "list" /\ n.user = u /\ n.doomed = ended
        BY DEF IdleRequest
    <2>3. req' = [req EXCEPT ![r] = n]
        BY <2>1 DEF LogoutAll
    <2>4. \A f \in ended : session[f].user = u
        <3> SUFFICES ASSUME NEW t \in delivered, token[t].user = u
                     PROVE  session[token[t].family].user = u
            OBVIOUS
        <3>1. t \in Token /\ Live(t)
            BY NoneAssumption DEF TypeOK, Live, NoToken
        <3> QED BY <3>1 DEF AccessInv, Owned
    <2> HIDE DEF n
    <2> QED BY <1>3, <2>2, <2>3, <2>4
<1>8. CASE \E u \in User : Deactivate(r, u)
    <2>1. PICK u \in User : Deactivate(r, u)
        BY <1>8
    <2> DEFINE n == [IdleRequest EXCEPT !.pc = "list", !.user = u, !.doomed = FamiliesOf(u)]
    <2>2. n.pc = "list" /\ n.user = u /\ n.doomed = FamiliesOf(u)
        BY DEF IdleRequest
    <2>3. req' = [req EXCEPT ![r] = n]
        BY <2>1 DEF Deactivate
    <2>4. \A f \in FamiliesOf(u) : session[f].user = u
        BY DEF FamiliesOf
    <2> HIDE DEF n
    <2> QED BY <1>3, <2>2, <2>3, <2>4
<1> QED BY <1>1, <1>4, <1>5, <1>6, <1>7, <1>8 DEF Start

LEMMA LoginKeepsAccess ==
    ASSUME TypeOK, TypeOK', AccessInv, NEW r \in Request, NEW u \in User, NEW f \in Family,
           Login(r, u, f)
    PROVE  AccessInv'
<1> DEFINE n == [IdleRequest EXCEPT !.pc = "issue", !.user = u, !.family = f]
<1>1. n.pc = "issue" /\ n.user = u /\ n.family = f
    BY DEF IdleRequest
<1>2. /\ req' = [req EXCEPT ![r] = n] /\ ~Opened(f)
      /\ session' = [session EXCEPT ![f] = [user |-> u, password |-> account[u].password]]
      /\ UNCHANGED <<token, userTokens, raced, generated, delivered>>
    BY DEF Login, redis, history
<1> HIDE DEF n
<1>3. req'[r] = n /\ \A q \in Request : q # r => req'[q] = req[q]
    BY <1>2, NewState
<1>4. session'[f].user = u /\ \A g \in Family : g # f => session'[g] = session[g]
    BY <1>2 DEF TypeOK
<1>5. session[f].user \notin User
    BY <1>2, NoneAssumption DEF Opened, NoSession
<1>6. StoresKeep /\ \A v \in User : GrowsMarked(v)
    BY <1>2, <1>4, <1>5 DEF StoresKeep, GrowsMarked, Live
<1>7. Safe(req[r])'
    BY <1>1, <1>3, <1>4 DEF Safe
<1>8. \A q \in Request :
        \/ req'[q] = req[q] /\ (req[q].pc \in {"wipe", "dropIndex"} => GrowsMarked(req[q].user))
        \/ Safe(req[q])'
    BY <1>3, <1>6, <1>7 DEF TypeOK, LocalsOK
<1>9. \A t \in Token : Live(t)' => t \in generated
    BY <1>2 DEF TypeOK, Live
<1> QED BY <1>2, <1>6, <1>8, <1>9, AccessKept

(* The steps of a request that only move it on. *)
LEMMA QuietKeepsAccess ==
    ASSUME TypeOK, TypeOK', AccessInv, NEW r \in Request,
           \/ ReadTTL(r) \/ MarkTokenUsed(r) \/ LoadUser(r) \/ ListFamily(r) \/ ReadMembers(r)
           \/ DropFamily(r) \/ SetPassword(r) \/ ListUser(r) \/ EndNext(r)
           \/ EndUnindexFamily(r) \/ Fail(r)
    PROVE  AccessInv'
<1>0. UNCHANGED <<token, userTokens, session, raced, generated, delivered>>
    BY DEF ReadTTL, MarkTokenUsed, LoadUser, ListFamily, ReadMembers, DropFamily, SetPassword,
       ListUser, EndNext, EndUnindexFamily, Fail, redis, history
<1>a. req[r] \in RequestState /\ LocalsOK(req[r], generated) /\ Safe(req[r])
    BY DEF TypeOK, AccessInv
<1>b. ASSUME req'[r].pc \in Careless, \A q \in Request : q # r => req'[q] = req[q]
      PROVE  AccessInv'
    BY <1>0, <1>b, CarelessIsSafe, AccessQuiet
<1>c. CASE Return(r)
    BY <1>b, <1>c, ReturnIsCareless
<1>d. ASSUME NEW n, n.pc \in Careless, req' = [req EXCEPT ![r] = n] PROVE AccessInv'
    BY <1>b, <1>d, NewState
<1>1. CASE ReadTTL(r) \/ LoadUser(r) \/ MarkTokenUsed(r)
    <2>1. req[r].pc \in {"ttl", "load", "mark"}
        BY <1>1 DEF ReadTTL, LoadUser, MarkTokenUsed, At
    <2>2. PICK p \in {"mark", "issue", "load", "reuse"} : Goto(r, p) \/ Return(r)
        BY <1>1 DEF ReadTTL, LoadUser, MarkTokenUsed
    <2>3. CASE Goto(r, p)
        <3>1. /\ req'[r].pc = p /\ req'[r].user = req[r].user /\ req'[r].family = req[r].family
              /\ \A q \in Request : q # r => req'[q] = req[q]
            BY <2>2, <2>3, GotoMoves DEF RequestPc
        <3>2. Safe(req[r])'
            BY <1>0, <1>a, <2>1, <2>2, <3>1 DEF Safe
        <3> QED BY <1>0, <3>1, <3>2, AccessQuiet
    <2> QED BY <1>c, <2>2, <2>3
<1>2. CASE ListFamily(r)
    <2> DEFINE n == [req[r] EXCEPT !.pc = "members", !.todo = familyTokens[req[r].family]]
    <2>1. n.pc \in Careless
        BY <1>a DEF RequestState, Careless
    <2>2. Return(r) \/ req' = [req EXCEPT ![r] = n]
        BY <1>2, <1>a DEF ListFamily, TypeOK
    <2> HIDE DEF n
    <2> QED BY <1>c, <1>d, <2>1, <2>2
<1>3. CASE ReadMembers(r)
    <2> DEFINE n == [req[r] EXCEPT !.pc = "drop", !.seen = {t \in req[r].todo : Live(t)}]
    <2>1. n.pc = "drop" /\ n.todo = req[r].todo /\ n.seen = {t \in req[r].todo : Live(t)}
        BY <1>a DEF RequestState
    <2>2. req' = [req EXCEPT ![r] = n]
        BY <1>3, <1>a DEF ReadMembers, TypeOK
    <2> HIDE DEF n
    <2>3. req'[r] = n /\ \A q \in Request : q # r => req'[q] = req[q]
        BY <2>2, NewState
    <2>4. n.seen \subseteq n.todo /\ n.todo \subseteq generated
        BY <1>a, <2>1 DEF LocalsOK
    <2>5. Safe(req[r])'
        BY <1>0, <2>1, <2>3, <2>4 DEF Safe
    <2> QED BY <1>0, <2>3, <2>5, AccessQuiet
<1>4. CASE SetPassword(r)
    <2> DEFINE n == [req[r] EXCEPT !.pc = "list", !.doomed = FamiliesOf(req[r].user)]
    <2>1. n.pc = "list" /\ n.user = req[r].user /\ n.doomed = FamiliesOf(req[r].user)
        BY <1>a DEF RequestState
    <2>2. req' = [req EXCEPT ![r] = n]
        BY <1>4, <1>a DEF SetPassword, TypeOK
    <2> HIDE DEF n
    <2>3. req'[r] = n /\ \A q \in Request : q # r => req'[q] = req[q]
        BY <2>2, NewState
    <2>4. Safe(req[r])'
        BY <1>0, <2>1, <2>3 DEF Safe, FamiliesOf
    <2> QED BY <1>0, <2>3, <2>4, AccessQuiet
<1>5. CASE ListUser(r)
    <2> DEFINE n == [req[r] EXCEPT !.pc = "wipe", !.todo = userTokens[req[r].user]]
    <2>1. /\ n.pc = "wipe" /\ n.user = req[r].user /\ n.doomed = req[r].doomed
          /\ n.todo = userTokens[req[r].user]
        BY <1>a DEF RequestState
    <2>2. /\ Return(r) \/ req' = [req EXCEPT ![r] = n]
          /\ req[r].pc = "list"
        BY <1>5, <1>a DEF ListUser, TypeOK, At
    <2> HIDE DEF n
    <2>3. CASE req' = [req EXCEPT ![r] = n]
        <3>1. req'[r] = n /\ \A q \in Request : q # r => req'[q] = req[q]
            BY <2>3, NewState
        <3>2. Safe(req[r])'
            BY <1>0, <1>a, <2>1, <2>2, <3>1 DEF Safe
        <3> QED BY <1>0, <3>1, <3>2, AccessQuiet
    <2> QED BY <1>c, <2>2, <2>3
<1>6. CASE EndNext(r)
    <2>1. PICK t \in req[r].todo :
            \/ req' = [req EXCEPT ![r] = [@ EXCEPT !.pc = "endDrop", !.tok = t,
                            !.user = token[t].user, !.family = token[t].family]]
            \/ Return(r) \/ req' = [req EXCEPT ![r].todo = @ \ {t}]
        BY <1>6 DEF EndNext
    <2>2. ASSUME req' = [req EXCEPT ![r] = [@ EXCEPT !.pc = "endDrop", !.tok = t,
                            !.user = token[t].user, !.family = token[t].family]]
          PROVE  AccessInv'
        <3> DEFINE n == [req[r] EXCEPT !.pc = "endDrop", !.tok = t,
                           !.user = token[t].user, !.family = token[t].family]
        <3>1. n.pc \in Careless
            BY <1>a DEF RequestState, Careless
        <3>2. req' = [req EXCEPT ![r] = n]
            BY <2>2
        <3> HIDE DEF n
        <3> QED BY <1>d, <3>1, <3>2
    <2>3. ASSUME req' = [req EXCEPT ![r].todo = @ \ {t}]
          PROVE  AccessInv'
        <3> DEFINE n == [req[r] EXCEPT !.todo = @ \ {t}]
        <3>1. n.pc \in Careless
            BY <1>a, <1>6 DEF RequestState, Careless, EndNext, At
        <3>2. req' = [req EXCEPT ![r] = n]
            BY <1>a, <2>3 DEF TypeOK
        <3> HIDE DEF n
        <3> QED BY <1>d, <3>1, <3>2
    <2> QED BY <1>c, <2>1, <2>2, <2>3
<1>7. CASE EndUnindexFamily(r)
    <2> DEFINE n == [req[r] EXCEPT !.pc = "end", !.todo = @ \ {req[r].tok}]
    <2>1. n.pc \in Careless
        BY <1>a DEF RequestState, Careless
    <2>2. Return(r) \/ req' = [req EXCEPT ![r] = n]
        BY <1>7, <1>a DEF EndUnindexFamily, TypeOK
    <2> HIDE DEF n
    <2> QED BY <1>c, <1>d, <2>1, <2>2
<1>8. CASE DropFamily(r) \/ Fail(r)
    BY <1>8, <1>c DEF DropFamily, Fail
<1> QED BY <1>1, <1>2, <1>3, <1>4, <1>5, <1>6, <1>7, <1>8

LEMMA CreateTokenKeepsAccess ==
    ASSUME TypeOK, TypeOK', AccessInv, NEW r \in Request, NEW t \in Token, CreateToken(r, t)
    PROVE  AccessInv'
<1> DEFINE n == [req[r] EXCEPT !.pc = "indexUser", !.tok = t]
<1>1. /\ req[r] \in RequestState /\ LocalsOK(req[r], generated) /\ req[r].pc = "issue"
      /\ Safe(req[r])
    BY DEF CreateToken, At, TypeOK, AccessInv
<1>2. /\ req' = [req EXCEPT ![r] = n] /\ t \notin generated /\ generated' = generated \cup {t}
      /\ UNCHANGED <<userTokens, session, raced, delivered>>
    BY DEF CreateToken, TypeOK
<1>3. n.pc = "indexUser" /\ n.tok = t /\ n.user = req[r].user /\ n.family = req[r].family
    BY <1>1 DEF RequestState
<1> HIDE DEF n
<1>4. req'[r] = n /\ \A q \in Request : q # r => req'[q] = req[q]
    BY <1>2, NewState
<1>5. /\ token'[t] = [user |-> req[r].user, family |-> req[r].family]
      /\ \A x \in Token : x # t => token'[x] = token[x]
    BY DEF CreateToken, TypeOK
<1>6. \A x \in Token : Live(x)' => x \in generated \/ x = t
    BY <1>2 DEF TypeOK
<1>7. StoresKeep /\ \A v \in User : GrowsMarked(v)
    BY <1>2, <1>5 DEF StoresKeep, GrowsMarked, TypeOK
<1>8. session[req[r].family].user = req[r].user
    BY <1>1 DEF Safe
<1>9. Owned(t)' /\ Safe(req[r])'
    BY <1>2, <1>3, <1>4, <1>5, <1>8 DEF Owned, Safe
<1>10. \A q \in Request :
         \/ req'[q] = req[q] /\ (req[q].pc \in {"wipe", "dropIndex"} => GrowsMarked(req[q].user))
         \/ Safe(req[q])'
    BY <1>4, <1>7, <1>9 DEF TypeOK, LocalsOK
<1> QED BY <1>2, <1>6, <1>7, <1>9, <1>10, AccessKept

(* Whoever adds to an index that is being emptied marks its user. *)
LEMMA IndexUserKeepsAccess ==
    ASSUME TypeOK, TypeOK', AccessInv, NEW r \in Request, IndexUser(r)
    PROVE  AccessInv'
<1> DEFINE u == req[r].user
<1>1. /\ LocalsOK(req[r], generated) /\ req[r].pc = "indexUser" /\ Safe(req[r]) /\ u \in User
    BY DEF IndexUser, At, TypeOK, AccessInv, LocalsOK
<1>2. UNCHANGED <<token, session, generated, delivered>> /\ Goto(r, "indexFamily")
    BY DEF IndexUser
<1>3. /\ userTokens'[u] = userTokens[u] \cup {req[r].tok}
      /\ \A v \in User : v # u => userTokens'[v] = userTokens[v]
      /\ raced \subseteq raced' /\ (Emptying(u) => u \in raced')
    BY <1>1 DEF IndexUser, TypeOK
<1>4. /\ req'[r].pc = "indexFamily" /\ req'[r].user = u /\ req'[r].family = req[r].family
      /\ req'[r].tok = req[r].tok /\ \A q \in Request : q # r => req'[q] = req[q]
    BY <1>2, GotoMoves DEF RequestPc
<1>5. StoresKeep
    BY <1>2, <1>3 DEF StoresKeep, Live
<1>6. Safe(req[r])'
    BY <1>1, <1>2, <1>3, <1>4 DEF Safe, Live
<1>7. \A q \in Request : req[q].pc \in {"wipe", "dropIndex"} => GrowsMarked(req[q].user)
    <2> SUFFICES ASSUME NEW q \in Request, req[q].pc \in {"wipe", "dropIndex"}
                 PROVE  GrowsMarked(req[q].user)
        OBVIOUS
    <2>1. req[q].user \in User
        BY DEF TypeOK, LocalsOK
    <2>2. CASE req[q].user = u
        BY <1>3, <2>2 DEF Emptying, GrowsMarked
    <2>3. CASE req[q].user # u
        BY <1>3, <2>1, <2>3 DEF GrowsMarked
    <2> QED BY <2>2, <2>3
<1>8. \A q \in Request :
        \/ req'[q] = req[q] /\ (req[q].pc \in {"wipe", "dropIndex"} => GrowsMarked(req[q].user))
        \/ Safe(req[q])'
    BY <1>4, <1>6, <1>7
<1>9. \A t \in Token : Live(t)' => t \in generated
    BY <1>2 DEF TypeOK
<1> QED BY <1>2, <1>5, <1>8, <1>9, AccessKept

(* What is handed to a client is in the index by then, or its user raced. *)
LEMMA IndexFamilyKeepsAccess ==
    ASSUME TypeOK, TypeOK', AccessInv, NEW r \in Request, IndexFamily(r)
    PROVE  AccessInv'
<1>1. /\ LocalsOK(req[r], generated) /\ req[r].pc = "indexFamily" /\ Safe(req[r])
    BY DEF IndexFamily, At, TypeOK, AccessInv
<1>2. /\ UNCHANGED <<token, userTokens, session, raced, generated>> /\ Return(r)
      /\ delivered' = delivered \cup {req[r].tok}
    BY DEF IndexFamily, history
<1>3. StoresKeep /\ \A v \in User : GrowsMarked(v)
    BY <1>2 DEF StoresKeep, GrowsMarked, Live
<1>4. Safe(req[r])' /\ \A q \in Request : q # r => req'[q] = req[q]
    BY <1>2, ReturnIsCareless, CarelessIsSafe
<1>5. \A q \in Request :
        \/ req'[q] = req[q] /\ (req[q].pc \in {"wipe", "dropIndex"} => GrowsMarked(req[q].user))
        \/ Safe(req[q])'
    BY <1>3, <1>4 DEF TypeOK, LocalsOK
<1>6. \A t \in Token : Live(t)' => t \in generated
    BY <1>2 DEF TypeOK
<1>7. \A t \in delivered' \ delivered : Live(t)' /\ token'[t].user \notin raced'
        => t \in userTokens'[token'[t].user]
    BY <1>1, <1>2 DEF Safe, Live
<1> QED BY <1>3, <1>5, <1>6, <1>7, AccessKept

(* What a request takes out of an index is gone, or the user raced. *)
LEMMA UnindexKeepsAccess ==
    ASSUME TypeOK, TypeOK', AccessInv, NEW r \in Request,
           UnindexMembers(r) \/ DropUserIndex(r) \/ EndUnindexUser(r)
    PROVE  AccessInv'
<1> DEFINE u == req[r].user
<1>1. LocalsOK(req[r], generated) /\ Safe(req[r]) /\ req[r].pc \in {"unindex", "dropIndex", "endUser"}
    BY DEF UnindexMembers, DropUserIndex, EndUnindexUser, At, TypeOK, AccessInv
<1>2. u \in User /\ UNCHANGED <<token, session, raced, generated, delivered>>
    BY <1>1 DEF UnindexMembers, DropUserIndex, EndUnindexUser, redis, history, LocalsOK
<1>3. Goto(r, "dropFamily") \/ Goto(r, "endFamily") \/ Return(r)
    BY DEF UnindexMembers, DropUserIndex, EndUnindexUser
<1>4. req'[r].pc \in Careless /\ \A q \in Request : q # r => req'[q] = req[q]
    BY <1>3, GotoMoves, ReturnIsCareless DEF RequestPc, Careless
<1>5. Safe(req[r])'
    BY <1>4, CarelessIsSafe
<1>6. \A v \in User : userTokens'[v] \subseteq userTokens[v] /\ (v # u => userTokens'[v] = userTokens[v])
    BY <1>2 DEF UnindexMembers, DropUserIndex, EndUnindexUser, TypeOK
<1>7. u \in raced \/ \A t \in userTokens[u] : t \in userTokens'[u] \/ ~Live(t)
    <2>1. CASE UnindexMembers(r)
        <3>1. userTokens'[u] = userTokens[u] \ req[r].seen
            BY <1>2, <2>1 DEF UnindexMembers, TypeOK
        <3> QED BY <1>1, <2>1, <3>1 DEF UnindexMembers, At, Safe, Dead
    <2>2. CASE DropUserIndex(r)
        BY <1>1, <2>2 DEF DropUserIndex, At, Safe, Dead
    <2>3. CASE EndUnindexUser(r)
        <3>1. userTokens'[u] = userTokens[u] \ {req[r].tok}
            BY <1>2, <2>3 DEF EndUnindexUser, TypeOK
        <3> QED BY <1>1, <2>3, <3>1 DEF EndUnindexUser, At, Safe, Dead
    <2> QED BY <2>1, <2>2, <2>3
<1>8. StoresKeep /\ \A v \in User : GrowsMarked(v)
    BY <1>2, <1>6, <1>7 DEF StoresKeep, GrowsMarked, Live
<1>9. \A q \in Request :
        \/ req'[q] = req[q] /\ (req[q].pc \in {"wipe", "dropIndex"} => GrowsMarked(req[q].user))
        \/ Safe(req[q])'
    BY <1>4, <1>5, <1>8 DEF TypeOK, LocalsOK
<1>10. \A t \in Token : Live(t)' => t \in generated
    BY <1>2 DEF TypeOK
<1> QED BY <1>2, <1>8, <1>9, <1>10, AccessKept

(* A token goes; nothing else stored changes. *)
LEMMA DropKeepsStores ==
    ASSUME TypeOK, TypeOK', NEW t \in generated, token' = [token EXCEPT ![t] = NoToken],
           UNCHANGED <<userTokens, session, raced, generated, delivered>>
    PROVE  /\ StoresKeep /\ \A v \in User : GrowsMarked(v)
           /\ Dead(t)' /\ \A x \in Token : Live(x)' => x \in generated
<1>1. token'[t] = NoToken /\ \A x \in Token : x # t => token'[x] = token[x]
    BY DEF TypeOK
<1>2. \A x \in generated : Live(x)' => x # t
    BY <1>1 DEF Live
<1> QED BY <1>1, <1>2 DEF StoresKeep, GrowsMarked, Dead, Live, TypeOK

LEMMA DroppingKeepsAccess ==
    ASSUME TypeOK, TypeOK', AccessInv, NEW r \in Request, Dropping(r)
    PROVE  AccessInv'
<1>0. UNCHANGED <<userTokens, session, raced, generated, delivered>>
    BY DEF Dropping, DropMember, WipeToken, EndDrop
<1>1. req[r] \in RequestState /\ LocalsOK(req[r], generated) /\ Safe(req[r])
    BY DEF TypeOK, AccessInv
<1>2. ASSUME NEW t \in generated, token' = [token EXCEPT ![t] = NoToken], Safe(req[r])',
             \A q \in Request : q # r => req'[q] = req[q]
      PROVE  AccessInv'
    <2>1. /\ StoresKeep /\ \A v \in User : GrowsMarked(v)
          /\ \A x \in Token : Live(x)' => x \in generated
        BY <1>0, <1>2, DropKeepsStores
    <2>2. \A q \in Request :
            \/ req'[q] = req[q] /\ (req[q].pc \in {"wipe", "dropIndex"} => GrowsMarked(req[q].user))
            \/ Safe(req[q])'
        BY <1>2, <2>1 DEF TypeOK, LocalsOK
    <2> QED BY <1>0, <2>1, <2>2, AccessKept
<1>3. CASE EndDrop(r)
    <2>1. /\ req[r].tok \in generated /\ token' = [token EXCEPT ![req[r].tok] = NoToken]
          /\ Goto(r, "endUser")
        BY <1>1, <1>3 DEF EndDrop, DropToken, At, LocalsOK
    <2>2. /\ req'[r].pc = "endUser" /\ req'[r].tok = req[r].tok
          /\ \A q \in Request : q # r => req'[q] = req[q]
        BY <2>1, GotoMoves DEF RequestPc
    <2>3. Dead(req[r].tok)'
        <3>1. token'[req[r].tok] = NoToken
            BY <2>1 DEF TypeOK
        <3> QED BY <1>0, <2>1, <2>2, <3>1 DEF Dead, Live
    <2>4. Safe(req[r])'
        BY <2>2, <2>3 DEF Safe
    <2> QED BY <1>2, <2>1, <2>2, <2>4
<1>4. ASSUME NEW p \in {"unindex", "dropIndex"},
             req[r].pc = IF p = "unindex" THEN "drop" ELSE "wipe",
             NEW t \in req[r].todo, DropToken(t),
             req' = [req EXCEPT ![r].todo = @ \ {t},
                                ![r].pc = IF req[r].todo = {t} THEN p ELSE @]
      PROVE  AccessInv'
    <2> DEFINE n == [req[r] EXCEPT !.todo = @ \ {t}, !.pc = IF req[r].todo = {t} THEN p ELSE @]
    <2>1. /\ n.pc = IF req[r].todo = {t} THEN p ELSE req[r].pc
          /\ n.todo = req[r].todo \ {t} /\ n.user = req[r].user
          /\ n.seen = req[r].seen /\ n.doomed = req[r].doomed
        BY <1>1 DEF RequestState
    <2>2. req' = [req EXCEPT ![r] = n]
        BY <1>1, <1>4 DEF TypeOK
    <2> HIDE DEF n
    <2>3. req'[r] = n /\ \A q \in Request : q # r => req'[q] = req[q]
        BY <2>2, NewState
    <2>4. t \in generated /\ token' = [token EXCEPT ![t] = NoToken]
        BY <1>1, <1>4 DEF DropToken, LocalsOK
    <2>5. StoresKeep /\ Dead(t)'
        BY <1>0, <2>4, DropKeepsStores
    <2>6. \A x \in Token : Dead(x) => Dead(x)'
        BY <2>5, DeadStays
    <2>7. generated \subseteq Token
        BY DEF TypeOK
    <2>8. CASE p = "unindex"
        <3>1. req[r].seen \subseteq generated /\ \A x \in req[r].seen \ req[r].todo : Dead(x)
            BY <1>1, <1>4, <2>8 DEF Safe
        <3>2. \A x \in n.seen \ n.todo : Dead(x)'
            BY <2>1, <2>5, <2>6, <2>7, <3>1
        <3>3. n.pc \in {"drop", "unindex"} /\ (n.pc = "unindex" => n.todo = {})
            BY <1>4, <2>1, <2>8
        <3>4. Safe(req[r])'
            BY <1>0, <2>1, <2>3, <3>1, <3>2, <3>3 DEF Safe
        <3> QED BY <1>2, <2>3, <2>4, <3>4
    <2>9. CASE p = "dropIndex"
        <3>1. /\ req[r].user \in raced
                   \/ \A x \in userTokens[req[r].user] : x \in req[r].todo \/ Dead(x)
              /\ \A f \in req[r].doomed : session[f].user = req[r].user
            BY <1>1, <1>4, <2>9 DEF Safe
        <3>2. userTokens[req[r].user] \subseteq generated
            BY <1>1, <1>4, <2>9 DEF TypeOK, LocalsOK
        <3>3. n.user \in raced' \/ \A x \in userTokens'[n.user] : x \in n.todo \/ Dead(x)'
            BY <1>0, <2>1, <2>5, <2>6, <2>7, <3>1, <3>2
        <3>4. n.pc \in {"wipe", "dropIndex"} /\ (n.pc = "dropIndex" => n.todo = {})
            BY <1>4, <2>1, <2>9
        <3>5. Safe(req[r])'
            BY <1>0, <2>1, <2>3, <3>1, <3>3, <3>4 DEF Safe
        <3> QED BY <1>2, <2>3, <2>4, <3>5
    <2> QED BY <2>8, <2>9
<1>5. CASE DropMember(r)
    <2>1. PICK t \in req[r].todo :
            /\ DropToken(t)
            /\ req' = [req EXCEPT ![r].todo = @ \ {t},
                                  ![r].pc = IF req[r].todo = {t} THEN "unindex" ELSE @]
        BY <1>5 DEF DropMember
    <2> QED BY <1>4, <1>5, <2>1 DEF DropMember, At
<1>6. CASE WipeToken(r)
    <2>1. PICK t \in req[r].todo :
            /\ DropToken(t)
            /\ req' = [req EXCEPT ![r].todo = @ \ {t},
                                  ![r].pc = IF req[r].todo = {t} THEN "dropIndex" ELSE @]
        BY <1>6 DEF WipeToken
    <2> QED BY <1>4, <1>6, <2>1 DEF WipeToken, At
<1> QED BY <1>3, <1>5, <1>6 DEF Dropping

LEMMA ExpireKeepsAccess ==
    ASSUME TypeOK, TypeOK', AccessInv, NEW t \in Token, Expire(t) \/ ExpireMark(t)
    PROVE  AccessInv'
<1>1. UNCHANGED <<userTokens, session, raced, generated, delivered, req>>
    BY DEF Expire, ExpireMark, history
<1>2. CASE Expire(t)
    <2>1. t \in generated /\ token' = [token EXCEPT ![t] = NoToken]
        BY <1>2 DEF Expire, TypeOK
    <2>2. /\ StoresKeep /\ \A v \in User : GrowsMarked(v)
          /\ \A x \in Token : Live(x)' => x \in generated
        BY <1>1, <2>1, DropKeepsStores
    <2>3. \A q \in Request :
            req'[q] = req[q] /\ (req[q].pc \in {"wipe", "dropIndex"} => GrowsMarked(req[q].user))
        BY <1>1, <2>2 DEF TypeOK, LocalsOK
    <2> QED BY <1>1, <2>2, <2>3, AccessKept
<1>3. CASE ExpireMark(t)
    BY <1>1, <1>3 DEF ExpireMark, AccessInv, Owned, IndexCoversSessions, Safe, Dead, Live
<1> QED BY <1>2, <1>3

-----------------------------------------------------------------------------
(* A step of one request leaves the others where they are. *)
LEMMA StepsAlone ==
    ASSUME TypeOK, NEW r \in Request, Start(r) \/ Continue(r) \/ Fail(r),
           NEW q \in Request, req'[q] # req[q]
    PROVE  q = r
<1> SUFFICES ASSUME q # r PROVE req'[q] = req[q]
    OBVIOUS
<1>1. ASSUME NEW n, req' = [req EXCEPT ![r] = n] PROVE req'[q] = req[q]
    BY <1>1, NewState
<1>2. CASE Return(r) \/ \E p \in RequestPc : Goto(r, p)
    BY <1>2, ReturnIsCareless, GotoMoves
<1>3. CASE Start(r)
    <2>1. \E n : req' = [req EXCEPT ![r] = n]
        BY <1>3 DEF Start, Login, GetTokenByHash, Logout, LogoutAll, VerifyPassword, Deactivate,
           RevokeSessions
    <2> QED BY <1>1, <2>1
<1>4. CASE IndexUser(r) \/ IndexFamily(r) \/ ReadTTL(r) \/ MarkTokenUsed(r) \/ LoadUser(r)
           \/ UnindexMembers(r) \/ DropFamily(r) \/ DropUserIndex(r) \/ EndDrop(r)
           \/ EndUnindexUser(r) \/ Fail(r)
    BY <1>2, <1>4 DEF IndexUser, IndexFamily, ReadTTL, MarkTokenUsed, LoadUser, UnindexMembers,
       DropFamily, DropUserIndex, EndDrop, EndUnindexUser, Fail, RequestPc
<1>5. CASE \/ ListFamily(r) \/ ReadMembers(r) \/ SetPassword(r) \/ ListUser(r)
           \/ \E t \in Token : CreateToken(r, t)
    BY <1>2, <1>5 DEF ListFamily, ReadMembers, SetPassword, ListUser, CreateToken, TypeOK
<1>6. CASE DropMember(r) \/ WipeToken(r) \/ EndNext(r) \/ EndUnindexFamily(r)
    BY <1>2, <1>6 DEF DropMember, WipeToken, EndNext, EndUnindexFamily, TypeOK
<1> QED BY <1>3, <1>4, <1>5, <1>6 DEF Continue

(* Whoever is about to issue a token was about to before, for the same user, *)
(* or has just read that the user's account is active.                       *)
IssuePc == {"issue", "indexUser", "indexFamily"}

LEMMA StartsActive ==
    ASSUME TypeOK, NEW r \in Request, Start(r), req'[r].pc \in IssuePc
    PROVE  account[req'[r].user].active
<1>1. r \in DOMAIN req
    BY DEF TypeOK
<1>2. ~\E t \in Token : GetTokenByHash(r, t) \/ Logout(r, t)
    <2>1. \A t \in Token : GetTokenByHash(r, t) => req'[r].pc = "ttl"
        BY <1>1 DEF GetTokenByHash, IdleRequest
    <2>2. \A t \in Token : Logout(r, t) => req'[r].pc = "end"
        BY <1>1 DEF Logout, IdleRequest
    <2> QED BY <2>1, <2>2 DEF IssuePc
<1>3. ~\E u \in User :
         LogoutAll(r, u) \/ VerifyPassword(r, u) \/ Deactivate(r, u) \/ RevokeSessions(r, u)
    <2>1. \A u \in User : LogoutAll(r, u) => req'[r].pc = "list"
        BY <1>1 DEF LogoutAll, IdleRequest
    <2>2. \A u \in User : VerifyPassword(r, u) => req'[r].pc = "setPassword"
        BY <1>1 DEF VerifyPassword, IdleRequest
    <2>3. \A u \in User : Deactivate(r, u) => req'[r].pc = "list"
        BY <1>1 DEF Deactivate, IdleRequest
    <2>4. \A u \in User : RevokeSessions(r, u) => req'[r].pc = "end"
        BY <1>1 DEF RevokeSessions, IdleRequest
    <2> QED BY <2>1, <2>2, <2>3, <2>4 DEF IssuePc
<1>4. PICK u \in User, f \in Family : Login(r, u, f)
    BY <1>2, <1>3 DEF Start
<1> DEFINE n == [IdleRequest EXCEPT !.pc = "issue", !.user = u, !.family = f]
<1>5. n.user = u
    BY DEF IdleRequest
<1>6. req' = [req EXCEPT ![r] = n] /\ account[u].active
    BY <1>4 DEF Login
<1> HIDE DEF n
<1> QED BY <1>5, <1>6, NewState

LEMMA GoesOnIssuing ==
    ASSUME TypeOK, NEW r \in Request, Continue(r) \/ Fail(r), req'[r].pc \in IssuePc
    PROVE  /\ req'[r].user = req[r].user
           /\ req[r].pc \in IssuePc \/ account[req[r].user].active
<1>1. req[r] \in RequestState
    BY DEF TypeOK
<1>2. ~Return(r)
    BY ReturnIsCareless DEF IssuePc, Careless
<1>3. \A p \in RequestPc : Goto(r, p) => p \in IssuePc /\ req'[r].user = req[r].user
    BY GotoMoves
<1>4. CASE LoadUser(r) \/ IndexUser(r)
    BY <1>2, <1>3, <1>4 DEF LoadUser, IndexUser, At, IssuePc, RequestPc
<1>5. CASE \E t \in Token : CreateToken(r, t)
    BY <1>1, <1>5 DEF CreateToken, At, IssuePc, TypeOK, RequestState
<1>6. ~\/ IndexFamily(r) \/ ReadTTL(r) \/ MarkTokenUsed(r) \/ UnindexMembers(r) \/ DropFamily(r)
       \/ DropUserIndex(r) \/ EndDrop(r) \/ EndUnindexUser(r) \/ Fail(r)
    BY <1>2, <1>3 DEF IndexFamily, ReadTTL, MarkTokenUsed, UnindexMembers, DropFamily,
       DropUserIndex, EndDrop, EndUnindexUser, Fail, RequestPc, IssuePc
<1>7. ~(ListFamily(r) \/ ReadMembers(r) \/ SetPassword(r) \/ ListUser(r))
    BY <1>1, <1>2 DEF ListFamily, ReadMembers, SetPassword, ListUser, TypeOK, RequestState, IssuePc
<1>8. ~(DropMember(r) \/ WipeToken(r) \/ EndNext(r) \/ EndUnindexFamily(r))
    <2>1. DropMember(r) => req'[r].pc \in {"drop", "unindex"}
        BY <1>1 DEF DropMember, TypeOK, RequestState, At
    <2>2. WipeToken(r) => req'[r].pc \in {"wipe", "dropIndex"}
        BY <1>1 DEF WipeToken, TypeOK, RequestState, At
    <2>3. EndNext(r) => req'[r].pc \in {"end", "endDrop"}
        <3> SUFFICES ASSUME EndNext(r) PROVE req'[r].pc \in {"end", "endDrop"}
            OBVIOUS
        <3>1. PICK t \in req[r].todo :
                \/ req' = [req EXCEPT ![r] = [@ EXCEPT !.pc = "endDrop", !.tok = t,
                                !.user = token[t].user, !.family = token[t].family]]
                \/ req' = [req EXCEPT ![r].todo = @ \ {t}]
            BY <1>2 DEF EndNext
        <3>2. req[r].pc = "end"
            BY DEF EndNext, At
        <3> DEFINE n == [req[r] EXCEPT !.pc = "endDrop", !.tok = t,
                           !.user = token[t].user, !.family = token[t].family]
        <3>3. n.pc = "endDrop"
            BY <1>1 DEF RequestState
        <3>4. \/ req' = [req EXCEPT ![r] = n]
              \/ req' = [req EXCEPT ![r].todo = @ \ {t}]
            BY <3>1
        <3> HIDE DEF n
        <3>5. CASE req' = [req EXCEPT ![r] = n]
            BY <3>3, <3>5, NewState
        <3>6. CASE req' = [req EXCEPT ![r].todo = @ \ {t}]
            BY <1>1, <3>2, <3>6 DEF TypeOK, RequestState
        <3> QED BY <3>4, <3>5, <3>6
    <2>4. EndUnindexFamily(r) => req'[r].pc = "end"
        BY <1>1, <1>2 DEF EndUnindexFamily, TypeOK, RequestState
    <2> QED BY <2>1, <2>2, <2>3, <2>4 DEF IssuePc
<1> QED BY <1>4, <1>5, <1>6, <1>7, <1>8 DEF Continue

LEMMA NextAccessInv == TypeOK /\ AccessInv /\ [Next]_vars => AccessInv'
<1> SUFFICES ASSUME TypeOK, AccessInv, [Next]_vars PROVE AccessInv'
    OBVIOUS
<1>0. TypeOK'
    BY NextTypeOK
<1>1. ASSUME NEW r \in Request, Start(r) PROVE AccessInv'
    BY <1>0, <1>1, StartKeepsAccess, LoginKeepsAccess
<1>2. ASSUME NEW r \in Request, Continue(r) \/ Fail(r) PROVE AccessInv'
    BY <1>0, <1>2, QuietKeepsAccess, CreateTokenKeepsAccess, IndexUserKeepsAccess,
       IndexFamilyKeepsAccess, UnindexKeepsAccess, DroppingKeepsAccess DEF Continue, Dropping
<1>3. ASSUME NEW t \in Token, Expire(t) \/ ExpireMark(t) PROVE AccessInv'
    BY <1>0, <1>3, ExpireKeepsAccess
<1>4. CASE UNCHANGED vars
    BY <1>4 DEF vars, redis, history, AccessInv, Owned, IndexCoversSessions, Safe, Dead, Live
<1> QED BY <1>1, <1>2, <1>3, <1>4 DEF Next

LEMMA InitAccessInv == Init => AccessInv
<1> SUFFICES ASSUME Init PROVE AccessInv
    OBVIOUS
<1>1. \A t \in Token : ~Live(t)
    BY DEF Init, Live
<1>2. \A r \in Request : req[r].pc = "idle"
    BY DEF Init, IdleRequest
<1>3. delivered = {}
    BY DEF Init
<1> QED BY <1>1, <1>2, <1>3 DEF AccessInv, Owned, Safe, IndexCoversSessions

(* What a revocation finds when it returns: no token a client holds of the  *)
(* sessions it was to end, unless its user raced.                           *)
LEMMA ReturnsCovered ==
    ASSUME TypeOK, AccessInv, NEW r \in Request, req[r].pc \in {"list", "dropIndex"},
           req[r].pc = "list" => userTokens[req[r].user] = {},
           NEW t \in delivered, token[t].family \in req[r].doomed
    PROVE  req[r].user \in raced
<1>1. req[r] \in RequestState /\ Safe(req[r]) /\ req[r].user \in User /\ t \in Token
    BY DEF TypeOK, AccessInv, LocalsOK
<1>2. Live(t)
    BY <1>1, NoneAssumption DEF RequestState, Live, NoToken
<1>3. token[t].user = req[r].user
    BY <1>1, <1>2 DEF Safe, AccessInv, Owned
<1>4. CASE req[r].user \notin raced
    <2>1. t \in userTokens[req[r].user]
        BY <1>2, <1>3, <1>4 DEF AccessInv, IndexCoversSessions
    <2>2. req[r].pc = "dropIndex"
        BY <2>1
    <2> QED BY <1>1, <1>2, <1>4, <2>1, <2>2 DEF Safe, Dead
<1> QED BY <1>4

(* A call goes on as one action of its own request. *)
LEMMA ReturningStep ==
    ASSUME TypeOK, NEW r \in Request, [Next]_vars, RevocationReturns(r)
    PROVE  ListUser(r) \/ DropUserIndex(r)
<1>1. req'[r] # req[r] /\ faults' = faults /\ req[r].pc \in {"list", "dropIndex"}
    BY DEF RevocationReturns
<1>2. ASSUME NEW q \in Request, Start(q) \/ Continue(q) \/ Fail(q) PROVE q = r
    BY <1>1, <1>2, StepsAlone
<1>3. ~Fail(r)
    BY <1>1 DEF Fail, TypeOK
<1>4. ~\E t \in Token : Expire(t) \/ ExpireMark(t)
    BY <1>1 DEF Expire, ExpireMark
<1>5. ~Start(r)
    BY <1>1 DEF Start, Login, GetTokenByHash, Logout, LogoutAll, VerifyPassword, Deactivate,
       RevokeSessions, Starts
<1>6. Continue(r)
    BY <1>1, <1>2, <1>3, <1>4, <1>5 DEF Next, vars
<1> QED BY <1>1, <1>6
    DEF Continue, At, IndexUser, IndexFamily, ReadTTL, MarkTokenUsed, LoadUser, ListFamily,
        ReadMembers, DropMember, UnindexMembers, DropFamily, SetPassword, WipeToken, EndNext,
        EndDrop, EndUnindexUser, EndUnindexFamily, CreateToken

LEMMA RevocationEnds ==
    ASSUME TypeOK, AccessInv, [Next]_vars, NEW r \in Request, RevocationReturns(r),
           NEW t \in delivered, token'[t].family \in req[r].doomed
    PROVE  req[r].user \in raced
<1>1. req[r] \in RequestState /\ req'[r].pc = "idle" /\ req[r].pc \in {"list", "dropIndex"}
    BY DEF TypeOK, RevocationReturns
<1>2. CASE ListUser(r)
    <2>1. token' = token
        BY <1>2 DEF ListUser, redis
    <2> DEFINE n == [req[r] EXCEPT !.pc = "wipe", !.todo = userTokens[req[r].user]]
    <2>2. n.pc = "wipe"
        BY <1>1 DEF RequestState
    <2>3. userTokens[req[r].user] = {} \/ req' = [req EXCEPT ![r] = n]
        BY <1>1, <1>2 DEF ListUser, TypeOK
    <2> HIDE DEF n
    <2>4. req[r].pc = "list" => userTokens[req[r].user] = {}
        BY <1>1, <2>2, <2>3, NewState
    <2> QED BY <1>1, <2>1, <2>4, ReturnsCovered
<1>3. CASE DropUserIndex(r)
    <2>1. token' = token /\ req[r].pc = "dropIndex"
        BY <1>3 DEF DropUserIndex, At
    <2> QED BY <1>1, <2>1, ReturnsCovered
<1> QED BY <1>2, <1>3, ReturningStep

(* Of an inactive account nobody comes to be about to issue a token. *)
LEMMA IssuersOnlyFewer ==
    ASSUME TypeOK, [Next]_vars, NEW u \in User, ~account[u].active,
           NEW r \in Request, req'[r].user = u, req'[r].pc \in IssuePc
    PROVE  req[r].user = u /\ req[r].pc \in IssuePc
<1>1. CASE req'[r] = req[r]
    BY <1>1
<1>2. CASE req'[r] # req[r]
    <2>1. ASSUME NEW q \in Request, Start(q) \/ Continue(q) \/ Fail(q) PROVE q = r
        BY <1>2, <2>1, StepsAlone
    <2>2. ~\E t \in Token : Expire(t) \/ ExpireMark(t)
        BY <1>2 DEF Expire, ExpireMark
    <2>3. Start(r) \/ Continue(r) \/ Fail(r)
        BY <1>2, <2>1, <2>2 DEF Next, vars
    <2> QED BY <2>3, StartsActive, GoesOnIssuing
<1> QED BY <1>1, <1>2

(* However logins, refreshes and revocations interleave, nobody is handed a *)
(* token of a deactivated account who was not about to get it, and a        *)
(* revocation that returns has ended every session it was to end, unless an *)
(* issue overlapped a revocation of that user (auth.go:369-396,             *)
(* redis/tokens.go:128-160).                                                *)
THEOREM AccessAlwaysEnds == Spec => AccessEnds
<1>1. Spec => [](TypeOK /\ AccessInv)
    <2>1. Init => TypeOK /\ AccessInv
        BY InitTypeOK, InitAccessInv
    <2>2. TypeOK /\ AccessInv /\ [Next]_vars => TypeOK' /\ AccessInv'
        BY NextTypeOK, NextAccessInv
    <2> QED BY <2>1, <2>2, PTL DEF Spec
<1>2. TypeOK /\ [Next]_vars
        => [\A u \in User : ~account[u].active => Issuers(u)' \subseteq Issuers(u)]_vars
    BY IssuersOnlyFewer DEF Issuers, IssuePc
<1>3. TypeOK /\ AccessInv /\ [Next]_vars
        => [\A r \in Request : RevocationReturns(r) =>
              \A t \in delivered : token[t]'.family \in req[r].doomed => req[r].user \in raced]_vars
    BY RevocationEnds
<1>4. Spec => DeactivationStopsIssuing
    BY <1>1, <1>2, PTL DEF Spec, DeactivationStopsIssuing
<1>5. Spec => RevocationEndsSessions
    BY <1>1, <1>3, PTL DEF Spec, RevocationEndsSessions
<1> QED BY <1>4, <1>5 DEF AccessEnds
=============================================================================
