---------------------------- MODULE Frontend_proofs ----------------------------
(***************************************************************************)
(* Machine-checked facts about what the browser does: about Accounts, for  *)
(* every number of users, requests and tokens; about the chat page, for    *)
(* every number of turns, what it shows of them; and Frontend, which       *)
(* follows either.                                                         *)
(***************************************************************************)
EXTENDS Frontend, SequenceTheorems, FiniteSetTheorems, FunctionTheorems, WellFoundedInduction,
        TLAPS

-----------------------------------------------------------------------------
(* Type correctness.                                                       *)

\* A request has read a token that exists, and every race was a rotation.
ReadIssued ==
  \A r \in Requests : Is(r, "rotate") \/ Is(r, "logout") => requests[r].token \in Issued
RacesBounded == races <= Len(tokens)

TypeInv == TypeOK /\ ReadIssued /\ RacesBounded

\* Of n+1 numbers one is not among n, and a least one is free.
LEMMA FirstFreeType ==
  ASSUME NEW used, IsFiniteSet(used)
  PROVE  FirstFree(used) \in 1..Cardinality(used) + 1
<1> DEFINE n == Cardinality(used)
           free == (1..n + 1) \ used
<1>1. n \in Nat
  BY FS_CardinalityType
<1>2. IsFiniteSet(1..n + 1) /\ Cardinality(1..n + 1) = n + 1
  BY <1>1, FS_Interval
<1>3. free # {}
  <2> SUFFICES ASSUME 1..n + 1 \subseteq used PROVE FALSE
    OBVIOUS
  <2>1. n + 1 <= n
    BY <1>2, FS_Subset
  <2> QED BY <1>1, <2>1
<1>4. PICK x \in free : \A y \in free : ~(<<y, x>> \in OpToRel(<, Nat))
  <2>1. free \subseteq Nat
    BY <1>1
  <2> QED BY ZenonT(30), <1>3, <2>1, NatLessThanWellFounded, WFMin
<1>5. \A m \in 1..x - 1 : m \in used
  <2> SUFFICES ASSUME NEW m \in 1..x - 1, m \notin used PROVE FALSE
    OBVIOUS
  <2>1. m \in free /\ m \in Nat /\ x \in Nat /\ m < x
    BY <1>1
  <2> QED BY <1>4, <2>1 DEF OpToRel
<1>6. x \in 1..n + 1 /\ x \notin used
  OBVIOUS
<1> QED BY <1>5, <1>6 DEF FirstFree

\* The suffixes in use are no more than the users.
LEMMA SlugType ==
  ASSUME TypeOK
  PROVE  FirstFree({slugs[u] : u \in users}) \in 0..Cardinality(Emails) + 1
<1> DEFINE used == {slugs[u] : u \in users}
           f == [u \in users |-> slugs[u]]
<1>1. IsFiniteSet(users) /\ Cardinality(users) <= Cardinality(Emails)
  BY AccountsAssumption, FS_Subset DEF TypeOK
<1>2. f \in Surjection(users, used)
  BY DEF Surjection
<1>3. IsFiniteSet(used) /\ Cardinality(used) <= Cardinality(users)
  BY <1>1, <1>2, FS_Surjection
<1>4. Cardinality(used) \in Nat /\ Cardinality(users) \in Nat /\ Cardinality(Emails) \in Nat
  BY <1>1, <1>3, FS_CardinalityType, AccountsAssumption
<1>5. FirstFree(used) \in 1..Cardinality(used) + 1
  BY <1>3, FirstFreeType
<1> QED BY <1>1, <1>3, <1>4, <1>5

LEMMA InitTypeInv == Init => TypeInv
<1> SUFFICES ASSUME Init PROVE TypeInv
  OBVIOUS
<1>1. Cardinality(Emails) \in Nat
  BY AccountsAssumption, FS_CardinalityType
<1>2. TypeOK
  BY <1>1, AccountsAssumption DEF Init, TypeOK, TokenIds
<1> QED BY <1>2 DEF Init, TypeInv, ReadIssued, RacesBounded, Is

\* A request that ends, or reads without writing.
LEMMA QuietStep ==
  ASSUME TypeInv, NEW r \in Requests, TokensUnchanged, UNCHANGED <<users, slugs>>,
         NEW x \in Registration \cup Presentation \cup {None},
         requests' = [requests EXCEPT ![r] = x],
         x # None /\ x.op \in {"rotate", "logout"} => x.token \in Issued
  PROVE  TypeInv'
BY DEF TypeInv, TypeOK, ReadIssued, RacesBounded, TokensUnchanged, Is, Issued

\* The requests in a step that writes tokens.
RequestsKept ==
  /\ requests' \in [Requests -> Registration \cup Presentation \cup {None}]
  /\ \A r \in Requests : \/ requests'[r] = requests[r]
                         \/ requests'[r] = None
                         \/ Is(r, "rotate") /\ requests'[r].token = requests[r].token

\* A token is appended, others are written over.
LEMMA TokensStep ==
  ASSUME TypeInv, RequestsKept,
         users' \subseteq Emails, slugs' \in [Emails -> 0..Cardinality(Emails) + 1],
         tokens' \in Seq(Token), Len(tokens') <= MaxTokens, Len(tokens) <= Len(tokens'),
         races' \in Nat, races' <= Len(tokens'), condemned' \subseteq TokenIds,
         excused' \subseteq TokenIds
  PROVE  TypeInv'
<1>1. TypeOK'
  BY AccountsAssumption DEF TypeInv, TypeOK, RequestsKept
<1>2. Issued \subseteq Issued'
  BY <1>1 DEF Issued, TypeInv, TypeOK
<1>3. ReadIssued'
  BY <1>2 DEF TypeInv, ReadIssued, Is, RequestsKept
<1> QED BY <1>1, <1>3 DEF TypeInv, RacesBounded

LEMMA NewTokenType ==
  ASSUME NEW u \in Emails, NEW parent \in TokenIds \cup {0}
  PROVE  NewToken(u, parent) \in Token
BY DEF NewToken, Token

LEMMA TokenUpdates ==
  ASSUME NEW x \in Token
  PROVE  /\ [x EXCEPT !.revoked = TRUE] \in Token
         /\ [x EXCEPT !.expired = TRUE] \in Token
         /\ \A n \in TokenIds : [x EXCEPT !.revoked = TRUE, !.replacedBy = n] \in Token
BY DEF Token

LEMMA Overwritten ==
  ASSUME NEW s \in Seq(Token), NEW t \in DOMAIN s, NEW x \in Token
  PROVE  [s EXCEPT ![t] = x] \in Seq(Token) /\ Len([s EXCEPT ![t] = x]) = Len(s)
OBVIOUS

LEMMA NextTypeInv ==
  ASSUME TypeInv, [Next]_vars
  PROVE  TypeInv'
<1> USE DEF TypeInv
<1>1. ASSUME NEW r \in Requests, End(r), UNCHANGED <<users, slugs>>, TokensUnchanged
      PROVE  TypeInv'
  BY <1>1, QuietStep DEF End
<1>2. tokens \in Seq(Token) /\ Len(tokens) \in Nat /\ Len(tokens) <= MaxTokens
      /\ races \in Nat /\ MaxTokens \in Nat /\ races <= Len(tokens)
  BY AccountsAssumption DEF TypeOK, RacesBounded
<1>3. ASSUME NEW r \in Requests, NEW u \in Emails, CheckEmail(r, u) PROVE TypeInv'
  <2> DEFINE x == [op |-> "register", step |-> "checked", user |-> u, slug |-> 0]
  <2>1. x \in Registration
    BY AccountsAssumption, FS_CardinalityType DEF Registration
  <2>2. requests' = [requests EXCEPT ![r] = x] /\ x.op = "register"
    BY <1>3 DEF CheckEmail
  <2> HIDE DEF x
  <2> QED BY <1>3, <2>1, <2>2, QuietStep DEF CheckEmail
<1>4. ASSUME NEW r \in Requests, ChooseSlug(r) PROVE TypeInv'
  <2> DEFINE n == FirstFree({slugs[u] : u \in users})
             x == [requests[r] EXCEPT !.step = "named", !.slug = n]
  <2>1. n \in 0..Cardinality(Emails) + 1
    BY SlugType
  <2>2. requests[r] \in Registration
    BY <1>4 DEF ChooseSlug, Is, TypeOK, Presentation
  <2> HIDE DEF n
  <2>3. x \in Registration /\ x.op = "register"
    BY <2>1, <2>2 DEF Registration
  <2>4. requests' = [requests EXCEPT ![r] = x]
    BY <1>4, <2>2 DEF ChooseSlug, TypeOK, Registration, n
  <2> HIDE DEF x
  <2> QED BY <1>4, <2>3, <2>4, QuietStep DEF ChooseSlug
<1>5. ASSUME NEW r \in Requests, NEW op \in {"rotate", "logout"}, NEW t \in TokenIds,
             Present(r, op, t)
      PROVE  TypeInv'
  <2> DEFINE x == [op |-> op, token |-> t, revoked |-> tokens[t].revoked,
                   expired |-> tokens[t].expired, early |-> FALSE]
  <2>1. t \in Issued /\ tokens[t] \in Token
    BY <1>2, <1>5 DEF Present, Issued
  <2>2. x \in Presentation /\ x.token \in Issued
    BY <2>1 DEF Presentation, Token
  <2>3. requests' = [requests EXCEPT ![r] = x]
    BY <1>5 DEF Present
  <2> HIDE DEF x
  <2> QED BY <1>5, <2>2, <2>3, QuietStep DEF Present
<1>6. ASSUME NEW r \in Requests, Register(r) PROVE TypeInv'
  <2>1. requests[r] \in Registration
    BY <1>6 DEF Register, Is, TypeOK, Presentation
  <2>2. NewToken(requests[r].user, 0) \in Token
    BY <2>1, NewTokenType DEF Registration
  <2>3. RequestsKept
    BY <1>6 DEF Register, End, TypeOK, RequestsKept
  <2>4. users' \subseteq Emails /\ slugs' \in [Emails -> 0..Cardinality(Emails) + 1]
    BY <1>6, <2>1 DEF Register, TypeOK, Registration
  <2>5. tokens' \in Seq(Token) /\ Len(tokens') <= MaxTokens /\ Len(tokens) <= Len(tokens')
    BY <1>2, <1>6, <2>2 DEF Register, Free
  <2>6. UNCHANGED <<races, condemned, excused>>
    BY <1>6 DEF Register
  <2>7. Len(tokens') \in Nat
    BY <2>5
  <2> QED BY <1>2, <2>3, <2>4, <2>5, <2>6, <2>7, TokensStep DEF TypeOK
<1>7. ASSUME NEW u \in Emails, Login(u) PROVE TypeInv'
  <2>1. NewToken(u, 0) \in Token
    BY NewTokenType
  <2>2. tokens' \in Seq(Token) /\ Len(tokens') <= MaxTokens /\ Len(tokens) <= Len(tokens')
        /\ Len(tokens') \in Nat
    BY <1>2, <1>7, <2>1 DEF Login, Free
  <2> QED BY <1>2, <1>7, <2>2, TokensStep DEF Login, TypeOK, RequestsKept
<1>8. ASSUME NEW t \in TokenIds, Expire(t) PROVE TypeInv'
  <2>0. t \in DOMAIN tokens /\ tokens[t] \in Token
    BY <1>2, <1>8 DEF Expire, Issued
  <2>1. tokens' \in Seq(Token) /\ Len(tokens') = Len(tokens)
    <3>1. [tokens[t] EXCEPT !.expired = TRUE] \in Token
      BY <2>0, TokenUpdates, Zenon
    <3>2. tokens' = [tokens EXCEPT ![t] = [tokens[t] EXCEPT !.expired = TRUE]]
      BY <1>8, Zenon DEF Expire
    <3> DEFINE x == [tokens[t] EXCEPT !.expired = TRUE]
    <3> HIDE DEF x
    <3> QED BY <1>2, <2>0, <3>1, <3>2, Overwritten DEF x
  <2> QED BY <1>2, <1>8, <2>1, TokensStep DEF Expire, TypeOK, RequestsKept
<1>9. ASSUME NEW r \in Requests, DetectReuse(r) PROVE TypeInv'
  <2> DEFINE u == tokens[requests[r].token].user
  <2>1. tokens' \in Seq(Token) /\ Len(tokens') = Len(tokens)
    <3>1. \A t \in Issued : RevokedAll(u)[t] \in Token
      <4> SUFFICES ASSUME NEW t \in Issued PROVE RevokedAll(u)[t] \in Token
        OBVIOUS
      <4>1. tokens[t] \in Token
        BY <1>2 DEF Issued
      <4>2. [tokens[t] EXCEPT !.revoked = TRUE] \in Token
        BY <4>1, TokenUpdates, Zenon
      <4> QED BY <4>1, <4>2, Zenon DEF RevokedAll
    <3>2. DOMAIN RevokedAll(u) = 1..Len(tokens)
      BY <1>2 DEF RevokedAll, Issued
    <3> QED BY <1>2, <1>9, <3>1, <3>2 DEF DetectReuse, RevokedAll, Issued
  <2>2. condemned' \subseteq TokenIds
    BY <1>2, <1>9 DEF DetectReuse, Family, Issued, TokenIds, TypeOK
  <2>3. \A q \in Requests : \/ requests'[q] = None \/ requests'[q] = requests[q]
                            \/ /\ Is(q, "rotate")
                               /\ requests'[q] = [requests[q] EXCEPT !.early = TRUE]
    BY <1>9 DEF DetectReuse
  <2>4. \A q \in Requests : Is(q, "rotate") =>
          /\ [requests[q] EXCEPT !.early = TRUE] \in Presentation
          /\ [requests[q] EXCEPT !.early = TRUE].token = requests[q].token
    BY DEF TypeOK, Is, Registration, Presentation
  <2>5. requests' \in [Requests -> Registration \cup Presentation \cup {None}]
    BY <1>9, <2>3, <2>4 DEF DetectReuse, TypeOK
  <2>6. RequestsKept
    <3> DEFINE marked(q) == [requests[q] EXCEPT !.early = TRUE]
    <3>1. \A q \in Requests : \/ requests'[q] = None \/ requests'[q] = requests[q]
                              \/ Is(q, "rotate") /\ requests'[q] = marked(q)
      BY <2>3, Zenon
    <3>2. \A q \in Requests : Is(q, "rotate") => marked(q).token = requests[q].token
      BY <2>4, Zenon
    <3> HIDE DEF marked
    <3> QED BY <2>5, <3>1, <3>2 DEF RequestsKept
  <2>7. users' \subseteq Emails /\ slugs' \in [Emails -> 0..Cardinality(Emails) + 1]
        /\ races' = races /\ excused' \subseteq TokenIds
    BY <1>9 DEF DetectReuse, TypeOK
  <2> QED BY <1>2, <2>1, <2>2, <2>6, <2>7, TokensStep
<1>10. ASSUME NEW r \in Requests, Rotate(r) PROVE TypeInv'
  <2> DEFINE t == requests[r].token
             new == Len(tokens) + 1
  <2>1. t \in Issued /\ t \in TokenIds /\ tokens[t] \in Token /\ new \in TokenIds
    BY <1>2, <1>10, AccountsAssumption DEF Rotate, ReadIssued, Issued, TokenIds, Free
  <2>2. Rotated(t, new) \in Token
    BY <2>1, TokenUpdates, Zenon DEF Rotated
  <2>3. NewToken(tokens[t].user, t) \in Token
    BY <2>1, NewTokenType DEF Token
  <2>4. tokens' \in Seq(Token) /\ Len(tokens') = Len(tokens) + 1
    BY <1>2, <1>10, <2>1, <2>2, <2>3 DEF Rotate, Issued
  <2>5. races' \in Nat /\ races' <= races + 1
    BY <1>2, <1>10 DEF Rotate
  <2>6. excused' \subseteq TokenIds
    BY <1>10, <2>1 DEF Rotate, TypeOK
  <2>7. RequestsKept
    BY <1>10 DEF Rotate, End, TypeOK, RequestsKept
  <2>8. Len(tokens') <= MaxTokens
    BY <1>2, <1>10, <2>4, AccountsAssumption DEF Rotate, Free
  <2>9. users' \subseteq Emails /\ slugs' \in [Emails -> 0..Cardinality(Emails) + 1]
        /\ condemned' \subseteq TokenIds
    BY <1>10 DEF Rotate, TypeOK
  <2>10. Len(tokens) <= Len(tokens') /\ races' <= Len(tokens')
    BY <1>2, <2>4, <2>5
  <2> QED BY <2>4, <2>5, <2>6, <2>7, <2>8, <2>9, <2>10, TokensStep
<1>11. ASSUME NEW r \in Requests, Revoke(r) PROVE TypeInv'
  <2> DEFINE t == requests[r].token
  <2>1. t \in Issued /\ tokens[t] \in Token
    BY <1>2, <1>11 DEF Revoke, ReadIssued, Issued
  <2>2. tokens' \in Seq(Token) /\ Len(tokens') = Len(tokens)
    <3> DEFINE x == [tokens[t] EXCEPT !.revoked = TRUE]
    <3>1. x \in Token
      BY <2>1, TokenUpdates, Zenon
    <3>2. tokens' = tokens \/ tokens' = [tokens EXCEPT ![t] = x]
      BY <1>11, Zenon DEF Revoke
    <3> HIDE DEF x
    <3> QED BY <1>2, <2>1, <3>1, <3>2, Overwritten DEF Issued
  <2>3. RequestsKept
    BY <1>11 DEF Revoke, End, TypeOK, RequestsKept
  <2> QED BY <1>2, <1>11, <2>2, <2>3, TokensStep DEF Revoke, TypeOK
<1>12. ASSUME NEW r \in Requests, RejectExpired(r) \/ Lose(r) PROVE TypeInv'
  BY <1>1, <1>12 DEF RejectExpired, Lose
<1>13. CASE UNCHANGED vars
  BY <1>13 DEF vars, TypeOK, ReadIssued, RacesBounded, Is, Issued
<1> QED
  BY <1>3, <1>4, <1>5, <1>6, <1>7, <1>8, <1>9, <1>10, <1>11, <1>12, <1>13 DEF Next

(* Every user, slug, token and request has its type, in every reachable      *)
(* state: among others a request of rotation has read an issued token.       *)
THEOREM AccountsTyped == Spec => []TypeInv
BY InitTypeInv, NextTypeInv, PTL DEF Spec

-----------------------------------------------------------------------------
(* One line per login.                                                     *)

Unrevoked   == {t \in Issued : ~tokens[t].revoked}
LoginTokens == {t \in Issued : tokens[t].parent = 0}

\* Expiry does not count: a token that expires while it is being rotated ends,
\* and its successor is as fresh as any.
LinesCounted == Cardinality(Unrevoked) <= Cardinality(LoginTokens) + races

\* A step that issues nothing.
OnlyRevokes ==
  /\ Issued' = Issued
  /\ \A t \in Issued : /\ tokens'[t].user = tokens[t].user
                       /\ tokens'[t].parent = tokens[t].parent
                       /\ tokens[t].revoked => tokens'[t].revoked

NewLine(u) == tokens' = Append(tokens, NewToken(u, 0))

LEMMA UpdateKeeps ==
  ASSUME NEW x \in Token
  PROVE  /\ LET y == [x EXCEPT !.revoked = TRUE]
            IN  y.user = x.user /\ y.parent = x.parent /\ y.revoked
         /\ LET y == [x EXCEPT !.expired = TRUE]
            IN  y.user = x.user /\ y.parent = x.parent /\ y.revoked = x.revoked
         /\ \A n \in TokenIds : LET y == [x EXCEPT !.revoked = TRUE, !.replacedBy = n]
                               IN  y.user = x.user /\ y.parent = x.parent /\ y.revoked
BY DEF Token

LEMMA ExpireStep ==
  ASSUME TypeInv, NEW t \in TokenIds, Expire(t)
  PROVE  OnlyRevokes
<1> DEFINE x == [tokens[t] EXCEPT !.expired = TRUE]
<1>1. t \in Issued /\ tokens \in Seq(Token) /\ tokens[t] \in Token
  BY DEF Expire, TypeInv, TypeOK, Issued
<1>2. x.user = tokens[t].user /\ x.parent = tokens[t].parent /\ x.revoked = tokens[t].revoked
  BY <1>1, UpdateKeeps, Zenon
<1>3. tokens' = [tokens EXCEPT ![t] = x]
  BY Zenon DEF Expire
<1> HIDE DEF x
<1> QED BY <1>1, <1>2, <1>3 DEF OnlyRevokes, Issued

LEMMA RevokeStep ==
  ASSUME TypeInv, NEW r \in Requests, Revoke(r)
  PROVE  OnlyRevokes
<1> DEFINE t == requests[r].token
           x == [tokens[t] EXCEPT !.revoked = TRUE]
<1>1. t \in Issued /\ tokens \in Seq(Token) /\ tokens[t] \in Token
  BY DEF Revoke, TypeInv, TypeOK, ReadIssued, Issued
<1>2. x.user = tokens[t].user /\ x.parent = tokens[t].parent /\ x.revoked
  BY <1>1, UpdateKeeps, Zenon
<1>3. tokens' = tokens \/ tokens' = [tokens EXCEPT ![t] = x]
  BY Zenon DEF Revoke
<1> HIDE DEF x
<1> QED BY <1>1, <1>2, <1>3 DEF OnlyRevokes, Issued

\* Everything of the user is revoked, nothing else changes.
LEMMA DetectReuseStep ==
  ASSUME TypeInv, NEW r \in Requests, DetectReuse(r)
  PROVE  /\ OnlyRevokes
         /\ \A t \in Family(tokens[requests[r].token].user) : tokens'[t].revoked
<1> DEFINE u == tokens[requests[r].token].user
           mark(t) == [tokens[t] EXCEPT !.revoked = TRUE]
<1>1. tokens \in Seq(Token) /\ \A t \in Issued : tokens[t] \in Token
  BY DEF TypeInv, TypeOK, Issued
<1>2. \A t \in Issued : /\ mark(t).user = tokens[t].user
                       /\ mark(t).parent = tokens[t].parent /\ mark(t).revoked
  BY <1>1, UpdateKeeps, Zenon
<1>3. tokens' = [t \in Issued |-> IF tokens[t].user = u THEN mark(t) ELSE tokens[t]]
  BY Zenon DEF DetectReuse, RevokedAll
<1> HIDE DEF mark
<1>4. Issued' = Issued
  BY <1>3 DEF Issued
<1> QED BY <1>2, <1>3, <1>4 DEF OnlyRevokes, Family

\* What a step does to the tokens.
LEMMA TokenSteps ==
  ASSUME TypeInv, [Next]_vars
  PROVE  \/ OnlyRevokes /\ races' = races
         \/ races' = races /\ \E u \in Emails : NewLine(u)
         \/ \E r \in Requests : Rotate(r)
<1>1. ASSUME UNCHANGED <<tokens, races>> PROVE OnlyRevokes /\ races' = races
  BY <1>1 DEF OnlyRevokes, Issued
<1>2. ASSUME NEW r \in Requests, NEW u \in Emails, CheckEmail(r, u)
      PROVE  OnlyRevokes /\ races' = races
  BY <1>1, <1>2 DEF CheckEmail, TokensUnchanged
<1>3. ASSUME NEW r \in Requests, NEW op \in {"rotate", "logout"}, NEW t \in TokenIds,
             Present(r, op, t)
      PROVE  OnlyRevokes /\ races' = races
  BY <1>1, <1>3 DEF Present, TokensUnchanged
<1>4. ASSUME NEW r \in Requests, ChooseSlug(r) \/ RejectExpired(r) \/ Lose(r)
      PROVE  OnlyRevokes /\ races' = races
  BY <1>1, <1>4 DEF ChooseSlug, RejectExpired, Lose, TokensUnchanged
<1>5. ASSUME NEW r \in Requests, Register(r)
      PROVE  races' = races /\ (OnlyRevokes \/ \E u \in Emails : NewLine(u))
  <2>1. requests[r] \in Registration
    BY <1>5 DEF Register, Is, TypeInv, TypeOK, Presentation
  <2> QED BY <1>1, <1>5, <2>1 DEF Register, NewLine, Registration
<1>6. ASSUME NEW r \in Requests, DetectReuse(r) PROVE OnlyRevokes /\ races' = races
  BY <1>6, DetectReuseStep DEF DetectReuse
<1>7. ASSUME NEW r \in Requests, Revoke(r) PROVE OnlyRevokes /\ races' = races
  BY <1>7, RevokeStep DEF Revoke
<1>8. ASSUME NEW u \in Emails, Login(u) PROVE races' = races /\ NewLine(u)
  BY <1>8 DEF Login, NewLine
<1>9. ASSUME NEW t \in TokenIds, Expire(t) PROVE OnlyRevokes /\ races' = races
  BY <1>9, ExpireStep DEF Expire
<1>10. CASE UNCHANGED vars
  BY <1>1, <1>10 DEF vars
<1> QED
  BY <1>2, <1>3, <1>4, <1>5, <1>6, <1>7, <1>8, <1>9, <1>10 DEF Next

\* The new token is the last one.
LEMMA NewLineStep ==
  ASSUME TypeInv, NEW u \in Emails, NewLine(u)
  PROVE  LET new == Len(tokens) + 1
         IN  /\ new \notin Issued /\ Issued' = Issued \cup {new}
             /\ \A t \in Issued : tokens'[t] = tokens[t]
             /\ tokens'[new] = NewToken(u, 0)
BY DEF TypeInv, TypeOK, NewLine, Issued

LEMMA RotateStep ==
  ASSUME TypeInv, NEW r \in Requests, Rotate(r)
  PROVE  LET old == requests[r].token
             new == Len(tokens) + 1
         IN  /\ old \in Issued /\ new \notin Issued /\ Issued' = Issued \cup {new}
             /\ \A t \in Issued : t # old => tokens'[t] = tokens[t]
             /\ tokens'[old].revoked /\ tokens'[old].user = tokens[old].user
             /\ tokens'[old].parent = tokens[old].parent
             /\ tokens'[new] = NewToken(tokens[old].user, old)
<1> DEFINE old == requests[r].token
           new == Len(tokens) + 1
           x == Rotated(old, new)
<1>1. /\ old \in Issued /\ tokens \in Seq(Token) /\ tokens[old] \in Token
      /\ Len(tokens) \in Nat /\ new \in TokenIds /\ old \in TokenIds
  BY AccountsAssumption DEF Rotate, TypeInv, TypeOK, ReadIssued, Issued, TokenIds, Free
<1>2. x.user = tokens[old].user /\ x.parent = tokens[old].parent /\ x.revoked
  BY <1>1, UpdateKeeps, Zenon DEF Rotated
<1>3. tokens' = Append([tokens EXCEPT ![old] = x], NewToken(tokens[old].user, old))
  BY Zenon DEF Rotate
<1>4. x \in Token
  BY <1>1, TokenUpdates, Zenon DEF Rotated
<1> DEFINE s == [tokens EXCEPT ![old] = x]
<1>5. s \in Seq(Token) /\ Len(s) = Len(tokens)
  BY <1>1, <1>4, Overwritten DEF Issued
<1>6. s[old] = x /\ \A t \in Issued : t # old => s[t] = tokens[t]
  BY <1>1 DEF Issued
<1> HIDE DEF x, s
<1>7. /\ Len(tokens') = new /\ tokens'[new] = NewToken(tokens[old].user, old)
      /\ DOMAIN tokens' = 1..new
      /\ \A t \in 1..Len(tokens) : tokens'[t] = s[t]
  <2>1. tokens' = Append(s, NewToken(tokens[old].user, old))
    BY <1>3 DEF s
  <2>2. NewToken(tokens[old].user, old) \in Token
    BY <1>1, NewTokenType DEF Token
  <2> QED BY <1>1, <1>5, <2>1, <2>2
<1> QED BY <1>1, <1>2, <1>6, <1>7 DEF Issued

LEMMA TokensFinite ==
  ASSUME TypeInv
  PROVE  /\ IsFiniteSet(Unrevoked) /\ IsFiniteSet(LoginTokens)
         /\ Cardinality(Unrevoked) \in Nat /\ Cardinality(LoginTokens) \in Nat
<1>1. IsFiniteSet(Issued)
  BY FS_Interval DEF TypeInv, TypeOK, Issued
<1>2. IsFiniteSet(Unrevoked) /\ IsFiniteSet(LoginTokens)
  BY <1>1, FS_Subset DEF Unrevoked, LoginTokens
<1> QED BY <1>2, FS_CardinalityType

LEMMA LinesStep ==
  ASSUME TypeInv, LinesCounted, [Next]_vars
  PROVE  LinesCounted'
<1>1. TypeInv'
  BY NextTypeInv
<1>2. /\ races \in Nat /\ races' \in Nat
      /\ IsFiniteSet(Unrevoked) /\ IsFiniteSet(LoginTokens)
      /\ Cardinality(Unrevoked) \in Nat /\ Cardinality(LoginTokens) \in Nat
  BY <1>1, TokensFinite DEF TypeInv, TypeOK
<1>3. CASE OnlyRevokes /\ races' = races
  <2>1. Unrevoked' \subseteq Unrevoked /\ LoginTokens' = LoginTokens
    BY <1>3 DEF OnlyRevokes, Unrevoked, LoginTokens
  <2>2. IsFiniteSet(Unrevoked') /\ Cardinality(Unrevoked') <= Cardinality(Unrevoked)
    BY <1>2, <2>1, FS_Subset
  <2>3. Cardinality(Unrevoked') \in Nat
    BY <2>2, FS_CardinalityType
  <2> QED BY <1>2, <1>3, <2>1, <2>2, <2>3 DEF LinesCounted
<1>4. ASSUME NEW u \in Emails, NewLine(u), races' = races PROVE LinesCounted'
  <2> DEFINE new == Len(tokens) + 1
  <2>0. /\ new \notin Issued /\ Issued' = Issued \cup {new}
        /\ \A t \in Issued : tokens'[t] = tokens[t]
        /\ ~tokens'[new].revoked /\ tokens'[new].parent = 0
    <3>1. tokens'[new] = NewToken(u, 0)
      BY <1>4, NewLineStep
    <3> QED BY <1>4, <3>1, NewLineStep DEF NewToken
  <2> HIDE DEF new
  <2>1. new \notin Unrevoked /\ new \notin LoginTokens
    BY <2>0 DEF Unrevoked, LoginTokens
  <2>2. Unrevoked' = Unrevoked \cup {new}
    <3>1. Unrevoked' = {t \in Issued \cup {new} : ~tokens'[t].revoked}
      BY <2>0, Zenon DEF Unrevoked
    <3> QED BY <2>0, <3>1 DEF Unrevoked
  <2>4. LoginTokens' = LoginTokens \cup {new}
    <3>1. LoginTokens' = {t \in Issued \cup {new} : tokens'[t].parent = 0}
      BY <2>0, Zenon DEF LoginTokens
    <3> QED BY <2>0, <3>1 DEF LoginTokens
  <2>3. /\ Cardinality(Unrevoked \cup {new}) = Cardinality(Unrevoked) + 1
        /\ Cardinality(LoginTokens \cup {new}) = Cardinality(LoginTokens) + 1
    BY <1>2, <2>1, FS_AddElement
  <2> QED BY <1>2, <1>4, <2>2, <2>3, <2>4 DEF LinesCounted
<1>5. ASSUME NEW r \in Requests, Rotate(r) PROVE LinesCounted'
  <2> DEFINE old == requests[r].token
             new == Len(tokens) + 1
  <2>0. /\ old \in Issued /\ new \notin Issued /\ Issued' = Issued \cup {new}
        /\ \A t \in Issued : t # old => tokens'[t] = tokens[t]
        /\ tokens'[old].revoked /\ tokens'[old].parent = tokens[old].parent
        /\ ~tokens'[new].revoked /\ tokens'[new].parent = old
    <3>1. tokens'[new] = NewToken(tokens[old].user, old)
      BY <1>5, RotateStep
    <3>2. ~tokens'[new].revoked /\ tokens'[new].parent = old
      BY <3>1 DEF NewToken
    <3> QED BY <1>5, <3>2, RotateStep
  <2>8. old # 0
    BY <2>0 DEF Issued, TypeInv, TypeOK
  <2>9. old \in Unrevoked \/ races' = races + 1
    BY <1>5, <2>0 DEF Rotate, Unrevoked
  <2>10. races' = races \/ races' = races + 1
    BY <1>5 DEF Rotate
  <2> HIDE DEF old, new
  <2>1. new \notin Unrevoked /\ new \notin Unrevoked \ {old}
    BY <2>0 DEF Unrevoked
  <2>2. Unrevoked' = (Unrevoked \ {old}) \cup {new}
    <3>1. Unrevoked' = {t \in Issued \cup {new} : ~tokens'[t].revoked}
      BY <2>0, Zenon DEF Unrevoked
    <3> QED BY <2>0, <3>1 DEF Unrevoked
  <2>5. LoginTokens' = LoginTokens
    BY <2>0, <2>8 DEF LoginTokens
  <2>3. IsFiniteSet(Unrevoked \ {old})
        /\ Cardinality(Unrevoked \ {old}) =
             IF old \in Unrevoked THEN Cardinality(Unrevoked) - 1 ELSE Cardinality(Unrevoked)
    BY <1>2, FS_RemoveElement
  <2>4. Cardinality((Unrevoked \ {old}) \cup {new}) = Cardinality(Unrevoked \ {old}) + 1
    BY <2>1, <2>3, FS_AddElement
  <2> QED BY <1>2, <2>2, <2>3, <2>4, <2>5, <2>9, <2>10 DEF LinesCounted
<1> QED BY <1>3, <1>4, <1>5, TokenSteps

(* The usable tokens are never more than the logins and the rotations that   *)
(* raced: for every number of requests and however they interleave.          *)
THEOREM LinesBounded == Spec => []OneLinePerLogin
<1>1. Init => LinesCounted
  <2> SUFFICES ASSUME Init PROVE LinesCounted
    OBVIOUS
  <2>1. Unrevoked = {} /\ LoginTokens = {}
    BY DEF Init, Unrevoked, LoginTokens, Issued
  <2> QED BY <2>1, FS_EmptySet DEF LinesCounted, Init
<1>2. TypeInv /\ LinesCounted => OneLinePerLogin
  <2> SUFFICES ASSUME TypeInv, LinesCounted PROVE OneLinePerLogin
    OBVIOUS
  <2> DEFINE usable == {t \in Issued : Active(t)}
  <2>1. usable \subseteq Unrevoked
    BY DEF Active, Unrevoked
  <2>2. Cardinality(usable) <= Cardinality(Unrevoked) /\ IsFiniteSet(usable)
    BY <2>1, TokensFinite, FS_Subset
  <2>3. Cardinality(usable) \in Nat
    BY <2>2, FS_CardinalityType
  <2> QED BY <2>2, <2>3, TokensFinite DEF LinesCounted, OneLinePerLogin, Logins, LoginTokens,
             TypeInv, TypeOK
<1> QED BY InitTypeInv, NextTypeInv, LinesStep, <1>1, <1>2, PTL DEF Spec

-----------------------------------------------------------------------------
(* A detected reuse ends every line of the user.                           *)

\* A token is rotated into one of the same user.
SameUser ==
  \A t \in Issued : tokens[t].parent # 0 =>
    tokens[t].parent \in Issued /\ tokens[tokens[t].parent].user = tokens[t].user

CondemnedRevoked == \A t \in condemned : t \in Issued /\ tokens[t].revoked

\* Whoever still holds a reading of a condemned token from before is marked.
ReadersMarked ==
  \A r \in Requests :
    Is(r, "rotate") /\ ~requests[r].revoked /\ requests[r].token \in condemned =>
      requests[r].early

ChildrenExcused ==
  \A t \in Issued : ~tokens[t].revoked /\ tokens[t].parent \in condemned => t \in excused

ReuseInv == SameUser /\ CondemnedRevoked /\ ReadersMarked /\ ChildrenExcused

\* A step that issues nothing and detects nothing.
LEMMA ReuseQuiet ==
  ASSUME TypeInv, ReuseInv, OnlyRevokes, UNCHANGED <<condemned, excused>>
  PROVE  SameUser' /\ CondemnedRevoked' /\ ChildrenExcused'
<1>1. SameUser'
  BY DEF ReuseInv, SameUser, OnlyRevokes
<1>2. CondemnedRevoked'
  BY DEF ReuseInv, CondemnedRevoked, OnlyRevokes
<1>3. ChildrenExcused'
  BY DEF ReuseInv, ChildrenExcused, OnlyRevokes
<1> QED BY <1>1, <1>2, <1>3

LEMMA ReuseNewLine ==
  ASSUME TypeInv, ReuseInv, NEW u \in Emails, NewLine(u), UNCHANGED <<condemned, excused>>
  PROVE  SameUser' /\ CondemnedRevoked' /\ ChildrenExcused'
<1> DEFINE new == Len(tokens) + 1
<1>1. /\ new \notin Issued /\ Issued' = Issued \cup {new}
      /\ \A t \in Issued : tokens'[t] = tokens[t]
      /\ tokens'[new].parent = 0
  <2>1. tokens'[new] = NewToken(u, 0)
    BY NewLineStep
  <2> QED BY <2>1, NewLineStep DEF NewToken
<1>2. 0 \notin condemned
  BY DEF TypeInv, TypeOK, TokenIds
<1> HIDE DEF new
<1>3. SameUser'
  BY <1>1 DEF ReuseInv, SameUser
<1>4. CondemnedRevoked'
  BY <1>1 DEF ReuseInv, CondemnedRevoked
<1>5. ChildrenExcused'
  BY <1>1, <1>2 DEF ReuseInv, ChildrenExcused
<1> QED BY <1>3, <1>4, <1>5

LEMMA ReadersQuiet ==
  ASSUME ReuseInv, condemned' = condemned,
         \A r \in Requests : \/ requests'[r] = requests[r]
                            \/ requests'[r] = None
                            \/ requests'[r].op # "rotate"
  PROVE  ReadersMarked'
BY DEF ReuseInv, ReadersMarked, Is

\* A successor of a condemned token comes from a marked reader.
LEMMA ReuseRotate ==
  ASSUME TypeInv, ReuseInv, NEW r \in Requests, Rotate(r)
  PROVE  ReuseInv'
<1> DEFINE old == requests[r].token
           new == Len(tokens) + 1
<1>1. /\ old \in Issued /\ new \notin Issued /\ Issued' = Issued \cup {new}
      /\ \A t \in Issued : t # old => tokens'[t] = tokens[t]
      /\ tokens'[old].revoked /\ tokens'[old].parent = tokens[old].parent
      /\ tokens'[old].user = tokens[old].user
      /\ tokens'[new].user = tokens[old].user /\ tokens'[new].parent = old
  <2>1. tokens'[new] = NewToken(tokens[old].user, old)
    BY RotateStep
  <2>2. tokens'[new].user = tokens[old].user /\ tokens'[new].parent = old
    BY <2>1 DEF NewToken
  <2> QED BY <2>2, RotateStep
<1>2. condemned' = condemned /\ excused \subseteq excused'
  BY DEF Rotate
<1>3. old \in condemned => new \in excused'
  <2>1. old \in condemned => requests[r].early
    BY DEF ReuseInv, ReadersMarked, Rotate
  <2> QED BY <2>1 DEF Rotate
<1>4. ReadersMarked'
  BY <1>2, ReadersQuiet DEF Rotate, End, TypeInv, TypeOK
<1> HIDE DEF old, new
<1>5. SameUser'
  BY <1>1 DEF ReuseInv, SameUser
<1>6. CondemnedRevoked'
  BY <1>1, <1>2 DEF ReuseInv, CondemnedRevoked
<1>7. ChildrenExcused'
  BY <1>1, <1>2, <1>3 DEF ReuseInv, ChildrenExcused
<1> QED BY <1>4, <1>5, <1>6, <1>7 DEF ReuseInv

\* All lines of the user end, whatever they have been rotated into.
LEMMA ReuseDetected ==
  ASSUME TypeInv, ReuseInv, NEW r \in Requests, DetectReuse(r)
  PROVE  ReuseInv'
<1> DEFINE u == tokens[requests[r].token].user
           family == Family(u)
<1>1. /\ OnlyRevokes /\ \A t \in family : tokens'[t].revoked
      /\ condemned' = condemned \cup family /\ excused' = excused
  BY DetectReuseStep DEF DetectReuse
<1>2. family = {t \in Issued : tokens[t].user = u}
  BY DEF Family
<1>3. ReadersMarked'
  <2> DEFINE marked(q) == [requests[q] EXCEPT !.early = TRUE]
  <2>1. \A x \in Presentation : /\ [x EXCEPT !.early = TRUE].early
                               /\ [x EXCEPT !.early = TRUE].token = x.token
    BY DEF Presentation
  <2>2. \A q \in Requests : Is(q, "rotate") => requests[q] \in Presentation
    BY DEF TypeInv, TypeOK, Is, Registration
  <2>3. \A q \in Requests : Is(q, "rotate") => marked(q).early /\ marked(q).token = requests[q].token
    BY <2>1, <2>2, Zenon
  <2>4. \A q \in Requests :
          requests'[q] = IF q = r THEN None
                         ELSE IF Is(q, "rotate") /\ requests[q].token \in family
                         THEN marked(q) ELSE requests[q]
    BY Zenon DEF DetectReuse
  <2>5. \A q \in Requests : Is(q, "rotate") => requests[q].token \in Issued
    BY DEF TypeInv, ReadIssued
  <2> HIDE DEF marked, family
  <2> QED BY <1>1, <2>3, <2>4, <2>5 DEF ReuseInv, ReadersMarked, Is
<1> HIDE DEF u, family
<1>4. SameUser'
  BY <1>1 DEF ReuseInv, SameUser, OnlyRevokes
<1>5. CondemnedRevoked'
  BY <1>1, <1>2 DEF ReuseInv, CondemnedRevoked, OnlyRevokes
<1>6. ChildrenExcused'
  <2> SUFFICES ASSUME NEW t \in Issued, ~tokens'[t].revoked, tokens[t].parent \in condemned'
               PROVE  t \in excused
    BY <1>1 DEF ChildrenExcused, OnlyRevokes
  <2>1. ~tokens[t].revoked /\ t \notin family
    BY <1>1 DEF OnlyRevokes
  <2>2. tokens[t].parent \notin family
    <3> SUFFICES ASSUME tokens[t].parent \in family PROVE FALSE
      OBVIOUS
    <3>1. tokens[t].parent # 0
      BY <1>2 DEF Issued, TypeInv, TypeOK
    <3> QED BY <1>2, <2>1, <3>1 DEF ReuseInv, SameUser
  <2> QED BY <1>1, <2>1, <2>2 DEF ReuseInv, ChildrenExcused
<1> QED BY <1>3, <1>4, <1>5, <1>6 DEF ReuseInv

LEMMA ReuseStep ==
  ASSUME TypeInv, ReuseInv, [Next]_vars
  PROVE  ReuseInv'
<1>1. ASSUME UNCHANGED <<tokens, condemned, excused>>,
             \A r \in Requests : \/ requests'[r] = requests[r]
                                \/ requests'[r] = None
                                \/ requests'[r].op # "rotate"
      PROVE  ReuseInv'
  <2>1. OnlyRevokes
    BY <1>1 DEF OnlyRevokes, Issued
  <2> QED BY <1>1, <2>1, ReuseQuiet, ReadersQuiet DEF ReuseInv
<1>2. ASSUME NEW r \in Requests, NEW u \in Emails, CheckEmail(r, u) PROVE ReuseInv'
  BY <1>1, <1>2 DEF CheckEmail, TokensUnchanged, TypeInv, TypeOK
<1>3. ASSUME NEW r \in Requests, ChooseSlug(r) PROVE ReuseInv'
  <2>1. requests[r] \in Registration
    BY <1>3 DEF ChooseSlug, Is, TypeInv, TypeOK, Presentation
  <2>2. requests'[r].op # "rotate"
    BY <1>3, <2>1 DEF ChooseSlug, TypeInv, TypeOK, Registration
  <2>3. \A q \in Requests : q # r => requests'[q] = requests[q]
    BY <1>3, <2>1 DEF ChooseSlug, TypeInv, TypeOK, Registration
  <2> QED BY <1>1, <1>3, <2>2, <2>3 DEF ChooseSlug, TokensUnchanged
<1>4. ASSUME NEW r \in Requests, RejectExpired(r) \/ Lose(r) PROVE ReuseInv'
  BY <1>1, <1>4 DEF RejectExpired, Lose, End, TokensUnchanged, TypeInv, TypeOK
<1>5. ASSUME NEW r \in Requests, NEW op \in {"rotate", "logout"}, NEW t \in TokenIds,
             Present(r, op, t)
      PROVE  ReuseInv'
  <2>1. OnlyRevokes /\ UNCHANGED <<condemned, excused>>
    BY <1>5 DEF Present, TokensUnchanged, OnlyRevokes, Issued
  <2>2. requests'[r].token = t /\ requests'[r].revoked = tokens[t].revoked
    BY <1>5 DEF Present, TypeInv, TypeOK
  <2>3. \A q \in Requests : q # r => requests'[q] = requests[q]
    BY <1>5 DEF Present, TypeInv, TypeOK
  <2>4. ReadersMarked'
    BY <2>1, <2>2, <2>3 DEF ReuseInv, ReadersMarked, CondemnedRevoked, Is
  <2> QED BY <2>1, <2>4, ReuseQuiet DEF ReuseInv
<1>6. ASSUME NEW r \in Requests, Register(r) PROVE ReuseInv'
  <2>1. requests[r] \in Registration
    BY <1>6 DEF Register, Is, TypeInv, TypeOK, Presentation
  <2>2. UNCHANGED <<condemned, excused>> /\ (tokens' = tokens \/ \E u \in Emails : NewLine(u))
    BY <1>6, <2>1 DEF Register, NewLine, Registration
  <2>3. \A q \in Requests : requests'[q] = requests[q] \/ requests'[q] = None
    BY <1>6 DEF Register, End, TypeInv, TypeOK
  <2>4. CASE tokens' = tokens
    BY <1>1, <2>2, <2>3, <2>4
  <2>5. CASE \E u \in Emails : NewLine(u)
    BY <2>2, <2>3, <2>5, ReuseNewLine, ReadersQuiet DEF ReuseInv
  <2> QED BY <2>2, <2>4, <2>5
<1>7. ASSUME NEW u \in Emails, Login(u) PROVE ReuseInv'
  <2>1. NewLine(u) /\ UNCHANGED <<requests, condemned, excused>>
    BY <1>7 DEF Login, NewLine
  <2> QED BY <2>1, ReuseNewLine, ReadersQuiet DEF ReuseInv
<1>8. ASSUME NEW t \in TokenIds, Expire(t) PROVE ReuseInv'
  <2>1. OnlyRevokes /\ UNCHANGED <<requests, condemned, excused>>
    BY <1>8, ExpireStep DEF Expire
  <2> QED BY <2>1, ReuseQuiet, ReadersQuiet DEF ReuseInv
<1>9. ASSUME NEW r \in Requests, Revoke(r) PROVE ReuseInv'
  <2>1. OnlyRevokes /\ UNCHANGED <<condemned, excused>>
    BY <1>9, RevokeStep DEF Revoke
  <2>2. \A q \in Requests : requests'[q] = requests[q] \/ requests'[q] = None
    BY <1>9 DEF Revoke, End, TypeInv, TypeOK
  <2> QED BY <2>1, <2>2, ReuseQuiet, ReadersQuiet DEF ReuseInv
<1>10. CASE UNCHANGED vars
  BY <1>1, <1>10 DEF vars
<1> QED
  BY <1>2, <1>3, <1>4, <1>5, <1>6, <1>7, <1>8, <1>9, <1>10, ReuseRotate, ReuseDetected DEF Next

(* Once a reuse is detected, no token that existed then is usable and none   *)
(* that was rotated out of it, except by a request that had read it before.  *)
THEOREM ReuseContained == Spec => []ReuseIsContained
<1>1. Init => ReuseInv
  BY DEF Init, ReuseInv, SameUser, CondemnedRevoked, ReadersMarked, ChildrenExcused, Issued, Is
<1>2. ReuseInv => ReuseIsContained
  BY DEF ReuseInv, CondemnedRevoked, ChildrenExcused, ReuseIsContained, Active
<1> QED BY InitTypeInv, NextTypeInv, ReuseStep, <1>1, <1>2, PTL DEF Spec

-----------------------------------------------------------------------------
(* The page.                                                               *)

\* Of any natural numbers one is the least.
LEMMA LeastNatural ==
  ASSUME NEW T \in SUBSET Nat, T # {}
  PROVE  \E m \in T : \A n \in T : m <= n
<1>1. PICK m \in T : \A n \in T : ~(<<n, m>> \in OpToRel(<, Nat))
  BY NatLessThanWellFounded, WFMin
<1>2. \A n \in T : ~(n < m)
  BY <1>1 DEF OpToRel
<1> QED
  BY <1>2

\* The turns the user has stayed with.
Alone == Page!Sent \ disturbed

Answers(t) == Page!Count(t, {"answer", "partial"})

ShownWereSent ==
  /\ \A n \in DOMAIN shown : shown[n].turn \in Page!Sent
  /\ \A t \in Page!Turns : stored[t] # "nothing" => t \in Page!Sent
  /\ IF ref.turn = None THEN Page!Sent = {} ELSE ref.turn \in Page!Sent

\* What streamRef holds belongs to the open stream of a turn left alone, and
\* nothing else writes to it.
OneStreamOpen ==
  \A t \in Alone :
    /\ t \in Page!OpenNow => ref.turn = t
    /\ ref.turn = t => Page!OpenNow \subseteq {t}

NotAnsweredYet ==
  \A t \in Alone : t \in Page!OpenNow =>
    /\ ~ref.finalized => Answers(t) = 0
    /\ streams[t] \in {"sent", "open", "tokens"} => ~ref.finalized

PageInv == Page!TypeOK /\ ShownWereSent /\ OneStreamOpen /\ NotAnsweredYet /\ Page!TurnIsShownOnce

\* The page counts as the library does.
LEMMA PageCounts == \A S : Page!Cardinality(S) = Cardinality(S)
BY Zenon DEF Page!Cardinality, Cardinality

LEMMA CountIsNat ==
  ASSUME shown \in Seq(Page!Line), NEW t, NEW kinds
  PROVE  /\ Page!Count(t, kinds) \in Nat
         /\ IsFiniteSet({n \in DOMAIN shown : shown[n].turn = t /\ shown[n].kind \in kinds})
<1>1. IsFiniteSet(1 .. Len(shown))
  BY FS_Interval
<1>2. DOMAIN shown = 1 .. Len(shown)
  OBVIOUS
<1>3. IsFiniteSet({n \in DOMAIN shown : shown[n].turn = t /\ shown[n].kind \in kinds})
  BY <1>1, <1>2, FS_Subset
<1> QED BY <1>3, FS_CardinalityType, PageCounts DEF Page!Count

LEMMA CountAppended ==
  ASSUME shown \in Seq(Page!Line), NEW l \in Page!Line, shown' = Append(shown, l),
         NEW t, NEW kinds
  PROVE  Page!Count(t, kinds)' =
           Page!Count(t, kinds) + (IF l.turn = t /\ l.kind \in kinds THEN 1 ELSE 0)
<1> DEFINE S == {n \in DOMAIN shown : shown[n].turn = t /\ shown[n].kind \in kinds}
           R == {n \in DOMAIN shown' : shown'[n].turn = t /\ shown'[n].kind \in kinds}
           m == Len(shown) + 1
<1>1. /\ DOMAIN shown = 1 .. Len(shown) /\ DOMAIN shown' = 1 .. m /\ Len(shown) \in Nat
      /\ shown'[m] = l /\ \A n \in 1 .. Len(shown) : shown'[n] = shown[n]
  OBVIOUS
<1>2. IsFiniteSet(S) /\ Page!Count(t, kinds) = Cardinality(S) /\ Cardinality(S) \in Nat
  BY CountIsNat, FS_CardinalityType, PageCounts DEF Page!Count
<1>3. Page!Count(t, kinds)' = Cardinality(R)
  BY PageCounts DEF Page!Count
<1>4. m \notin S
  BY <1>1
<1>5. CASE l.turn = t /\ l.kind \in kinds
  <2>1. R = S \cup {m}
    BY <1>1, <1>5
  <2>2. Cardinality(S \cup {m}) = Cardinality(S) + 1
    <3> HIDE DEF S, m
    <3> QED BY <1>2, <1>4, FS_AddElement
  <2> QED BY <1>2, <1>3, <1>5, <2>1, <2>2
<1>6. CASE ~(l.turn = t /\ l.kind \in kinds)
  <2>1. R = S
    BY <1>1, <1>6
  <2>2. (IF l.turn = t /\ l.kind \in kinds THEN 1 ELSE 0) = 0
    BY <1>6, Zenon
  <2>3. Page!Count(t, kinds)' = Page!Count(t, kinds) /\ Page!Count(t, kinds) \in Nat
    BY <1>2, <1>3, <2>1
  <2> QED BY <2>2, <2>3
<1> QED BY <1>5, <1>6

LEMMA CountStays ==
  ASSUME shown' = shown, NEW t, NEW kinds
  PROVE  Page!Count(t, kinds)' = Page!Count(t, kinds)
BY DEF Page!Count

LEMMA NotShownNotCounted ==
  ASSUME NEW t, NEW kinds, \A n \in DOMAIN shown : shown[n].turn # t
  PROVE  Page!Count(t, kinds) = 0
BY FS_EmptySet, PageCounts DEF Page!Count

LEMMA FewerKinds ==
  ASSUME shown \in Seq(Page!Line), NEW t, Answers(t) = 0
  PROVE  Page!Count(t, {"answer"}) = 0
<1> DEFINE S == {n \in DOMAIN shown : shown[n].turn = t /\ shown[n].kind \in {"answer", "partial"}}
<1>1. S = {}
  BY CountIsNat, FS_EmptySet, FS_CardinalityType, PageCounts DEF Answers, Page!Count
<1>2. {n \in DOMAIN shown : shown[n].turn = t /\ shown[n].kind \in {"answer"}} = {}
  BY <1>1
<1> QED BY <1>2, FS_EmptySet, PageCounts DEF Page!Count

\* A step in the stream of one turn: it moves, and at most one line is shown.
LEMMA EventStep ==
  ASSUME PageInv, Page!TypeOK', UNCHANGED disturbed,
         NEW t \in Page!OpenNow, NEW phase \in Page!Phases \ {"idle"}, Page!Phase(t, phase),
         ref'.turn = ref.turn, ref.finalized => ref'.finalized,
         \A u \in Page!Turns : stored'[u] # stored[u] => u = t,
         \/ UNCHANGED shown
         \/ \E kind \in {"answer", "partial"} :
              /\ shown' = Append(shown, [turn |-> ref.turn, kind |-> kind])
              /\ ~ref.finalized /\ ref'.finalized
         \/ shown' = Append(shown, [turn |-> t, kind |-> "error"]),
         phase \in {"sent", "open", "tokens"} =>
           streams[t] \in {"sent", "open", "tokens"} /\ ref'.finalized = ref.finalized,
         t \in Alone /\ phase = "ended" /\ stored'[t] = "answer" /\ ref'.text =>
           Page!Count(t, {"answer"})' = 1
  PROVE  PageInv'
<1> USE DEF PageInv
<1>1. /\ t \in Page!Turns /\ streams[t] \notin {"idle", "closed"} /\ t \in Page!Sent
      /\ streams'[t] = phase /\ \A u \in Page!Turns : u # t => streams'[u] = streams[u]
      /\ streams' \in [Page!Turns -> Page!Phases]
  BY DEF Page!OpenNow, Page!Sent, Page!Phase, Page!TypeOK
<1>2. Page!Sent' = Page!Sent /\ Alone' = Alone /\ Page!OpenNow' \subseteq Page!OpenNow
      /\ (Page!OpenNow' \subseteq Page!OpenNow /\ Page!OpenNow \subseteq Page!OpenNow' \cup {t})
  BY <1>1 DEF Page!Sent, Alone, Page!OpenNow
<1>3. ref.turn \in Page!Sent /\ ref.turn \in Page!Turns
  BY <1>1 DEF ShownWereSent, Page!Sent
<1>4. shown \in Seq(Page!Line) /\ shown' \in Seq(Page!Line)
  BY DEF Page!TypeOK
<1>5. ShownWereSent'
  <2>1. \A n \in DOMAIN shown' : shown'[n].turn \in Page!Sent
    <3>1. CASE UNCHANGED shown
      BY <3>1 DEF ShownWereSent
    <3>2. ASSUME NEW l \in Page!Line, shown' = Append(shown, l), l.turn \in Page!Sent
          PROVE  \A n \in DOMAIN shown' : shown'[n].turn \in Page!Sent
      BY <1>4, <3>2 DEF ShownWereSent
    <3>3. \A kind \in Page!Kinds :
            /\ [turn |-> ref.turn, kind |-> kind] \in Page!Line
            /\ [turn |-> t, kind |-> kind] \in Page!Line
      BY <1>1, <1>3 DEF Page!Line
    <3> QED BY <1>1, <1>3, <3>1, <3>2, <3>3 DEF Page!Kinds
  <2>2. \A u \in Page!Turns : stored'[u] # "nothing" => u \in Page!Sent
    BY <1>1 DEF ShownWereSent
  <2>3. IF ref'.turn = None THEN Page!Sent = {} ELSE ref'.turn \in Page!Sent
    BY DEF ShownWereSent
  <2> QED BY <1>2, <2>1, <2>2, <2>3 DEF ShownWereSent, Page!Turns
<1>6. OneStreamOpen'
  BY <1>2 DEF OneStreamOpen
<1>7. \A u \in Alone : u # t => u \notin Page!OpenNow /\ u # ref.turn
  BY <1>1, <1>2 DEF OneStreamOpen
<1>8. t \in Alone => ref.turn = t
  BY DEF OneStreamOpen
<1> DEFINE Stays(u) == Page!Count(u, {"question"})' = Page!Count(u, {"question"})
           Same(u)  == Answers(u)' = Answers(u)
           First    == ~ref.finalized /\ ref'.finalized /\ Answers(t)' = Answers(t) + 1
           Follows  == (\A u : Stays(u)) /\ (\A u : u # t /\ u # ref.turn => Same(u))
                       /\ (t = ref.turn => Same(t) \/ First)
<1>9. \A u : Page!Count(u, {"question"}) \in Nat /\ Answers(u) \in Nat
  BY <1>4, CountIsNat DEF Answers
<1>10. ASSUME UNCHANGED shown PROVE Follows
  BY <1>10, CountStays DEF Answers
<1>11. ASSUME NEW kind \in {"answer", "partial"}, ~ref.finalized, ref'.finalized,
              shown' = Append(shown, [turn |-> ref.turn, kind |-> kind])
       PROVE  Follows
  <2> DEFINE l == [turn |-> ref.turn, kind |-> kind]
  <2>1. l \in Page!Line /\ l.turn = ref.turn /\ l.kind = kind
    BY <1>3 DEF Page!Line, Page!Kinds
  <2>2. shown' = Append(shown, l)
    BY <1>11
  <2> HIDE DEF l
  <2>3. \A u, kinds : Page!Count(u, kinds)' =
          Page!Count(u, kinds) + (IF l.turn = u /\ l.kind \in kinds THEN 1 ELSE 0)
    BY <1>4, <2>1, <2>2, CountAppended
  <2>4. \A u : Stays(u)
    BY <1>9, <2>1, <2>3
  <2>5. \A u : u # ref.turn => Same(u)
    BY <1>9, <2>1, <2>3 DEF Answers
  <2>6. t = ref.turn => Answers(t)' = Answers(t) + 1
    BY <1>9, <2>1, <2>3 DEF Answers
  <2> QED BY <1>11, <2>4, <2>5, <2>6
<1>12. ASSUME shown' = Append(shown, [turn |-> t, kind |-> "error"])
       PROVE  Follows
  <2> DEFINE l == [turn |-> t, kind |-> "error"]
  <2>1. l \in Page!Line /\ l.kind = "error"
    BY <1>1 DEF Page!Line, Page!Kinds
  <2>2. shown' = Append(shown, l)
    BY <1>12
  <2> HIDE DEF l
  <2>3. \A u, kinds : Page!Count(u, kinds)' =
          Page!Count(u, kinds) + (IF l.turn = u /\ l.kind \in kinds THEN 1 ELSE 0)
    BY <1>4, <2>1, <2>2, CountAppended
  <2>4. \A u : Stays(u)
    BY <1>9, <2>1, <2>3
  <2>5. \A u : Same(u)
    BY <1>9, <2>1, <2>3 DEF Answers
  <2> QED BY <2>4, <2>5
<1>13. Follows
  BY <1>10, <1>11, <1>12
<1> HIDE DEF Follows
<1>14. NotAnsweredYet'
  <2> SUFFICES ASSUME t \in Alone, t \in Page!OpenNow'
               PROVE  /\ ~ref'.finalized => Answers(t)' = 0
                      /\ phase \in {"sent", "open", "tokens"} => ~ref'.finalized
    BY <1>1, <1>2, <1>7 DEF NotAnsweredYet
  <2>1. ~ref'.finalized => Answers(t)' = 0
    <3>1. SUFFICES ASSUME ~ref'.finalized PROVE Answers(t)' = 0
      OBVIOUS
    <3>2. Answers(t)' = Answers(t)
      BY <1>8, <1>13, <3>1 DEF Follows
    <3>3. Answers(t) = 0
      BY <3>1 DEF NotAnsweredYet
    <3> QED BY <3>2, <3>3
  <2>2. phase \in {"sent", "open", "tokens"} => ~ref'.finalized
    BY <1>1 DEF NotAnsweredYet
  <2> QED BY <2>1, <2>2
<1>15. Page!TurnIsShownOnce'
  <2> SUFFICES ASSUME NEW u \in Alone
               PROVE  /\ Page!Count(u, {"question"})' = 1
                      /\ Answers(u)' <= 1
                      /\ streams'[u] = "ended" /\ stored'[u] = "answer" /\ ref'.text =>
                           Page!Count(u, {"answer"})' = 1
    BY <1>2 DEF Page!TurnIsShownOnce, Answers, Alone, Page!Sent, Page!Turns
  <2>1. Page!Count(u, {"question"}) = 1 /\ Answers(u) <= 1
    BY DEF Page!TurnIsShownOnce, Answers, Alone, Page!Sent
  <2>2. Page!Count(u, {"question"})' = 1
    BY <1>13, <2>1 DEF Follows
  <2>3. Answers(u)' <= 1
    <3>1. CASE u # t
      BY <1>7, <1>13, <2>1, <3>1 DEF Follows
    <3>2. CASE u = t
      <4>1. ~ref.finalized => Answers(t) = 0
        BY <3>2 DEF NotAnsweredYet
      <4>2. Answers(t)' = Answers(t) \/ First
        BY <1>8, <1>13, <3>2 DEF Follows
      <4> QED BY <2>1, <3>2, <4>1, <4>2
    <3> QED BY <3>1, <3>2
  <2>4. ASSUME streams'[u] = "ended", stored'[u] = "answer", ref'.text
        PROVE  Page!Count(u, {"answer"})' = 1
    <3>1. u \in Page!Turns
      BY DEF Alone, Page!Sent
    <3>2. u = t
      BY <1>1, <1>7, <2>4, <3>1 DEF Page!OpenNow
    <3> QED BY <1>1, <2>4, <3>2
  <2> QED BY <2>2, <2>3, <2>4
<1> QED BY <1>5, <1>6, <1>14, <1>15

\* A step that leaves no turn alone.
LEMMA NobodyAlone ==
  ASSUME Page!TypeOK', ShownWereSent', Page!Sent' \subseteq disturbed'
  PROVE  PageInv'
<1>1. Alone' = {}
  BY DEF Alone
<1>2. OneStreamOpen' /\ NotAnsweredYet'
  BY <1>1 DEF OneStreamOpen, NotAnsweredYet
<1>3. Page!TurnIsShownOnce'
  BY <1>1 DEF Alone, Page!Sent, Page!Turns, Page!TurnIsShownOnce
<1> QED BY <1>2, <1>3 DEF PageInv

LEMMA LineShown ==
  ASSUME shown \in Seq(Page!Line), NEW l \in Page!Line, shown' = Append(shown, l)
  PROVE  /\ shown' \in Seq(Page!Line)
         /\ \A n \in DOMAIN shown' :
              shown'[n] = l \/ (n \in DOMAIN shown /\ shown'[n] = shown[n])
<1>1. shown' \in Seq(Page!Line) /\ Len(shown') = Len(shown) + 1 /\ Len(shown) \in Nat
  OBVIOUS
<1>2. shown'[Len(shown) + 1] = l /\ \A n \in 1 .. Len(shown) : shown'[n] = shown[n]
  OBVIOUS
<1>3. DOMAIN shown = 1 .. Len(shown) /\ DOMAIN shown' = 1 .. Len(shown')
  BY <1>1
<1>4. \A n \in 1 .. Len(shown) + 1 : n \in 1 .. Len(shown) \/ n = Len(shown) + 1
  BY <1>1
<1> QED BY <1>1, <1>2, <1>3, <1>4

\* Sending: the turn is new, and its stream is the only one of a turn left alone.
LEMMA Opened ==
  ASSUME Page!TypeOK, NEW t \in Page!Turns, Page!OpenStream(t)
  PROVE  /\ streams[t] = "idle" /\ streams'[t] = "sent"
         /\ \A u \in Page!Turns : u # t => streams'[u] = streams[u]
         /\ t \notin Page!Sent /\ Page!Sent' = Page!Sent \cup {t}
         /\ t \notin Page!OpenNow /\ Page!OpenNow' = Page!OpenNow \cup {t}
         /\ ref'.turn = t /\ ~ref'.finalized /\ ~ref'.text
         /\ shown' \in Seq(Page!Line) /\ disturbed' \subseteq Page!Turns => Page!TypeOK'
<1>1. /\ streams[t] = "idle" /\ streams'[t] = "sent"
      /\ \A u \in Page!Turns : u # t => streams'[u] = streams[u]
      /\ streams' \in [Page!Turns -> Page!Phases]
  BY DEF Page!OpenStream, Page!Phase, Page!TypeOK, Page!Phases
<1>2. /\ t \notin Page!Sent /\ Page!Sent' = Page!Sent \cup {t}
      /\ t \notin Page!OpenNow /\ Page!OpenNow' = Page!OpenNow \cup {t}
  BY <1>1 DEF Page!Sent, Page!OpenNow, Page!Turns
<1>3. ref'.turn = t /\ ~ref'.finalized /\ ~ref'.text
  BY DEF Page!OpenStream
<1>4. asked' \in [Page!Turns -> Page!Conversations \cup {None}]
  BY DEF Page!OpenStream, Page!TypeOK
<1>5. shown' \in Seq(Page!Line) /\ disturbed' \subseteq Page!Turns => Page!TypeOK'
  BY <1>1, <1>4 DEF Page!OpenStream, Page!TypeOK, Page!Turns, Page!Conversations, Page!Line, Page!Kinds,
     Page!Phases
<1> QED BY <1>1, <1>2, <1>3, <1>5

LEMMA SendStep ==
  ASSUME PageInv, NEW t \in Page!Turns, Page!Send(t)
  PROVE  PageInv'
<1> USE DEF PageInv
<1> DEFINE l == [turn |-> t, kind |-> "question"]
<1>1. l \in Page!Line /\ l.turn = t /\ l.kind = "question"
  BY DEF Page!Line, Page!Kinds
<1>2. Page!OpenStream(t) /\ shown' = Append(shown, l) /\ shown \in Seq(Page!Line)
      /\ disturbed' = IF Page!OpenNow = {} THEN disturbed
                      ELSE disturbed \cup Page!OpenNow \cup {t}
  BY DEF Page!Send, Page!Show, Page!TypeOK
<1> HIDE DEF l
<1>3. /\ streams[t] = "idle" /\ streams'[t] = "sent"
      /\ \A u \in Page!Turns : u # t => streams'[u] = streams[u]
      /\ t \notin Page!Sent /\ Page!Sent' = Page!Sent \cup {t}
      /\ t \notin Page!OpenNow /\ Page!OpenNow' = Page!OpenNow \cup {t}
      /\ ref'.turn = t /\ ~ref'.finalized /\ ~ref'.text
      /\ shown' \in Seq(Page!Line) /\ disturbed' \subseteq Page!Turns => Page!TypeOK'
  BY <1>2, Opened
<1>4. /\ shown' \in Seq(Page!Line)
      /\ \A n \in DOMAIN shown' :
           shown'[n] = l \/ (n \in DOMAIN shown /\ shown'[n] = shown[n])
  BY <1>1, <1>2, LineShown
<1>5. Page!TypeOK'
  <2>1. disturbed' \subseteq Page!Turns
    BY <1>2 DEF Page!OpenNow, Page!TypeOK
  <2> QED BY <1>3, <1>4, <2>1
<1>6. ShownWereSent'
  <2>1. \A n \in DOMAIN shown' : shown'[n].turn \in Page!Sent'
    BY <1>1, <1>3, <1>4 DEF ShownWereSent
  <2>2. stored' = stored
    BY <1>2 DEF Page!OpenStream
  <2>3. \A u \in Page!Turns : stored'[u] # "nothing" => u \in Page!Sent'
    BY <1>3, <2>2 DEF ShownWereSent
  <2>4. t # None
    BY FrontendAssumption DEF Page!Turns
  <2> QED BY <1>3, <2>1, <2>3, <2>4 DEF ShownWereSent, Page!Turns
<1>7. \A u \in Alone' :
        IF u = t THEN Page!OpenNow = {} ELSE u \in Alone /\ u \notin Page!OpenNow'
  BY <1>2, <1>3 DEF Alone
<1>8. OneStreamOpen'
  BY <1>3, <1>7 DEF OneStreamOpen
<1>9. \A u, kinds : Page!Count(u, kinds)' =
        Page!Count(u, kinds) + (IF l.turn = u /\ l.kind \in kinds THEN 1 ELSE 0)
  BY <1>1, <1>2, CountAppended
<1>10. \A u, kinds : Page!Count(u, kinds) \in Nat
  BY <1>2, CountIsNat
<1>11. \A kinds : Page!Count(t, kinds) = 0
  BY <1>3, NotShownNotCounted DEF ShownWereSent
<1>12. Page!Count(t, {"question"})' = 1 /\ Answers(t)' = 0
  BY <1>1, <1>9, <1>11 DEF Answers
<1>13. \A u, kinds : u # t => Page!Count(u, kinds)' = Page!Count(u, kinds)
  BY <1>1, <1>9, <1>10
<1>14. NotAnsweredYet'
  BY <1>3, <1>7, <1>12 DEF NotAnsweredYet
<1>15. Page!TurnIsShownOnce'
  <2> SUFFICES ASSUME NEW u \in Alone'
               PROVE  /\ Page!Count(u, {"question"})' = 1
                      /\ Answers(u)' <= 1
                      /\ streams'[u] # "ended"
    BY DEF Page!TurnIsShownOnce, Answers, Alone, Page!Sent, Page!Turns
  <2>1. CASE u = t
    BY <1>3, <1>12, <2>1
  <2>2. CASE u # t
    <3>1. u \in Alone /\ u \notin Page!OpenNow' /\ u \in Page!Turns
      BY <1>7, <2>2 DEF Alone, Page!Sent
    <3>2. Page!Count(u, {"question"}) = 1 /\ Answers(u) <= 1
      BY <3>1 DEF Page!TurnIsShownOnce, Answers, Alone, Page!Sent
    <3>3. streams'[u] # "ended"
      BY <3>1 DEF Page!OpenNow, Page!Turns
    <3> QED BY <1>13, <2>2, <3>2, <3>3 DEF Answers
  <2> QED BY <2>1, <2>2
<1> QED BY <1>5, <1>6, <1>8, <1>14, <1>15

LEMMA RegenerateStep ==
  ASSUME PageInv, NEW t \in Page!Turns, Page!Regenerate(t)
  PROVE  PageInv'
<1> USE DEF PageInv
<1>0. Len(shown) \in Nat /\ \A j \in Page!Questions : j \in 1 .. Len(shown)
  BY DEF Page!Questions, Page!TypeOK
<1> DEFINE last == CHOOSE n \in Page!Questions : \A m \in Page!Questions : m <= n
<1>1. /\ Page!OpenStream(t) /\ shown \in Seq(Page!Line) /\ shown' = SubSeq(shown, 1, last)
      /\ disturbed' = disturbed \cup Page!Sent \cup {t} /\ Page!Questions # {}
  BY DEF Page!Regenerate, Page!TypeOK
<1>2. last \in Page!Questions
  <2> DEFINE T == {Len(shown) - n : n \in Page!Questions}
  <2>1. T \in SUBSET Nat /\ T # {}
    BY SMTT(30), <1>1 DEF Page!Questions
  <2> HIDE DEF T
  <2>2. PICK m \in T : \A n \in T : m <= n
    BY <2>1, LeastNatural
  <2> USE DEF T
  <2>3. PICK k \in Page!Questions : m = Len(shown) - k
    BY <2>2
  <2>4. Len(shown) \in Nat /\ \A j \in Page!Questions : j \in Nat /\ m <= Len(shown) - j
    <3>1. \A j \in Page!Questions : Len(shown) - j \in T
      OBVIOUS
    <3> HIDE DEF T, last
    <3>2. \A j \in Page!Questions : m <= Len(shown) - j
      BY <2>2, <3>1
    <3>3. \A j \in Page!Questions : j \in Nat
      BY <1>0
    <3> QED BY <1>0, <3>2, <3>3
  <2>5. \A j \in Page!Questions : j <= k
    BY <2>3, <2>4
  <2> QED BY <2>3, <2>5
<1>3. last \in DOMAIN shown
  BY <1>2 DEF Page!Questions
<1> HIDE DEF last
<1>4. /\ shown' \in Seq(Page!Line)
      /\ \A n \in DOMAIN shown' : n \in DOMAIN shown /\ shown'[n] = shown[n]
  BY <1>1, <1>3
<1>5. /\ Page!Sent' = Page!Sent \cup {t} /\ ref'.turn = t
      /\ shown' \in Seq(Page!Line) /\ disturbed' \subseteq Page!Turns => Page!TypeOK'
  BY <1>1, Opened
<1>6. Page!TypeOK'
  BY <1>1, <1>4, <1>5 DEF Page!Sent, Page!TypeOK
<1>7. ShownWereSent'
  <2>1. \A n \in DOMAIN shown' : shown'[n].turn \in Page!Sent'
    BY <1>4, <1>5 DEF ShownWereSent
  <2>2. stored' = stored
    BY <1>1 DEF Page!OpenStream
  <2>3. \A u \in Page!Turns : stored'[u] # "nothing" => u \in Page!Sent'
    BY <1>5, <2>2 DEF ShownWereSent
  <2>4. t # None
    BY FrontendAssumption DEF Page!Turns
  <2> QED BY <1>5, <2>1, <2>3, <2>4 DEF ShownWereSent, Page!Turns
<1> QED BY <1>1, <1>5, <1>6, <1>7, NobodyAlone

\* The events.  finalizeAssistant shows a line only once, and only with a text.
LEMMA FinalizeStep ==
  ASSUME PageInv, NEW t \in Page!OpenNow, NEW phase \in {"ended", "closed"}, Page!Phase(t, phase),
         NEW kind \in {"answer", "partial"}, Page!Finalize(kind),
         UNCHANGED stored, Page!NavigationUnchanged,
         phase = "ended" => streams[t] \in {"open", "tokens"} /\ kind = "answer"
  PROVE  PageInv'
<1> USE DEF PageInv
<1>1. /\ t \in Page!Turns /\ t \in Page!Sent /\ streams[t] \notin {"idle", "closed"}
      /\ streams' \in [Page!Turns -> Page!Phases]
  BY DEF Page!OpenNow, Page!Sent, Page!Phase, Page!TypeOK, Page!Phases
<1>2. ref.turn \in Page!Turns
  BY <1>1 DEF ShownWereSent, Page!Sent
<1>3. phase \in Page!Phases \ {"idle"}
  BY DEF Page!Phases
<1>4. /\ ref' \in [turn : Page!Turns \cup {None}, text : BOOLEAN, finalized : BOOLEAN]
      /\ ref'.turn = ref.turn /\ ref'.text = ref.text /\ ref'.finalized
  BY ZenonT(30) DEF Page!Finalize, Page!TypeOK
<1>5. \/ UNCHANGED shown
      \/ /\ shown' = Append(shown, [turn |-> ref.turn, kind |-> kind])
         /\ ~ref.finalized
  BY DEF Page!Finalize, Page!Show
<1>6. [turn |-> ref.turn, kind |-> kind] \in Page!Line
  BY <1>2 DEF Page!Line, Page!Kinds
<1>7. shown' \in Seq(Page!Line)
  <2> DEFINE l == [turn |-> ref.turn, kind |-> kind]
  <2>1. l \in Page!Line /\ (shown' = shown \/ shown' = Append(shown, l)) /\ shown \in Seq(Page!Line)
    BY <1>5, <1>6 DEF Page!TypeOK
  <2> HIDE DEF l
  <2> QED BY <2>1
<1>8. loading' \in BOOLEAN /\ draft' \in Page!Turns \cup {None} /\ aborter' \in Page!Turns \cup {None}
  BY DEF Page!Finalize, Page!TypeOK
<1>9. Page!TypeOK'
  BY <1>1, <1>4, <1>7, <1>8 DEF Page!TypeOK, Page!NavigationUnchanged, Page!Turns,
     Page!Conversations, Page!Line, Page!Kinds, Page!Phases
<1>10. ASSUME t \in Alone, phase = "ended", ref'.text
       PROVE  Page!Count(t, {"answer"})' = 1
  <2>1. ref.turn = t /\ ~ref.finalized /\ Answers(t) = 0
    BY <1>10 DEF OneStreamOpen, NotAnsweredYet
  <2>2. shown' = Append(shown, [turn |-> t, kind |-> "answer"])
    BY <1>4, <1>10, <2>1 DEF Page!Finalize, Page!Show
  <2>3. shown \in Seq(Page!Line) /\ [turn |-> t, kind |-> "answer"] \in Page!Line
    BY <1>1 DEF Page!TypeOK, Page!Line, Page!Kinds
  <2>4. Page!Count(t, {"answer"}) = 0
    BY <2>1, <2>3, FewerKinds
  <2>5. Page!Count(t, {"answer"})' = Page!Count(t, {"answer"}) + 1
    <3> DEFINE l == [turn |-> t, kind |-> "answer"]
    <3>1. l.turn = t /\ l.kind \in {"answer"} /\ l \in Page!Line /\ shown' = Append(shown, l)
      BY <2>2, <2>3
    <3> HIDE DEF l
    <3>2. Page!Count(t, {"answer"})' =
            Page!Count(t, {"answer"}) + (IF l.turn = t /\ l.kind \in {"answer"} THEN 1 ELSE 0)
      BY <2>3, <3>1, CountAppended
    <3> QED BY <3>1, <3>2
  <2> QED BY <2>4, <2>5
<1>11. UNCHANGED disturbed
  BY DEF Page!NavigationUnchanged
<1>12. \/ UNCHANGED shown
       \/ \E k \in {"answer", "partial"} :
            /\ shown' = Append(shown, [turn |-> ref.turn, kind |-> k])
            /\ ~ref.finalized /\ ref'.finalized
       \/ shown' = Append(shown, [turn |-> t, kind |-> "error"])
  BY <1>4, <1>5
<1> QED BY <1>3, <1>4, <1>9, <1>10, <1>11, <1>12, EventStep

LEMMA ErrorStep ==
  ASSUME PageInv, NEW t \in Page!OpenNow, NEW phase \in {"ended", "closed"}, Page!Phase(t, phase),
         Page!ShowError(t), UNCHANGED stored, Page!NavigationUnchanged,
         phase = "ended" => stored[t] = "question"
  PROVE  PageInv'
<1> USE DEF PageInv
<1>1. /\ t \in Page!Turns /\ streams' \in [Page!Turns -> Page!Phases]
      /\ phase \in Page!Phases \ {"idle"}
  BY DEF Page!OpenNow, Page!Phase, Page!TypeOK, Page!Phases
<1>2. /\ ref' \in [turn : Page!Turns \cup {None}, text : BOOLEAN, finalized : BOOLEAN]
      /\ ref'.turn = ref.turn /\ ref'.finalized
      /\ shown' = Append(shown, [turn |-> t, kind |-> "error"])
  BY DEF Page!ShowError, Page!Show, Page!TypeOK
<1>3. [turn |-> t, kind |-> "error"] \in Page!Line
  BY <1>1 DEF Page!Line, Page!Kinds
<1>4. shown' \in Seq(Page!Line)
  BY <1>2, <1>3 DEF Page!TypeOK
<1>5. Page!TypeOK'
  BY <1>1, <1>2, <1>4 DEF Page!TypeOK, Page!ShowError, Page!NavigationUnchanged, Page!Turns,
     Page!Conversations, Page!Line, Page!Kinds, Page!Phases
<1>6. UNCHANGED disturbed
  BY DEF Page!NavigationUnchanged
<1> QED BY <1>1, <1>2, <1>5, <1>6, EventStep

\* The steps that show nothing: the stream opens, brings text, or is stopped, and
\* the server stores.
LEMMA EventQuietStep ==
  ASSUME PageInv, NEW t \in Page!Turns,
         Page!Started(t) \/ Page!Token(t) \/ Page!Store(t) \/ (Page!Stop /\ t = aborter)
  PROVE  PageInv'
<1> USE DEF PageInv
<1> DEFINE phase == streams'[t]
<1>1. streams \in [Page!Turns -> Page!Phases] /\ streams[t] \notin {"idle", "closed"}
  BY DEF Page!Started, Page!Token, Page!Store, Page!Stop, Page!TypeOK
<1>2. /\ t \in Page!OpenNow /\ phase \in {"open", "tokens", "stopped"} /\ Page!Phase(t, phase)
      /\ phase \in {"open", "tokens"} => streams[t] \in {"sent", "open", "tokens"}
  <2>1. t \in Page!OpenNow
    BY <1>1 DEF Page!OpenNow
  <2>2. CASE Page!Started(t)
    BY <1>1, <2>1, <2>2 DEF Page!Started, Page!Phase
  <2>3. CASE Page!Token(t)
    BY <1>1, <2>1, <2>3 DEF Page!Token, Page!Phase
  <2>4. CASE Page!Store(t)
    BY <1>1, <2>1, <2>4 DEF Page!Store, Page!Phase
  <2>5. CASE Page!Stop /\ t = aborter
    BY <1>1, <2>1, <2>5 DEF Page!Stop, Page!Phase
  <2> QED BY <2>2, <2>3, <2>4, <2>5
<1>3. /\ UNCHANGED <<shown, disturbed, asked, gets, aborter, loading>>
      /\ ref' \in {ref, [ref EXCEPT !.text = TRUE]}
  BY DEF Page!Started, Page!Token, Page!Store, Page!Stop, Page!NavigationUnchanged
<1>4. /\ ref' \in [turn : Page!Turns \cup {None}, text : BOOLEAN, finalized : BOOLEAN]
      /\ ref'.turn = ref.turn /\ ref'.finalized = ref.finalized
  BY <1>3 DEF Page!TypeOK
<1>5. /\ stored' \in [Page!Turns -> {"nothing", "question", "answer"}]
      /\ \A u \in Page!Turns : stored'[u] # stored[u] => u = t
  BY DEF Page!Started, Page!Token, Page!Store, Page!Stop, Page!NavigationUnchanged, Page!TypeOK
<1>6. active' \in Page!Conversations \cup {None} /\ draft' \in Page!Turns \cup {None}
  BY DEF Page!Started, Page!Token, Page!Store, Page!Stop, Page!NavigationUnchanged, Page!TypeOK,
     Page!Conversations
<1>7. streams' \in [Page!Turns -> Page!Phases]
  BY <1>1, <1>2 DEF Page!Phase, Page!Phases
<1> HIDE DEF phase
<1>8. Page!TypeOK'
  BY <1>3, <1>4, <1>5, <1>6, <1>7 DEF Page!TypeOK, Page!Turns, Page!Conversations, Page!Line,
     Page!Kinds, Page!Phases
<1>9. phase \in Page!Phases \ {"idle"} /\ phase # "ended"
  BY <1>2 DEF Page!Phases
<1> QED BY <1>2, <1>3, <1>4, <1>5, <1>8, <1>9, EventStep

\* Flattening, over the first n sequences.
FlatOf(f, s, n) == f = [i \in 1 .. n |-> IF i = 1 THEN s[i] ELSE f[i - 1] \o s[i]]

LEMMA FlatExists ==
  ASSUME NEW s, NEW n \in Nat
  PROVE  \E f : FlatOf(f, s, n)
<1> DEFINE T == {k \in Nat : ~\E f : FlatOf(f, s, k)}
<1> SUFFICES ASSUME T # {} PROVE FALSE
  OBVIOUS
<1>1. PICK k \in T : \A j \in T : k <= j
  BY LeastNatural
<1>2. k # 0
  <2>1. FlatOf([i \in 1 .. 0 |-> 0], s, 0)
    BY DEF FlatOf
  <2> QED BY <1>1, <2>1
<1>3. k - 1 \in Nat /\ k - 1 \notin T
  BY <1>1, <1>2
<1>4. PICK f : FlatOf(f, s, k - 1)
  BY <1>3
<1> DEFINE h == [i \in 1 .. k |-> IF i = k THEN IF i = 1 THEN s[i] ELSE f[i - 1] \o s[i] ELSE f[i]]
<1>5. \A i \in 1 .. k : h[i] = IF i = 1 THEN s[i] ELSE h[i - 1] \o s[i]
  <2> SUFFICES ASSUME NEW i \in 1 .. k PROVE h[i] = IF i = 1 THEN s[i] ELSE h[i - 1] \o s[i]
    OBVIOUS
  <2>1. CASE i = 1 /\ i = k
    BY <2>1
  <2>2. CASE i # k
    <3>1. i \in 1 .. k - 1 /\ i - 1 # k /\ i # k
      BY <2>2, <1>3
    <3>2. f[i] = IF i = 1 THEN s[i] ELSE f[i - 1] \o s[i]
      <4>1. f = [j \in 1 .. k - 1 |-> IF j = 1 THEN s[j] ELSE f[j - 1] \o s[j]]
        BY <1>4 DEF FlatOf
      <4> QED BY <3>1, <4>1, Zenon
    <3>3. h[i] = f[i] /\ (i # 1 => h[i - 1] = f[i - 1])
      <4>1. i # 1 => i - 1 \in 1 .. k
        BY <3>1, <1>3
      <4> QED BY <3>1, <4>1
    <3> QED BY <3>2, <3>3
  <2>3. CASE i = k /\ i # 1
    <3>1. i - 1 \in 1 .. k /\ i - 1 # k
      BY <2>3, <1>3
    <3>2. h[i - 1] = f[i - 1]
      BY <3>1
    <3> QED BY <2>3, <3>2
  <2> QED BY <2>1, <2>2, <2>3
<1>6. FlatOf(h, s, k)
  <2>1. h = [i \in 1 .. k |-> h[i]]
    OBVIOUS
  <2> HIDE DEF h
  <2> QED BY <1>5, <2>1 DEF FlatOf
<1> QED BY <1>1, <1>6

LEMMA Flattened ==
  ASSUME NEW N \in Nat \ {0}, NEW S, NEW s \in [1 .. N -> Seq(S)]
  PROVE  Page!FlattenSeq(s) \in Seq(S)
<1> DEFINE flat == CHOOSE f : FlatOf(f, s, N)
<1>1. FlatOf(flat, s, N)
  BY FlatExists
<1>2. Len(s) = N
  OBVIOUS
<1>3. Page!FlattenSeq(s) = flat[N]
  BY <1>2, Zenon DEF Page!FlattenSeq, FlatOf
<1> HIDE DEF flat
<1>4. \A i \in 1 .. N : flat[i] = IF i = 1 THEN s[i] ELSE flat[i - 1] \o s[i]
  BY <1>1 DEF FlatOf
<1> DEFINE T == {i \in 1 .. N : flat[i] \notin Seq(S)}
<1>5. T = {}
  <2> SUFFICES ASSUME T # {} PROVE FALSE
    OBVIOUS
  <2>1. PICK k \in T : \A j \in T : k <= j
    <3>1. T \in SUBSET Nat
      OBVIOUS
    <3> HIDE DEF T
    <3> QED BY <3>1, LeastNatural
  <2>2. s[k] \in Seq(S) /\ k \in 1 .. N /\ flat[k] \notin Seq(S)
    BY <2>1
  <2>3. k # 1
    BY <1>4, <2>1, <2>2
  <2>4. k - 1 \in 1 .. N /\ k - 1 \notin T
    BY <2>1, <2>2, <2>3
  <2>5. flat[k - 1] \in Seq(S)
    BY <2>4
  <2>6. flat[k] = flat[k - 1] \o s[k]
    BY <1>4, <2>2, <2>3
  <2>7. flat[k] \in Seq(S)
    BY <2>2, <2>5, <2>6, ConcatProperties
  <2> QED BY <2>2, <2>7
<1> QED BY <1>3, <1>5

-----------------------------------------------------------------------------
(* Navigation leaves nobody alone.                                         *)

\* Whatever a conversation has, it has of turns that were sent.
LEMMA LoadedStep ==
  ASSUME PageInv, NEW c \in Page!Conversations, Page!Loaded(c)
  PROVE  PageInv'
<1> USE DEF PageInv
<1> DEFINE S == {l \in Page!Line : l.turn \in Page!Sent}
           lines == [t \in Page!Turns |-> IF Page!ConvOf(t) = c THEN Page!Lines(t) ELSE <<>>]
<1>1. \A t \in Page!Turns : Page!Lines(t) \in Seq(S)
  <2> SUFFICES ASSUME NEW t \in Page!Turns PROVE Page!Lines(t) \in Seq(S)
    OBVIOUS
  <2>1. stored[t] \in {"nothing", "question", "answer"}
    BY DEF Page!TypeOK
  <2>2. CASE stored[t] = "nothing"
    BY <2>2 DEF Page!Lines
  <2>3. CASE stored[t] # "nothing"
    <3>1. \A kind \in {"question", "answer"} : [turn |-> t, kind |-> kind] \in S
      BY <2>3 DEF ShownWereSent, Page!Line, Page!Kinds
    <3> HIDE DEF S
    <3>2. CASE stored[t] = "question"
      <4>1. Page!Lines(t) = <<[turn |-> t, kind |-> "question"]>>
        BY <3>2 DEF Page!Lines
      <4> QED BY <3>1, <4>1
    <3>3. CASE stored[t] = "answer"
      <4>1. Page!Lines(t) = <<[turn |-> t, kind |-> "question"], [turn |-> t, kind |-> "answer"]>>
        BY <3>3 DEF Page!Lines
      <4> QED BY <3>1, <4>1
    <3> QED BY <2>1, <2>3, <3>2, <3>3
  <2> QED BY <2>2, <2>3
<1>2. lines \in [1 .. MaxTurns -> Seq(S)]
  BY <1>1 DEF Page!Turns
<1> HIDE DEF lines, S
<1>3. shown' = shown \/ shown' = Page!FlattenSeq(lines)
  BY DEF Page!Loaded, lines
<1>4. shown' = shown \/ shown' \in Seq(S)
  BY <1>2, <1>3, Flattened, FrontendAssumption
<1>5. shown' \in Seq(Page!Line) /\ \A n \in DOMAIN shown' : shown'[n].turn \in Page!Sent
  <2>1. CASE shown' = shown
    BY <2>1 DEF ShownWereSent, Page!TypeOK
  <2>2. CASE shown' \in Seq(S)
    BY <2>2 DEF S
  <2> QED BY <1>4, <2>1, <2>2
<1>6. Page!Sent' = Page!Sent /\ Page!Sent \subseteq Page!Turns
  BY DEF Page!Loaded, Page!Sent, Page!Turns
<1>7. Page!TypeOK'
  BY <1>5, <1>6 DEF Page!Loaded, Page!TypeOK, Page!Turns, Page!Conversations, Page!Line,
     Page!Kinds, Page!Phases
<1>8. ShownWereSent'
  BY <1>5, <1>6 DEF Page!Loaded, ShownWereSent, Page!Turns
<1>9. Page!Sent' \subseteq disturbed'
  BY <1>6 DEF Page!Loaded
<1> QED BY <1>7, <1>8, <1>9, NobodyAlone

LEMMA NavigationStep ==
  ASSUME PageInv, Page!NewChat \/ Page!Logout \/ \E c \in Page!Conversations : Page!Select(c)
  PROVE  PageInv'
<1> USE DEF PageInv
<1>1. Page!Sent' = Page!Sent /\ Page!Sent \subseteq Page!Turns
  BY DEF Page!NewChat, Page!Logout, Page!Select, Page!Sent, Page!Turns
<1>2. shown' = <<>> \/ shown' = shown
  BY DEF Page!NewChat, Page!Logout, Page!Select
<1>3. disturbed' = disturbed \cup Page!Sent /\ UNCHANGED <<stored, ref, streams, asked, loading, aborter>>
  BY DEF Page!NewChat, Page!Logout, Page!Select
<1>4. active' \in Page!Conversations \cup {None} /\ gets' \subseteq Page!Conversations
      /\ draft' \in Page!Turns \cup {None}
  BY DEF Page!NewChat, Page!Logout, Page!Select, Page!TypeOK
<1>5. shown' \in Seq(Page!Line) /\ \A n \in DOMAIN shown' : shown'[n].turn \in Page!Sent
  <2>1. CASE shown' = <<>>
    BY <2>1
  <2>2. CASE shown' = shown
    BY <2>2 DEF Page!TypeOK, ShownWereSent
  <2> QED BY <1>2, <2>1, <2>2
<1>6. Page!TypeOK'
  BY <1>1, <1>3, <1>4, <1>5 DEF Page!TypeOK, Page!Turns, Page!Conversations, Page!Line,
     Page!Kinds, Page!Phases
<1>7. ShownWereSent'
  BY <1>1, <1>3, <1>5 DEF ShownWereSent, Page!Turns
<1> QED BY <1>1, <1>3, <1>6, <1>7, NobodyAlone

LEMMA InitPageInv == ViewInit => PageInv
<1> SUFFICES ASSUME ViewInit PROVE PageInv
  OBVIOUS
<1>1. Page!Init
  BY DEF ViewInit
<1>2. Page!TypeOK
  <2>1. shown \in Seq(Page!Line)
    BY <1>1 DEF Page!Init
  <2>2. /\ streams \in [Page!Turns -> Page!Phases]
        /\ asked \in [Page!Turns -> Page!Conversations \cup {None}]
        /\ stored \in [Page!Turns -> {"nothing", "question", "answer"}]
    BY <1>1 DEF Page!Init, Page!Phases
  <2>3. ref \in [turn : Page!Turns \cup {None}, text : BOOLEAN, finalized : BOOLEAN]
    BY <1>1 DEF Page!Init
  <2> QED BY <1>1, <2>1, <2>2, <2>3 DEF Page!Init, Page!TypeOK
<1>3. Page!Sent = {} /\ Alone = {}
  BY <1>1 DEF Page!Init, Page!Sent, Alone
<1>4. ShownWereSent
  BY <1>1, <1>3 DEF Page!Init, ShownWereSent
<1>5. OneStreamOpen /\ NotAnsweredYet
  BY <1>3 DEF OneStreamOpen, NotAnsweredYet
<1>6. Page!TurnIsShownOnce
  BY <1>3 DEF Alone, Page!Sent, Page!TurnIsShownOnce
<1> QED BY <1>2, <1>4, <1>5, <1>6 DEF PageInv

LEMMA NextPageInv == PageInv /\ [ViewNext]_viewVars => PageInv'
<1> SUFFICES ASSUME PageInv, [ViewNext]_viewVars PROVE PageInv'
  OBVIOUS
<1>1. CASE UNCHANGED pageVars
  <2>1. UNCHANGED <<active, shown, loading, draft, ref, aborter, streams, asked, stored, gets,
                    disturbed>>
    BY <1>1 DEF pageVars
  <2>2. Page!Sent' = Page!Sent /\ Page!OpenNow' = Page!OpenNow /\ Alone' = Alone
    BY <2>1 DEF Page!Sent, Page!OpenNow, Alone, Page!Turns
  <2>3. \A t, kinds : Page!Count(t, kinds)' = Page!Count(t, kinds)
    BY <2>1, CountStays
  <2>4. \A t : Answers(t)' = Answers(t)
    BY <2>3 DEF Answers
  <2>5. Page!TypeOK'
    BY <2>1 DEF PageInv, Page!TypeOK, Page!Turns, Page!Conversations, Page!Line, Page!Kinds,
       Page!Phases
  <2>6. ShownWereSent'
    BY <2>1, <2>2 DEF PageInv, ShownWereSent, Page!Turns
  <2>7. OneStreamOpen'
    BY <2>1, <2>2 DEF PageInv, OneStreamOpen
  <2>8. NotAnsweredYet'
    BY <2>1, <2>2, <2>4 DEF PageInv, NotAnsweredYet
  <2>9. Page!TurnIsShownOnce'
    BY <2>1, <2>3 DEF PageInv, Page!TurnIsShownOnce, Page!Turns
  <2> QED BY <2>5, <2>6, <2>7, <2>8, <2>9 DEF PageInv
<1>2. ASSUME NEW t \in Page!Turns, Page!Send(t)
      PROVE  PageInv'
  BY <1>2, SendStep
<1>3. ASSUME NEW t \in Page!Turns, Page!Regenerate(t)
      PROVE  PageInv'
  BY <1>3, RegenerateStep
<1>4. ASSUME NEW t \in Page!Turns, Page!Started(t) \/ Page!Token(t) \/ Page!Store(t)
      PROVE  PageInv'
  BY <1>4, EventQuietStep
<1>5. CASE Page!Stop
  <2>1. aborter \in Page!Turns
    BY <1>5 DEF Page!Stop, PageInv, Page!TypeOK
  <2> QED BY <1>5, <2>1, EventQuietStep
<1>6. ASSUME NEW t \in Page!Turns, Page!DoneEvent(t)
      PROVE  PageInv'
  <2>1. t \in Page!OpenNow
    BY <1>6 DEF Page!DoneEvent, Page!OpenNow
  <2> QED BY <1>6, <2>1, FinalizeStep DEF Page!DoneEvent
<1>7. ASSUME NEW t \in Page!Turns, Page!ErrorEvent(t)
      PROVE  PageInv'
  <2>1. t \in Page!OpenNow
    BY <1>7 DEF Page!ErrorEvent, Page!OpenNow
  <2> QED BY <1>7, <2>1, ErrorStep DEF Page!ErrorEvent
<1>8. ASSUME NEW t \in Page!Turns, Page!Complete(t) \/ Page!Stopped(t)
      PROVE  PageInv'
  <2>1. t \in Page!OpenNow
    BY <1>8 DEF Page!Complete, Page!Stopped, Page!OpenNow
  <2>2. Page!Phase(t, "closed") /\ Page!Finalize("partial") /\ UNCHANGED stored /\ Page!NavigationUnchanged
    BY <1>8 DEF Page!Complete, Page!Stopped
  <2> QED BY <2>1, <2>2, FinalizeStep
<1>9. ASSUME NEW t \in Page!Turns, Page!Break(t)
      PROVE  PageInv'
  <2>1. t \in Page!OpenNow
    BY <1>9 DEF Page!Break, Page!OpenNow
  <2> QED BY <1>9, <2>1, ErrorStep DEF Page!Break
<1>10. CASE Page!NewChat \/ Page!Logout \/ \E c \in Page!Conversations : Page!Select(c)
  BY <1>10, NavigationStep
<1>11. ASSUME NEW c \in Page!Conversations, Page!Loaded(c)
       PROVE  PageInv'
  BY <1>11, LoadedStep
<1>12. UNCHANGED pageVars \/ Page!Next
  BY DEF ViewNext, viewVars, InAccount, InChat, InKnowledge
<1> QED BY <1>1, <1>2, <1>3, <1>4, <1>5, <1>6, <1>7, <1>8, <1>9, <1>10, <1>11, <1>12
        DEF Page!Next, Page!User, Page!Network

\* Every turn the user stays with is on the screen as it ended, once, for every
\* number of turns (App.tsx:205-252, :346-369).
THEOREM TurnsAreShownOnce == ViewSpec => []TurnIsShownOnce
<1>1. PageInv => TurnIsShownOnce
  BY DEF PageInv, TurnIsShownOnce
<1> QED BY <1>1, InitPageInv, NextPageInv, PTL DEF ViewSpec

-----------------------------------------------------------------------------
(* The views.                                                              *)

\* The sign-in is as Accounts says whichever view the browser shows (App.tsx):
\* what is proved of Accounts holds of Frontend.
THEOREM SignInInEveryView == ViewSpec => Spec
<1>1. ViewInit => Init
  BY DEF ViewInit
<1>2. [ViewNext]_viewVars => [Next]_vars
  BY DEF ViewNext, viewVars, InAccount, InChat, InKnowledge
<1> QED BY <1>1, <1>2, PTL DEF ViewSpec, Spec
=============================================================================
