------------------------------- MODULE Accounts -------------------------------
(***************************************************************************)
(* Accounts: registration with a default organization, login, and refresh  *)
(* tokens that are rotated, revoked on logout and revoked all together     *)
(* when a revoked one is presented again (services/auth, organizations,    *)
(* users).  A request reads on its own session and commits later; rows are *)
(* written without looking at what was committed in between.               *)
(***************************************************************************)
EXTENDS Naturals, Sequences, FiniteSets

CONSTANTS
  Emails,    \* normalized addresses of users
  Requests,  \* requests the server handles at the same time
  MaxTokens, \* bound: refresh tokens ever issued
  None

ASSUME AccountsAssumption == IsFiniteSet(Emails) /\ MaxTokens \in Nat \ {0}

VARIABLES
  users,     \* registered users
  slugs,     \* suffix of each registered user's organization slug
  tokens,    \* refresh tokens, in the order they were issued
  requests,  \* what each request has read and where it is
  races,     \* history: rotations of a token that was revoked by then
  condemned, \* history: tokens that existed when a reuse was detected
  excused    \* history: tokens of rotations already under way at a detection

vars == <<users, slugs, tokens, requests, races, condemned, excused>>

TokenIds == 1..MaxTokens

Token == [user : Emails, revoked : BOOLEAN, expired : BOOLEAN,
          parent : TokenIds \cup {0}, replacedBy : TokenIds \cup {0}]

Registration == [op : {"register"}, step : {"checked", "named"}, user : Emails,
                 slug : 0..Cardinality(Emails) + 1]
Presentation == [op : {"rotate", "logout"}, token : TokenIds, revoked : BOOLEAN,
                 expired : BOOLEAN, early : BOOLEAN]

TypeOK ==
  /\ users \subseteq Emails
  /\ slugs \in [Emails -> 0..Cardinality(Emails) + 1]
  /\ tokens \in Seq(Token) /\ Len(tokens) <= MaxTokens
  /\ requests \in [Requests -> Registration \cup Presentation \cup {None}]
  /\ races \in 0..MaxTokens
  /\ condemned \subseteq TokenIds
  /\ excused \subseteq TokenIds

Init ==
  /\ users = {}
  /\ slugs = [u \in Emails |-> 0]
  /\ tokens = <<>>
  /\ requests = [r \in Requests |-> None]
  /\ races = 0
  /\ condemned = {}
  /\ excused = {}

Issued    == DOMAIN tokens
Active(t) == ~tokens[t].revoked /\ ~tokens[t].expired
Free      == Len(tokens) < MaxTokens

Is(r, op) == requests[r] # None /\ requests[r].op = op
End(r)    == requests' = [requests EXCEPT ![r] = None]

NewToken(u, parent) ==
  [user |-> u, revoked |-> FALSE, expired |-> FALSE, parent |-> parent, replacedBy |-> 0]

TokensUnchanged == UNCHANGED <<tokens, races, condemned, excused>>

-----------------------------------------------------------------------------
(* Registration: user, organization, membership and token in one transaction. *)

CheckEmail(r, u) ==
  /\ requests[r] = None /\ u \notin users
  /\ requests' = [requests EXCEPT ![r] =
       [op |-> "register", step |-> "checked", user |-> u, slug |-> 0]]
  /\ UNCHANGED <<users, slugs>> /\ TokensUnchanged

\* generate_unique_slug, for organizations of one name: the first free suffix.
FirstFree(used) ==
  CHOOSE n \in 1..Cardinality(used) + 1 : n \notin used /\ \A m \in 1..n - 1 : m \in used

ChooseSlug(r) ==
  /\ Is(r, "register") /\ requests[r].step = "checked"
  /\ requests' = [requests EXCEPT ![r].step = "named",
                                  ![r].slug = FirstFree({slugs[u] : u \in users})]
  /\ UNCHANGED <<users, slugs>> /\ TokensUnchanged

\* Both unique constraints decide; a violation fails the whole transaction.
Register(r) ==
  LET u == requests[r].user IN
  /\ Is(r, "register") /\ requests[r].step = "named" /\ Free
  /\ End(r)
  /\ IF u \notin users /\ \A v \in users : slugs[v] # requests[r].slug
     THEN /\ users' = users \cup {u}
          /\ slugs' = [slugs EXCEPT ![u] = requests[r].slug]
          /\ tokens' = Append(tokens, NewToken(u, 0))
     ELSE UNCHANGED <<users, slugs, tokens>>
  /\ UNCHANGED <<races, condemned, excused>>

Login(u) ==
  /\ u \in users /\ Free
  /\ tokens' = Append(tokens, NewToken(u, 0))
  /\ UNCHANGED <<users, slugs, requests, races, condemned, excused>>

-----------------------------------------------------------------------------
(* Rotation and logout. *)

\* The record is read by its hash.
Present(r, op, t) ==
  /\ requests[r] = None /\ t \in Issued
  /\ requests' = [requests EXCEPT ![r] =
       [op |-> op, token |-> t, revoked |-> tokens[t].revoked, expired |-> tokens[t].expired,
        early |-> FALSE]]
  /\ UNCHANGED <<users, slugs>> /\ TokensUnchanged

Expire(t) ==
  /\ t \in Issued /\ ~tokens[t].expired
  /\ tokens' = [tokens EXCEPT ![t].expired = TRUE]
  /\ UNCHANGED <<users, slugs, requests, races, condemned, excused>>

\* Mutant: the tokens are revoked, and the exception rolls that back.
RevokedAllRolledBack(u) == tokens

RevokedAll(u) ==
  [t \in Issued |-> IF tokens[t].user = u THEN [tokens[t] EXCEPT !.revoked = TRUE] ELSE tokens[t]]

Family(u) == {t \in Issued : tokens[t].user = u}

\* The token was revoked when it was read: reuse is detected.
DetectReuse(r) ==
  LET u == tokens[requests[r].token].user IN
  /\ Is(r, "rotate") /\ requests[r].revoked
  /\ tokens' = RevokedAll(u)
  /\ condemned' = condemned \cup Family(u)
  /\ requests' = [q \in Requests |->
       IF q = r THEN None
       ELSE IF Is(q, "rotate") /\ requests[q].token \in Family(u)
       THEN [requests[q] EXCEPT !.early = TRUE] ELSE requests[q]]
  /\ UNCHANGED <<users, slugs, races, excused>>

RejectExpired(r) ==
  /\ Is(r, "rotate") /\ ~requests[r].revoked /\ requests[r].expired
  /\ End(r)
  /\ UNCHANGED <<users, slugs>> /\ TokensUnchanged

\* Mutant: the old token is linked to the new one and stays usable.
RotatedUnrevoked(t, new) == [tokens[t] EXCEPT !.replacedBy = new]

Rotated(t, new) == [tokens[t] EXCEPT !.revoked = TRUE, !.replacedBy = new]

\* The new token, the old one's revocation and their link, by what was read.
Rotate(r) ==
  LET t   == requests[r].token
      new == Len(tokens) + 1 IN
  /\ Is(r, "rotate") /\ ~requests[r].revoked /\ ~requests[r].expired /\ Free
  /\ tokens' = Append([tokens EXCEPT ![t] = Rotated(t, new)], NewToken(tokens[t].user, t))
  /\ races' = IF tokens[t].revoked THEN races + 1 ELSE races
  /\ excused' = IF requests[r].early THEN excused \cup {new} ELSE excused
  /\ End(r)
  /\ UNCHANGED <<users, slugs, condemned>>

Revoke(r) ==
  LET t == requests[r].token IN
  /\ Is(r, "logout")
  /\ tokens' = IF requests[r].revoked THEN tokens ELSE [tokens EXCEPT ![t].revoked = TRUE]
  /\ End(r)
  /\ UNCHANGED <<users, slugs, races, condemned, excused>>

\* The request is lost with its transaction.
Lose(r) ==
  /\ requests[r] # None
  /\ End(r)
  /\ UNCHANGED <<users, slugs>> /\ TokensUnchanged

Next ==
  \/ \E r \in Requests :
       \/ \E u \in Emails : CheckEmail(r, u)
       \/ \E op \in {"rotate", "logout"}, t \in TokenIds : Present(r, op, t)
       \/ ChooseSlug(r) \/ Register(r) \/ DetectReuse(r) \/ RejectExpired(r)
       \/ Rotate(r) \/ Revoke(r) \/ Lose(r)
  \/ \E u \in Emails : Login(u)
  \/ \E t \in TokenIds : Expire(t)

Spec == Init /\ [][Next]_vars

-----------------------------------------------------------------------------
(* Properties. *)

Logins == Cardinality({t \in Issued : tokens[t].parent = 0})

\* Every login is one line of tokens of which at most the last is usable: a
\* rotation does not multiply sessions, except when two requests rotate one
\* token at the same time (auth/tokens.py:99-109).
OneLinePerLogin ==
  Cardinality({t \in Issued : Active(t)}) <= Logins + races

\* When a revoked token is presented, no token that existed then is usable any
\* more, nor one rotated out of it, except by a rotation that had read its token
\* before the detection (auth/tokens.py:71-88).
ReuseIsContained ==
  \A t \in Issued : Active(t) =>
    /\ t \notin condemned
    /\ tokens[t].parent \in condemned => t \in excused
=============================================================================
