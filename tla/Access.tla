------------------------------- MODULE Access -------------------------------
(***************************************************************************)
(* Who is admitted to a Space: the Space's tokens (minted, verified,       *)
(* revoked, by value or by name) and the authorization prelude every HTTP  *)
(* and MCP request goes through.                                           *)
(*                                                                         *)
(* A request reads the clock, checks a signed token (a CWT), waits for the *)
(* Space to load and only then verifies a Space token; tokens are minted,  *)
(* revoked and expire meanwhile, and the Space is made public or private.  *)
(***************************************************************************)
EXTENDS Naturals, FiniteSets

CONSTANTS
  Tokens,      \* token values; each is drawn once
  Names,       \* names a token can be given
  Requests,    \* concurrent requests
  MaxTokens,   \* tokens a Space may have (100)
  MaxTime,     \* bound on the clock
  None

VARIABLES
  store,       \* the Space's token rows: None or [name, scope, labelled, until]
  minted,      \* every row ever stored, for stating the properties
  lock,        \* the token lock: None or the token being minted
  draft,       \* the row that is about to be saved, None when there is none
  wanted,      \* key a revocation by name is about to remove, None for none
  public,      \* the Space is readable without a credential
  now,         \* the clock
  req          \* per request: [at, mode, scope, cred, now, dead, by]

vars == <<store, minted, lock, draft, wanted, public, now, req>>

Scopes == {"read", "write"}
Modes == {"public", "lenient", "credentialed", "cwt", "runtime"}
\* What the caller presents: nothing, a signed token, a broken one, a Space token.
Credentials == {"nothing", "signed", "broken"} \cup Tokens

Rows == [name : Names, scope : Scopes, labelled : BOOLEAN, until : 1..(MaxTime + 1)]
NoRequest == [at |-> "idle", mode |-> "public", scope |-> "read", cred |-> "nothing",
              now |-> 0, dead |-> FALSE, by |-> "nobody"]

Init ==
  /\ store = [t \in Tokens |-> None] /\ minted = [t \in Tokens |-> None]
  /\ lock = None /\ draft = None /\ wanted = None
  /\ public \in BOOLEAN /\ now = 0
  /\ req = [r \in Requests |-> NoRequest]

Kept == {t \in Tokens : store[t] # None}

(***************************************************************************)
(* Tokens.                                                                 *)
(***************************************************************************)

\* A name that no kept token has, below the cap, and a labelled token reads
\* only.
Mintable(row) ==
  /\ Cardinality(Kept) < MaxTokens
  /\ \A t \in Kept : store[t].name # row.name
  /\ row.labelled => row.scope = "read"

\* Mutant: minting does not wait for its turn.
MintChecks(t, row) ==
  /\ minted[t] = None /\ Mintable(row)
  /\ draft # None => draft.token # t
  /\ lock' = t
  /\ draft' = [token |-> t, row |-> row]
  /\ IF draft = None THEN UNCHANGED <<store, minted>>
     ELSE store' = [store EXCEPT ![draft.token] = draft.row]
          /\ minted' = [minted EXCEPT ![draft.token] = draft.row]
  /\ UNCHANGED <<wanted, public, now, req>>

\* Checked under the lock, which is held until the row is saved.
Mint(t, row) ==
  /\ lock = None /\ minted[t] = None /\ Mintable(row)
  /\ lock' = t
  /\ draft' = [token |-> t, row |-> row]
  /\ UNCHANGED <<store, minted, wanted, public, now, req>>

Saved ==
  /\ lock # None
  /\ store' = [store EXCEPT ![draft.token] = draft.row]
  /\ minted' = [minted EXCEPT ![draft.token] = draft.row]
  /\ lock' = None /\ draft' = None
  /\ UNCHANGED <<wanted, public, now, req>>

Revoke(t) ==
  /\ t \in Kept
  /\ store' = [store EXCEPT ![t] = None]
  /\ UNCHANGED <<minted, lock, draft, wanted, public, now, req>>

\* By name the key is looked up first and removed in a later step.
RevokeByName(t) ==
  /\ wanted = None /\ t \in Kept
  /\ wanted' = t
  /\ UNCHANGED <<store, minted, lock, draft, public, now, req>>

RemoveNamed ==
  /\ wanted # None
  /\ store' = [store EXCEPT ![wanted] = None]
  /\ wanted' = None
  /\ UNCHANGED <<minted, lock, draft, public, now, req>>

\* Mutant: a copy of the row that the revocation does not reach.
RowAsMinted(t) == minted[t]

Row(t) == store[t]

\* The row is kept, has not expired at the request's time, allows the scope,
\* and a labelled one is used for reading only.
Verified(t, scope, time) ==
  /\ Row(t) # None
  /\ Row(t).until > time
  /\ Row(t).scope = "write" \/ scope = "read"
  /\ Row(t).labelled => scope = "read"

(***************************************************************************)
(* Requests.                                                               *)
(***************************************************************************)

\* Only an idle request starts; what its token was worth is remembered.
Begin(r, mode, scope, cred) ==
  /\ req[r].at = "idle"
  /\ mode \in {"public", "lenient"} => scope = "read"
  /\ req' = [req EXCEPT ![r] =
       [at |-> "signed", mode |-> mode, scope |-> scope, cred |-> cred, now |-> now,
        dead |-> cred \in Tokens /\ minted[cred] # None
                   /\ ~(cred \in Kept /\ store[cred].until > now), by |-> "nobody"]]
  /\ UNCHANGED <<store, minted, lock, draft, wanted, public, now>>

\* A signed token decides at once, a broken one is refused at once, and a
\* management endpoint takes nothing else.  The host has verification keys;
\* without any it serves one local owner and admits every request.
CheckSigned(r) ==
  LET q == req[r] IN
  /\ q.at = "signed"
  /\ req' = [req EXCEPT ![r] =
       IF q.cred = "signed" THEN [q EXCEPT !.at = "load", !.by = "signed"]
       ELSE IF \/ q.cred = "broken" \/ q.mode = "cwt"
               \/ (q.mode = "runtime" /\ q.cred = "nothing") THEN NoRequest
       ELSE [q EXCEPT !.at = "load"]]
  /\ UNCHANGED <<store, minted, lock, draft, wanted, public, now>>

\* Anonymous readers are let in where the Space is public.
Fallback(q) == q.mode \in {"public", "lenient"} /\ public

\* The runtime API takes no labelled token.
Usable(q) ==
  /\ q.cred \in Tokens
  /\ Verified(q.cred, q.scope, q.now)
  /\ q.mode = "runtime" => ~Row(q.cred).labelled

\* With the Space loaded: a lenient read of a public Space does not look at
\* the token, every other mode verifies it before it falls back.
Authorize(r) ==
  LET q == req[r] IN
  /\ q.at = "load"
  /\ req' = [req EXCEPT ![r] =
       IF q.by = "signed" THEN [q EXCEPT !.at = "in"]
       ELSE IF q.mode = "lenient" /\ public THEN [q EXCEPT !.at = "in", !.by = "anonymous"]
       ELSE IF Usable(q) THEN [q EXCEPT !.at = "in", !.by = "token"]
       ELSE IF Fallback(q) THEN [q EXCEPT !.at = "in", !.by = "anonymous"]
       ELSE NoRequest]
  /\ UNCHANGED <<store, minted, lock, draft, wanted, public, now>>

Finish(r) ==
  /\ req[r].at = "in"
  /\ req' = [req EXCEPT ![r] = NoRequest]
  /\ UNCHANGED <<store, minted, lock, draft, wanted, public, now>>

\* What the caller may read of the Wiki: a label-less credential everything,
\* a labelled token its labels, an anonymous reader unlabelled pages only.
WikiAccess(q) ==
  CASE q.by = "signed" -> {"plain", "labelled", "other"}
    [] q.by = "token" -> {"plain", "labelled"} \cup
                         (IF minted[q.cred].labelled THEN {} ELSE {"other"})
    [] OTHER -> {"plain"}

SetPublic ==
  /\ public' = ~public
  /\ UNCHANGED <<store, minted, lock, draft, wanted, now, req>>

Tick ==
  /\ now < MaxTime
  /\ now' = now + 1
  /\ UNCHANGED <<store, minted, lock, draft, wanted, public, req>>

Next ==
  \/ \E t \in Tokens : Revoke(t) \/ RevokeByName(t) \/ \E row \in Rows : Mint(t, row)
  \/ Saved \/ RemoveNamed \/ SetPublic \/ Tick
  \/ \E r \in Requests :
       \/ \E mode \in Modes, scope \in Scopes, cred \in Credentials : Begin(r, mode, scope, cred)
       \/ CheckSigned(r) \/ Authorize(r) \/ Finish(r)

Spec == Init /\ [][Next]_vars

-----------------------------------------------------------------------------

TypeOK ==
  /\ store \in [Tokens -> Rows \cup {None}] /\ minted \in [Tokens -> Rows \cup {None}]
  /\ lock \in Tokens \cup {None} /\ wanted \in Tokens \cup {None}
  /\ draft # None => draft \in [token : Tokens, row : Rows]
  /\ public \in BOOLEAN /\ now \in 0..MaxTime
  /\ req \in [Requests -> [at : {"idle", "signed", "load", "in"}, mode : Modes,
                           scope : Scopes, cred : Credentials, now : 0..MaxTime,
                           dead : BOOLEAN,
                           by : {"nobody", "signed", "token", "anonymous"}]]

\* Names are audit identities: no two kept tokens share one and the cap
\* holds, although rows are checked before they are saved and revoked
\* without the lock.
NamesAreUnique ==
  /\ Cardinality(Kept) <= MaxTokens
  /\ \A s, t \in Kept : store[s].name = store[t].name => s = t

\* A token that was revoked or had expired when the request began admits
\* nobody by itself, and never widens what its bearer reads: at most what the
\* token was minted for.
AdmittedByLiveCredential ==
  \A r \in Requests : LET q == req[r] IN
    q.at = "in" =>
      /\ q.by = "token" => ~q.dead /\ (q.scope = "write" => minted[q.cred].scope = "write")
      /\ q.mode \in {"cwt", "credentialed", "runtime"} => q.by # "anonymous"
      /\ q.cred \in Tokens /\ (q.dead \/ (minted[q.cred] # None /\ minted[q.cred].labelled))
           => "other" \notin WikiAccess(q)

=============================================================================
