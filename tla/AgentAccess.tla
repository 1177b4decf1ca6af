---------------------------- MODULE AgentAccess ----------------------------
(***************************************************************************)
(* What lets a program act for a user: the MCP authorization server        *)
(* (clients, consents, codes, tokens; access_service.py over               *)
(* sql_mcp_repo.py and mcp_oauth_provider.py) and the API keys.            *)
(*                                                                         *)
(* A consent is one row per user and client.  A handler that changes it    *)
(* loads it, decides on the loaded copy and commits the columns it         *)
(* changed, so two handlers interleave between load and commit; a code is  *)
(* redeemed by one conditional UPDATE.  A token exchange reads the token   *)
(* or code, then the consent, and only then saves the new pair.            *)
(*                                                                         *)
(* Codes and tokens are numbers in the order they were saved.              *)
(***************************************************************************)
EXTENDS Integers, FiniteSets

CONSTANTS Holders,     \* the users whose consent is asked for
          Clients,     \* applications that register themselves
          Scopes,      \* the capabilities a consent may hold
          Grantable,   \* the ones this deployment may hand out
          Destructive, \* the ones an edit must confirm
          Handlers,    \* request handlers that may be in flight
          MaxSaved     \* bound: codes and token pairs ever saved

ASSUME AccessAssumption == /\ Holders # {} /\ Clients # {}
                           /\ Grantable \subseteq Scopes
                           /\ Destructive \subseteq Scopes
                           /\ MaxSaved \in Nat \ {0}

VARIABLES clients,  \* client -> registered scopes ({} : no restriction), or {"none"}
          grants,   \* <<user, client>> -> the consent row
          saved,    \* number -> the code or token row
          count,    \* numbers used
          calls,    \* handler -> what it does next and what it loaded
          keys,     \* user -> status of its API key
          consented \* <<user, client>> -> every scope ever agreed to

accessVars == <<clients, grants, saved, count, calls, keys, consented>>

Pairs == Holders \X Clients
Saved == 1..MaxSaved
Halves == {"access", "refresh"}
Unregistered == {"none"}

(* MCPAgentGrantModel: status and scopes; "NONE" when there is no row.     *)
GrantRow == [status : {"NONE", "ACTIVE", "PAUSED", "REVOKED"},
             scopes : SUBSET Scopes]

(* MCPAuthorizationCodeModel and MCPTokenModel.  A token row stands for    *)
(* the access and refresh pair one exchange saves, access first: access is *)
(* whether the access half is live, refresh whether the refresh half is    *)
(* there and live.  from is the code or token it was exchanged for.        *)
SavedRow == [kind : {"FREE", "CODE", "PAIR"}, of : Pairs,
             scopes : SUBSET Scopes, access : BOOLEAN, refresh : BOOLEAN,
             used : BOOLEAN, expired : BOOLEAN, from : 0..MaxSaved]

Rested == [op |-> "idle", of |-> CHOOSE p \in Pairs : TRUE,
           row |-> [status |-> "NONE", scopes |-> {}],
           scopes |-> {}, from |-> 0, live |-> {}]

CallOps == {"idle", "approve", "reread", "code", "pause", "resume", "revoke",
            "kill", "killed", "edit", "redeem", "refresh", "issue", "second",
            "rotate"}

TypeOKAccess ==
    /\ clients \in [Clients -> (SUBSET Scopes) \cup {Unregistered}]
    /\ grants \in [Pairs -> GrantRow]
    /\ saved \in [Saved -> SavedRow]
    /\ count \in 0..MaxSaved
    /\ calls \in [Handlers -> [op : CallOps, of : Pairs, row : GrantRow,
                               scopes : SUBSET Scopes, from : 0..MaxSaved,
                               live : SUBSET (Saved \X Halves)]]
    /\ keys \in [Holders -> {"none", "ACTIVE", "REVOKED"}]
    /\ consented \in [Pairs -> SUBSET Scopes]

InitAccess(registered) ==
    /\ clients = [c \in Clients |-> IF c \in registered THEN {} ELSE Unregistered]
    /\ grants = [p \in Pairs |-> [status |-> "NONE", scopes |-> {}]]
    /\ saved = [i \in Saved |-> [kind |-> "FREE", of |-> Rested.of,
                                 scopes |-> {}, access |-> FALSE,
                                 refresh |-> FALSE, used |-> FALSE,
                                 expired |-> FALSE, from |-> 0]]
    /\ count = 0
    /\ calls = [h \in Handlers |-> Rested]
    /\ keys = [u \in Holders |-> "none"]
    /\ consented = [p \in Pairs |-> {}]

----------------------------------------------------------------------------
(* The rules                                                               *)

(* AgentGrant.is_active: a paused or revoked consent, or one without       *)
(* scopes, authorizes nothing.                                             *)
is_active(g) == g.status = "ACTIVE" /\ g.scopes # {}

(* resolve_scopes: a request outside what the deployment grants, or        *)
(* outside what the client registered for, is refused as a whole.          *)
resolve_scopes(c, requested) ==
    /\ clients[c] # Unregistered
    /\ requested \subseteq Grantable
    /\ clients[c] # {} => requested \subseteq clients[c]

(* The loaded consent was deleted with its account.                        *)
Vanished(p, loaded) == loaded.status # "NONE" /\ grants[p].status = "NONE"

(* The commit of the columns that differ from the loaded consent.  A row   *)
(* that vanished matches nothing, and the commit raises.                   *)
CommitGrant(p, loaded, changed) ==
    grants' = IF Vanished(p, loaded) THEN grants
              ELSE [grants EXCEPT ![p] =
        [status |-> IF changed.status # loaded.status THEN changed.status
                    ELSE @.status,
         scopes |-> IF changed.scopes # loaded.scopes THEN changed.scopes
                    ELSE @.scopes]]

(* The tokens of a consent that still work as such, each half a token.     *)
LiveTokens(p) == {t \in Saved \X Halves :
                    /\ saved[t[1]].kind = "PAIR" /\ saved[t[1]].of = p
                    /\ saved[t[1]][t[2]]}

Free(h) == calls[h].op = "idle"

Enter(h, op, p, scopes, from) ==
    /\ Free(h)
    /\ calls' = [calls EXCEPT ![h] =
                    [op |-> op, of |-> p, row |-> grants[p],
                     scopes |-> scopes, from |-> from,
                     live |-> IF op = "revoke" THEN LiveTokens(p) ELSE {}]]

Next_(h, op) == calls' = [calls EXCEPT ![h].op = op]

Leave(h) == calls' = [calls EXCEPT ![h] = Rested]

Save(row) == /\ count < MaxSaved
             /\ count' = count + 1
             /\ saved' = [saved EXCEPT ![count'] = row]

(* register_client: a new registration, or one that replaces it.           *)
register_client(c) ==
    /\ \E s \in {{}, Scopes \ Destructive} :
          clients[c] # s /\ clients' = [clients EXCEPT ![c] = s]
    /\ UNCHANGED <<grants, saved, count, calls, keys, consented>>

----------------------------------------------------------------------------
(* Consent                                                                 *)

(* approve: validated once more on its own; upsert_grant then loads the    *)
(* row.                                                                    *)
approve(h, p, scopes) ==
    /\ resolve_scopes(p[2], scopes)
    /\ Enter(h, "approve", p, scopes, 0)

(* describe_authorization: the request the consent page may show.          *)
describe_authorization(p, requested) ==
    resolve_scopes(p[2], requested)

(* approve_consent_request: the page's request is validated again, what    *)
(* was approved is cut to what was requested, and approving nothing is     *)
(* refused.                                                                *)
approve_consent_request(h, p, requested, approved) ==
    LET scopes == approved \cap requested IN
    /\ describe_authorization(p, requested)
    /\ scopes # {}
    /\ approve(h, p, scopes)
    /\ UNCHANGED <<clients, grants, saved, count, keys, consented>>

(* upsert_grant commits: a new row, or a reactivated one whose scopes are  *)
(* replaced.  A second insert is refused by the unique index, the row of a *)
(* deleted account by the foreign key.                                     *)
upsert_grant(h, exists) ==
    LET k == calls[h] IN
    /\ k.op = "approve"
    /\ \/ /\ exists
          /\ IF (k.row.status = "NONE") # (grants[k.of].status = "NONE")
             THEN Leave(h) /\ UNCHANGED <<grants, consented>>
             ELSE /\ CommitGrant(k.of, k.row, [status |-> "ACTIVE",
                                               scopes |-> k.scopes])
                  /\ consented' = [consented EXCEPT ![k.of] = @ \cup k.scopes]
                  /\ Next_(h, "reread")
       \/ /\ ~exists
          /\ Leave(h)
          /\ UNCHANGED <<grants, consented>>
    /\ UNCHANGED <<clients, saved, count, keys>>

(* It reads the row back, which must still be there: the account may have  *)
(* been deleted after the commit.                                          *)
reread_grant(h) ==
    /\ calls[h].op = "reread"
    /\ IF grants[calls[h].of].status = "NONE" THEN Leave(h) ELSE Next_(h, "code")
    /\ UNCHANGED <<clients, grants, saved, count, keys, consented>>

(* save_code: the code carries the scopes that were approved.              *)
save_code(h) ==
    LET k == calls[h] IN
    /\ k.op = "code"
    /\ Save([kind |-> "CODE", of |-> k.of, scopes |-> k.scopes,
             access |-> FALSE, refresh |-> FALSE, used |-> FALSE,
             expired |-> FALSE, from |-> 0])
    /\ Leave(h)
    /\ UNCHANGED <<clients, grants, keys, consented>>

----------------------------------------------------------------------------
(* Token exchange                                                          *)

(* take_code: one conditional UPDATE marks an unused, unexpired code used. *)
Takeable(i) == saved[i].kind = "CODE" /\ ~saved[i].used /\ ~saved[i].expired

(* load_authorization_code: a used code looks like none at all.            *)
load_authorization_code(i) == saved[i].kind = "CODE" /\ ~saved[i].used

(* Mutant of take_code: the code is read, and marked used by nobody.       *)
take_code_read(h, i) ==
    /\ Takeable(i)
    /\ Enter(h, "redeem", saved[i].of, saved[i].scopes, i)
    /\ UNCHANGED <<clients, grants, saved, count, keys, consented>>

(* exchange_code: the code is taken whatever follows.                      *)
take_code(h, i) ==
    /\ load_authorization_code(i) /\ Takeable(i)
    /\ saved' = [saved EXCEPT ![i].used = TRUE]
    /\ Enter(h, "redeem", saved[i].of, saved[i].scopes, i)
    /\ UNCHANGED <<clients, grants, count, keys, consented>>

(* _require_active_grant: the consent is there and may be exercised.       *)
require_active_grant(p) == is_active(grants[p])

(* exchange_code reads the consent: it must be active, and a narrowing     *)
(* since the code was minted narrows what is issued.                       *)
redeem_grant(h) ==
    LET k == calls[h]  scopes == k.scopes \cap grants[k.of].scopes IN
    /\ k.op = "redeem"
    /\ IF require_active_grant(k.of) /\ scopes # {}
       THEN calls' = [calls EXCEPT ![h].op = "issue", ![h].scopes = scopes]
       ELSE Leave(h)
    /\ UNCHANGED <<clients, grants, saved, count, keys, consented>>

(* Mutant of Narrows: whatever is asked for is handed out.                 *)
NarrowsAny(requested, held) == requested # {}

(* A refresh may ask for fewer scopes, never for other ones.               *)
Narrows(requested, held) == requested # {} /\ requested \subseteq held

(* load_refresh_token: the token endpoint's own look at it.                *)
load_refresh_token(i) == saved[i].kind = "PAIR" /\ saved[i].refresh

(* exchange_refresh: the presented refresh token is live and unexpired.    *)
present_refresh(h, i, requested) ==
    /\ load_refresh_token(i) /\ ~saved[i].expired
    /\ Narrows(requested, saved[i].scopes)
    /\ Enter(h, "refresh", saved[i].of, requested, i)
    /\ UNCHANGED <<clients, grants, saved, count, keys, consented>>

(* It reads the consent, which must be active.                             *)
refresh_grant(h) ==
    LET k == calls[h] IN
    /\ k.op = "refresh"
    /\ IF require_active_grant(k.of) THEN Next_(h, "rotate") ELSE Leave(h)
    /\ UNCHANGED <<clients, grants, saved, count, keys, consented>>

(* It revokes the presented token; whether this call did it is not asked.  *)
rotate(h) ==
    LET k == calls[h] IN
    /\ k.op = "rotate"
    /\ saved' = [saved EXCEPT ![k.from].refresh = FALSE]
    /\ Next_(h, "issue")
    /\ UNCHANGED <<clients, grants, count, keys, consented>>

(* _issue commits the access token,                                        *)
issue(h) ==
    LET k == calls[h] IN
    /\ k.op = "issue"
    /\ Save([kind |-> "PAIR", of |-> k.of, scopes |-> k.scopes,
             access |-> TRUE, refresh |-> FALSE, used |-> FALSE,
             expired |-> FALSE, from |-> k.from])
    /\ calls' = [calls EXCEPT ![h].op = "second", ![h].from = count']
    /\ UNCHANGED <<clients, grants, keys, consented>>

(* then, in a commit of its own, the refresh token.                        *)
issue_refresh(h) ==
    LET k == calls[h] IN
    /\ k.op = "second"
    /\ saved' = [saved EXCEPT ![k.from].refresh = TRUE]
    /\ Leave(h)
    /\ UNCHANGED <<clients, grants, count, keys, consented>>

(* RFC 7009 revocation of one token, by its bearer.                        *)
revoke_token(i) ==
    /\ saved[i].kind = "PAIR"
    /\ \/ /\ saved[i].access
          /\ saved' = [saved EXCEPT ![i].access = FALSE]
       \/ /\ saved[i].refresh
          /\ saved' = [saved EXCEPT ![i].refresh = FALSE]
    /\ UNCHANGED <<clients, grants, count, calls, keys, consented>>

(* A code or a token reaches its expiry.                                   *)
ExpireSaved(i) ==
    /\ Takeable(i) \/ \E half \in Halves : <<i, half>> \in LiveTokens(saved[i].of)
    /\ ~saved[i].expired
    /\ saved' = [saved EXCEPT ![i].expired = TRUE]
    /\ UNCHANGED <<clients, grants, count, calls, keys, consented>>

(* load_access_token: a live token whose consent is active and covers it.  *)
load_access_token(i) ==
    LET g == grants[saved[i].of] IN
    /\ saved[i].kind = "PAIR" /\ saved[i].access /\ ~saved[i].expired
    /\ is_active(g)
    /\ saved[i].scopes \subseteq g.scopes

----------------------------------------------------------------------------
(* The user manages the connection                                         *)

(* The owner's row is loaded; a connection that is not theirs is not       *)
(* found.                                                                  *)
manage_connection(h, p, op, scopes) ==
    /\ grants[p].status # "NONE"
    /\ Enter(h, op, p, scopes, 0)
    /\ UNCHANGED <<clients, grants, saved, count, keys, consented>>

(* Mutant of set_grant_status: the name of the action is stored.           *)
set_grant_status_named(h) ==
    LET k == calls[h] IN
    /\ k.op \in {"pause", "resume"}
    /\ IF k.row.status = "REVOKED" THEN UNCHANGED grants
       ELSE CommitGrant(k.of, k.row, [k.row EXCEPT !.status = k.op])
    /\ Leave(h)
    /\ UNCHANGED <<clients, saved, count, keys, consented>>

(* set_grant_status: a revoked consent is refused, a repeat changes        *)
(* nothing.                                                                *)
set_grant_status(h) ==
    LET k == calls[h]
        to == IF k.op = "pause" THEN "PAUSED" ELSE "ACTIVE" IN
    /\ k.op \in {"pause", "resume"}
    /\ IF k.row.status = "REVOKED" THEN UNCHANGED grants
       ELSE CommitGrant(k.of, k.row, [k.row EXCEPT !.status = to])
    /\ Leave(h)
    /\ UNCHANGED <<clients, saved, count, keys, consented>>

(* Mutant of revoke_grant: a consent that is already revoked is answered   *)
(* at once.                                                                *)
revoke_grant_once(h) ==
    LET k == calls[h] IN
    /\ k.op = "revoke"
    /\ CommitGrant(k.of, k.row, [k.row EXCEPT !.status = "REVOKED"])
    /\ Next_(h, IF k.row.status = "REVOKED" THEN "killed" ELSE "kill")
    /\ UNCHANGED <<clients, saved, count, keys, consented>>

(* revoke_grant: the status is committed first, unless a retry finds it    *)
(* committed already.                                                      *)
revoke_grant(h) ==
    LET k == calls[h] IN
    /\ k.op = "revoke"
    /\ CommitGrant(k.of, k.row, [k.row EXCEPT !.status = "REVOKED"])
    /\ IF Vanished(k.of, k.row) /\ k.row.status # "REVOKED"
       THEN Leave(h) ELSE Next_(h, "kill")
    /\ UNCHANGED <<clients, saved, count, keys, consented>>

(* revoke_tokens_for_grant: every token of the consent is revoked.         *)
revoke_tokens_for_grant(h) ==
    LET k == calls[h] IN
    /\ k.op = "kill"
    /\ saved' = [i \in Saved |->
                    IF saved[i].kind = "PAIR" /\ saved[i].of = k.of
                    THEN [saved[i] EXCEPT !.access = FALSE, !.refresh = FALSE]
                    ELSE saved[i]]
    /\ Next_(h, "killed")
    /\ UNCHANGED <<clients, grants, count, keys, consented>>

(* The revocation is answered.                                             *)
answer_revoked(h) ==
    /\ calls[h].op = "killed"
    /\ Leave(h)
    /\ UNCHANGED <<clients, grants, saved, count, keys, consented>>

(* The columns an edit replaces.                                           *)
update_grant_binding(k) ==
    CommitGrant(k.of, k.row, [k.row EXCEPT !.scopes = k.scopes])

(* update_connected_app: never for a revoked consent, never to no scope,   *)
(* and a destructive scope is added only when confirmed; the status is     *)
(* left alone.                                                             *)
update_connected_app(h, confirmed) ==
    LET k == calls[h]  added == k.scopes \ k.row.scopes IN
    /\ k.op = "edit"
    /\ IF /\ k.row.status # "REVOKED" /\ k.scopes # {}
          /\ added \cap Destructive # {} => confirmed
       THEN /\ update_grant_binding(k)
            /\ consented' = [consented EXCEPT ![k.of] = @ \cup k.scopes]
       ELSE UNCHANGED <<grants, consented>>
    /\ Leave(h)
    /\ UNCHANGED <<clients, saved, count, keys>>

(* A handler dies between two of its commits (before the first one it      *)
(* leaves no trace).                                                       *)
DropCall(h) ==
    /\ calls[h].op \in {"reread", "code", "redeem", "issue", "second", "kill"}
    /\ Leave(h)
    /\ UNCHANGED <<clients, grants, saved, count, keys, consented>>

----------------------------------------------------------------------------
(* API keys                                                                *)

create_api_key(u, exists) ==
    /\ exists /\ keys[u] = "none"
    /\ keys' = [keys EXCEPT ![u] = "ACTIVE"]
    /\ UNCHANGED <<clients, grants, saved, count, calls, consented>>

revoke_api_key(u) ==
    /\ keys[u] = "ACTIVE"
    /\ keys' = [keys EXCEPT ![u] = "REVOKED"]
    /\ UNCHANGED <<clients, grants, saved, count, calls, consented>>

(* APIKeyService.authenticate and APIKey.is_valid.                         *)
authenticate(u) == keys[u] = "ACTIVE"

(* Mutant of OwnedRowDeletes: the consents have no foreign key to cascade. *)
OwnedRowDeletesKeys(u) ==
    /\ keys' = [v \in Holders |-> IF v = u THEN "none" ELSE keys[v]]
    /\ UNCHANGED <<clients, grants, saved, count, calls, consented>>

(* What deleting an account takes along: its keys explicitly, its consents *)
(* by the foreign key.  Code and token rows stay, and name no consent.     *)
OwnedRowDeletes(u) ==
    /\ keys' = [v \in Holders |-> IF v = u THEN "none" ELSE keys[v]]
    /\ grants' = [p \in Pairs |-> IF p[1] = u
                                  THEN [status |-> "NONE", scopes |-> {}]
                                  ELSE grants[p]]
    /\ UNCHANGED <<clients, saved, count, calls, consented>>

----------------------------------------------------------------------------
(* A request of the user u, or of a client of theirs, arrives.             *)
ArriveAccess(h, u) ==
    \/ \E c \in Clients, a, q \in SUBSET Scopes :
          approve_consent_request(h, <<u, c>>, q, a)
    \/ \E c \in Clients, op \in {"pause", "resume", "revoke"} :
          manage_connection(h, <<u, c>>, op, {})
    \/ \E c \in Clients, s \in SUBSET Scopes :
          manage_connection(h, <<u, c>>, "edit", s)

(* A client presents what it holds.                                        *)
Present(h) ==
    \E i \in Saved :
        \/ take_code(h, i)
        \/ \E s \in SUBSET Scopes : present_refresh(h, i, s)

(* A request in flight takes its next step; exists(u) is whether the       *)
(* account u is there when a row that references it is written.            *)
ServeAccess(h, exists(_)) ==
    \/ upsert_grant(h, exists(calls[h].of[1]))
    \/ reread_grant(h)
    \/ save_code(h)
    \/ redeem_grant(h)
    \/ refresh_grant(h)
    \/ rotate(h)
    \/ issue(h)
    \/ issue_refresh(h)
    \/ set_grant_status(h)
    \/ revoke_grant(h)
    \/ revoke_tokens_for_grant(h)
    \/ answer_revoked(h)
    \/ \E b \in BOOLEAN : update_connected_app(h, b)

----------------------------------------------------------------------------
(* An authorization code yields at most one pair of tokens, however many   *)
(* requests redeem it at once (sql_mcp_repo: "Redeeming a code is a        *)
(* compare-and-swap").                                                     *)
RedeemedOnce ==
    \A i \in Saved : saved[i].kind = "CODE" =>
        Cardinality({j \in Saved : saved[j].kind = "PAIR"
                                   /\ saved[j].from = i}) <= 1

(* Through codes, refreshes, narrowing re-consents and edits, no token     *)
(* holds a scope its user never agreed to for that client.                 *)
ScopesConsented ==
    \A i \in Saved : saved[i].scopes \subseteq consented[saved[i].of]

(* When a revocation is answered, every token that was live when it began  *)
(* is dead, a retry of a revocation that died half-way included.  A token  *)
(* saved meanwhile by an exchange under way may be live, its consent not.  *)
RevocationComplete ==
    \A h \in Handlers : calls[h].op = "killed" =>
        calls[h].live \cap LiveTokens(calls[h].of) = {}
============================================================================
