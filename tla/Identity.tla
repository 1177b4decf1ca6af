------------------------------ MODULE Identity ------------------------------
(***************************************************************************)
(* Accounts and what acts for them, together: a connection or a key is     *)
(* made by a signed-in user, and deleting the account takes both along     *)
(* while their own requests are still in flight.                           *)
(***************************************************************************)
EXTENDS Account, AgentAccess

CONSTANTS Scenarios   \* bound: how a run starts (members, the phone code one
                      \* of them was sent, registered clients) and how many
                      \* requests of each kind and faults it may have

ASSUME IdentityAssumption ==
    /\ Holders \subseteq Users
    /\ \A s \in Scenarios :
         /\ s.members \subseteq Users /\ s.registered \subseteq Clients
         /\ s.first \subseteq s.members \X Numbers /\ \A f, g \in s.first : f = g
         /\ s.budget \in [{"account", "access", "fault"} -> Nat]

VARIABLE left         \* what is left of the scenario's requests and faults

vars == <<accountVars, accessVars, left>>

Init ==
    \E s \in Scenarios :
        /\ InitAccount(s.members, s.first)
        /\ InitAccess(s.registered)
        /\ left = s.budget

Spend(what) == left[what] > 0 /\ left' = [left EXCEPT ![what] = @ - 1]
Quiet == UNCHANGED left

AccountArrives(r) == ArriveAccount(r) /\ Spend("account") /\ UNCHANGED accessVars

SignIn(u) ==
    /\ \E typed \in {Username[u], Email[u]} : login_for_access_token(u, typed)
    /\ Spend("account") /\ UNCHANGED accessVars

SignedOut(u) == SessionEnds(u) /\ Spend("fault") /\ UNCHANGED accessVars

AccountServed(r) == ServeAccount(r) /\ Quiet /\ UNCHANGED accessVars

MessageLost(r) == SendFails(r) /\ Spend("fault") /\ UNCHANGED accessVars

AccountAges(t) == Age(t) /\ Quiet /\ UNCHANGED accessVars

(* Deleting the account is one transaction over both.                      *)
AccountDeleted(r) ==
    delete_account(r) /\ OwnedRowDeletes(reqs[r].user) /\ Quiet

(* Only a signed-in user decides about connections and keys.               *)
UserConnects(h) ==
    /\ \E u \in Holders : Authenticated(u) /\ ArriveAccess(h, u)
    /\ Spend("access") /\ UNCHANGED accountVars

UserKeys ==
    /\ \E u \in Holders : Authenticated(u) /\
          (create_api_key(u, Exists(u)) \/ revoke_api_key(u))
    /\ Spend("access") /\ UNCHANGED accountVars

ClientPresents(h) == Present(h) /\ Spend("access") /\ UNCHANGED accountVars

ClientRevokes == (\E i \in Saved : revoke_token(i)) /\ Spend("access") /\ UNCHANGED accountVars

ClientRegisters(c) == register_client(c) /\ Spend("access") /\ UNCHANGED accountVars

AccessServed(h) == ServeAccess(h, Exists) /\ Quiet /\ UNCHANGED accountVars

AccessExpires == (\E i \in Saved : ExpireSaved(i)) /\ Quiet /\ UNCHANGED accountVars

HandlerDies(h) == DropCall(h) /\ Spend("fault") /\ UNCHANGED accountVars

Next ==
    \/ \E r \in Requests : \/ AccountArrives(r) \/ AccountServed(r)
                           \/ MessageLost(r) \/ AccountDeleted(r)
    \/ \E u \in Users : SignIn(u) \/ SignedOut(u)
    \/ \E t \in Ids : AccountAges(t)
    \/ \E h \in Handlers : \/ UserConnects(h) \/ ClientPresents(h)
                           \/ AccessServed(h) \/ HandlerDies(h)
    \/ UserKeys
    \/ ClientRevokes
    \/ AccessExpires
    \/ \E c \in Clients : ClientRegisters(c)

Spec == Init /\ [][Next]_vars

TypeOK == TypeOKAccount /\ TypeOKAccess /\ DOMAIN left = {"account", "access", "fault"}

(* Whatever still acts for a user, a usable token or an API key, acts for  *)
(* an account that exists: a consent given, or a token exchanged, while    *)
(* the account was being deleted leaves nothing that works.                *)
NoOrphanAccess ==
    /\ \A i \in Saved : load_access_token(i) => Exists(saved[i].of[1])
    /\ \A u \in Holders : authenticate(u) => Exists(u)

(* A code or a token that proves something about its holder is accepted    *)
(* once and stands a bounded number of wrong guesses, however many         *)
(* requests present it at the same time (verify_phone, reset_password,     *)
(* verify_email).                                                          *)
CodesHonest == TypeOK /\ AcceptedOnce /\ GuessBound

(* An application gets tokens once for a code, and never scopes the user   *)
(* did not consent to, through any chain of exchanges and refreshes        *)
(* (exchange_code, exchange_refresh).                                      *)
ConsentHonoured == RedeemedOnce /\ ScopesConsented

(* An answered revocation has killed the tokens that were live when it     *)
(* began, and nothing acts for an account that was deleted                 *)
(* (revoke_connection, delete_account).                                    *)
AccessEnds == RevocationComplete /\ NoOrphanAccess
==============================================================================
