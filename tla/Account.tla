------------------------------ MODULE Account ------------------------------
(***************************************************************************)
(* Accounts, as routers/v1/users.py runs them: registration, the emailed   *)
(* verification and reset links, sign-in, the profile, the phone number    *)
(* and account deletion.                                                   *)
(*                                                                         *)
(* A handler loads the user row, works on its own copy and commits, so two *)
(* handlers of one account interleave between the load and the commit.     *)
(* SQLAlchemy writes only the columns whose value differs from the loaded  *)
(* one: Flush is that rule, and everything a stale copy can or cannot      *)
(* overwrite follows from it.  Links and codes are consumed by one         *)
(* conditional UPDATE, which reads and writes the stored row.              *)
(*                                                                         *)
(* A link, a code or a password is a number drawn from one counter, 0 is   *)
(* an empty column.  Time is the age of a number: 0 fresh, 1 its send      *)
(* cooldown has elapsed, 2 it has expired.                                 *)
(***************************************************************************)
EXTENDS Integers, FiniteSets

CONSTANTS Users,        \* primary keys of accounts; one is never used again,
                        \* so who registers again is another of them
          Numbers,      \* phone numbers in E.164 form
          NoNumber,     \* an empty phone_number column
          Requests,     \* request handlers that may be in flight
          MaxAttempts,  \* PHONE_VERIFICATION_MAX_ATTEMPTS
          MaxIds,       \* bound: links, codes and passwords ever drawn
          Username,     \* user -> the name it registers under
          Email,        \* user -> its address
          Lower(_),     \* a name or address in lower case
          Enforced      \* whether sign-in demands a verified address

ASSUME AccountAssumption == /\ Users # {} /\ IsFiniteSet(Requests)
                            /\ MaxAttempts \in Nat \ {0}
                            /\ MaxIds \in Nat \ {0, 1}
                            /\ Enforced \in BOOLEAN
                            /\ NoNumber \notin Numbers

VARIABLES users,    \* user -> its row (UserModel); pw = 0 when there is none
          reqs,     \* request -> the handler it runs and the row it loaded
          signedIn, \* users holding a JWT pair
          mailed,   \* links and codes handed to the mail or SMS transport
          spent,    \* link or code -> how often it was accepted
          guesses,  \* code -> how often a guess was compared with it since
                    \* its counter was last cleared
          age,      \* number -> 0 fresh, 1 cooled down, 2 expired
          ids       \* numbers drawn so far

accountVars == <<users, reqs, signedIn, mailed, spent, guesses, age, ids>>

Ids == 1..MaxIds

(* The columns of a user row that some handler decides on.                 *)
UserRow == [pw : 0..MaxIds, verified : BOOLEAN,
            vtok : 0..MaxIds, vsent : 0..MaxIds,
            rtok : 0..MaxIds, rsent : 0..MaxIds,
            phone : Numbers \cup {NoNumber}, phoneOk : BOOLEAN,
            code : 0..MaxIds, csent : 0..MaxIds, tries : Nat,
            profile : 0..1, avatar : BOOLEAN, gone : BOOLEAN]

NoRow == [pw |-> 0, verified |-> FALSE, vtok |-> 0, vsent |-> 0,
          rtok |-> 0, rsent |-> 0, phone |-> NoNumber, phoneOk |-> FALSE,
          code |-> 0, csent |-> 0, tries |-> 0, profile |-> 0,
          avatar |-> FALSE, gone |-> FALSE]

(* What is left of a deleted row: its key, which no insert draws again.    *)
GoneRow == [NoRow EXCEPT !.gone = TRUE]

(* A handler in flight: op is what it will do next, user and row what it   *)
(* loaded, arg the link, code or password it was sent or has drawn, and    *)
(* number the phone number it was sent.                                    *)
Idle == [op |-> "idle", user |-> CHOOSE u \in Users : TRUE, row |-> NoRow,
         arg |-> 0, number |-> NoNumber]

Sends == {"mail_verify", "mail_reset", "sms"}

Ops == {"idle", "resend", "forgot", "verify", "reset", "change", "profile",
        "avatar", "phone", "phone_send",
        "phone_resend", "phone_verify", "phone_delete", "delete"} \cup Sends

TypeOKAccount ==
    /\ users \in [Users -> UserRow]
    /\ reqs \in [Requests -> [op : Ops, user : Users, row : UserRow,
                              arg : 0..MaxIds,
                              number : Numbers \cup {NoNumber}]]
    /\ signedIn \subseteq Users
    /\ mailed \subseteq [user : Users, id : Ids, to : Numbers \cup {NoNumber}]
    /\ spent \in [Ids -> Nat]
    /\ guesses \in [Ids -> Nat]
    /\ age \in [Ids -> 0..2]
    /\ ids \in 0..MaxIds

(* The accounts that exist, signed in, when a run starts; first holds the  *)
(* member and the number a phone code was already sent to, if any.         *)
InitAccount(members, first) ==
    /\ users = [u \in Users |->
          IF u \notin members THEN NoRow
          ELSE IF \E f \in first : f[1] = u
          THEN [NoRow EXCEPT !.pw = 1, !.code = 2, !.csent = 2,
                             !.phone = (CHOOSE f \in first : f[1] = u)[2]]
          ELSE [NoRow EXCEPT !.pw = 1]]
    /\ mailed = {[user |-> f[1], id |-> 2, to |-> f[2]] : f \in first}
    /\ ids = 1 + Cardinality(first)
    /\ reqs = [r \in Requests |-> Idle]
    /\ signedIn = members
    /\ spent = [i \in Ids |-> 0]
    /\ guesses = [i \in Ids |-> 0]
    /\ age = [i \in Ids |-> 0]

----------------------------------------------------------------------------
(* Rows, tokens and time                                                   *)

Exists(u) == users[u].pw # 0

(* What a commit makes of the stored row: only the columns the handler     *)
(* changed on its own copy are written.                                    *)
Flush(stored, loaded, changed) ==
    [c \in DOMAIN stored |->
        IF changed[c] # loaded[c] THEN changed[c] ELSE stored[c]]

token_is_expired(t) == t # 0 => age[t] = 2

cooldown_elapsed(sent) == sent # 0 => age[sent] > 0

(* Mutant of attempts_exhausted: one guess too many.                       *)
attempts_exhausted_late(tries) == tries > MaxAttempts

attempts_exhausted(tries) == tries >= MaxAttempts

(* A fresh number: a minted link, code or password.                        *)
Draw == /\ ids < MaxIds
        /\ ids' = ids + 1

(* Time passes for a link or a code some row holds: its cooldown elapses,  *)
(* later it expires.                                                       *)
Age(t) ==
    /\ age[t] < 2
    /\ \E u \in Users : t \in {users[u].vtok, users[u].vsent, users[u].rtok,
                              users[u].rsent, users[u].code, users[u].csent}
    /\ age' = [age EXCEPT ![t] = @ + 1]
    /\ UNCHANGED <<users, reqs, signedIn, mailed, spent, guesses, ids>>

(* A handler takes a free request slot with the row it loaded.             *)
Load(r, op, u, arg, number) ==
    /\ reqs[r].op = "idle"
    /\ Exists(u)
    /\ reqs' = [reqs EXCEPT ![r] = [op |-> op, user |-> u, row |-> users[u],
                                    arg |-> arg, number |-> number]]

(* The handler answers: the slot is free.                                  *)
Answer(r) == reqs' = [reqs EXCEPT ![r] = Idle]

(* The commit of the columns f changes on the loaded copy.  A row that was *)
(* deleted meanwhile matches nothing, and the commit raises.               *)
CommitRow(r, f) ==
    LET u == reqs[r].user  row == reqs[r].row IN
    users' = IF Exists(u)
             THEN [users EXCEPT ![u] = Flush(@, row, f)]
             ELSE users

(* The same commit, with the handler going on to its next step.            *)
CommitThen(r, f, op, arg) ==
    LET u == reqs[r].user IN
    /\ CommitRow(r, f)
    /\ reqs' = [reqs EXCEPT ![r] =
                   IF Exists(u) THEN [@ EXCEPT !.op = op, !.arg = arg, !.row = f]
                   ELSE Idle]

----------------------------------------------------------------------------
(* Registration and the emailed links                                      *)

(* The unique indexes on username and email.                               *)
NameFree(u) == \A v \in Users : Exists(v) => /\ Username[v] # Username[u]
                                            /\ Email[v] # Email[u]

(* Mutant of register_user: the account starts out verified.               *)
register_user_trusting(r, u) ==
    /\ reqs[r].op = "idle" /\ ~users[u].gone /\ NameFree(u)
    /\ Draw
    /\ users' = [users EXCEPT ![u] = [NoRow EXCEPT !.pw = ids',
                                                  !.verified = TRUE]]
    /\ reqs' = [reqs EXCEPT ![r] = [Idle EXCEPT !.op = "resend", !.user = u,
                                                !.row = users'[u]]]
    /\ UNCHANGED <<signedIn, mailed, spent, guesses, age>>

(* register_user: the pre-check and the unique indexes refuse a second     *)
(* account; the row is committed, then the verification link is minted.    *)
register_user(r, u) ==
    /\ reqs[r].op = "idle" /\ ~users[u].gone /\ NameFree(u)
    /\ Draw
    /\ users' = [users EXCEPT ![u] = [NoRow EXCEPT !.pw = ids']]
    /\ reqs' = [reqs EXCEPT ![r] = [Idle EXCEPT !.op = "resend", !.user = u,
                                                !.row = users'[u]]]
    /\ UNCHANGED <<signedIn, mailed, spent, guesses, age>>

(* resend_verification_email: nothing is sent for a verified address.      *)
resend_verification_email(r, u) ==
    /\ ~users[u].verified
    /\ Load(r, "resend", u, 0, NoNumber)
    /\ UNCHANGED <<users, signedIn, mailed, spent, guesses, age, ids>>

forgot_password(r, u) ==
    /\ Load(r, "forgot", u, 0, NoNumber)
    /\ UNCHANGED <<users, signedIn, mailed, spent, guesses, age, ids>>

(* issue_and_send_verification_email: within the cooldown nothing is sent; *)
(* otherwise the new link is committed before it is mailed.                *)
issue_verification(r) ==
    /\ reqs[r].op = "resend"
    /\ \/ /\ cooldown_elapsed(reqs[r].row.vsent)
          /\ Draw
          /\ CommitThen(r, [reqs[r].row EXCEPT !.vtok = ids'], "mail_verify", ids')
       \/ /\ ~cooldown_elapsed(reqs[r].row.vsent)
          /\ Answer(r)
          /\ UNCHANGED <<users, ids>>
    /\ UNCHANGED <<signedIn, mailed, spent, guesses, age>>

(* issue_and_send_password_reset_email: the same, for the reset link.      *)
issue_password_reset(r) ==
    /\ reqs[r].op = "forgot"
    /\ \/ /\ cooldown_elapsed(reqs[r].row.rsent)
          /\ Draw
          /\ CommitThen(r, [reqs[r].row EXCEPT !.rtok = ids'], "mail_reset", ids')
       \/ /\ ~cooldown_elapsed(reqs[r].row.rsent)
          /\ Answer(r)
          /\ UNCHANGED <<users, ids>>
    /\ UNCHANGED <<signedIn, mailed, spent, guesses, age>>

(* The column that remembers the last successful send of each transport.   *)
Stamped(q) ==
    CASE q.op = "mail_verify" -> [q.row EXCEPT !.vsent = q.arg]
      [] q.op = "mail_reset"  -> [q.row EXCEPT !.rsent = q.arg]
      [] q.op = "sms"         -> [q.row EXCEPT !.csent = q.arg]

(* The transport takes the message, and its time of sending is committed.  *)
Send(r) ==
    /\ reqs[r].op \in Sends
    /\ mailed' = mailed \cup {[user |-> reqs[r].user, id |-> reqs[r].arg,
                               to |-> IF reqs[r].op = "sms"
                                      THEN reqs[r].row.phone ELSE NoNumber]}
    /\ CommitRow(r, Stamped(reqs[r]))
    /\ Answer(r)
    /\ UNCHANGED <<signedIn, spent, guesses, age, ids>>

(* The transport fails: the link or code stays stored, the cooldown does   *)
(* not start, and the handler answers (202 for mail, 503 for an SMS).      *)
SendFails(r) ==
    /\ reqs[r].op \in Sends
    /\ Answer(r)
    /\ UNCHANGED <<users, signedIn, mailed, spent, guesses, age, ids>>

(* The pre-read of verify_email and reset_password: the row whose column   *)
(* holds the hash of the link that was followed.                           *)
FollowVerification(r, u) ==
    /\ users[u].vtok # 0
    /\ [user |-> u, id |-> users[u].vtok, to |-> NoNumber] \in mailed
    /\ Load(r, "verify", u, users[u].vtok, NoNumber)
    /\ UNCHANGED <<users, signedIn, mailed, spent, guesses, age, ids>>

FollowReset(r, u) ==
    /\ users[u].rtok # 0
    /\ [user |-> u, id |-> users[u].rtok, to |-> NoNumber] \in mailed
    /\ Load(r, "reset", u, users[u].rtok, NoNumber)
    /\ UNCHANGED <<users, signedIn, mailed, spent, guesses, age, ids>>

(* Mutant of StillStored: the UPDATE filters on the expiry alone.          *)
StillStoredLoose(stored, t) == ~token_is_expired(t)

(* The conditional UPDATE's WHERE: the stored hash is still the link's and *)
(* it has not expired.                                                     *)
StillStored(stored, t) == stored = t /\ ~token_is_expired(t)

(* verify_email after its pre-read: an already verified account or an      *)
(* expired link only clears the column; otherwise the conditional UPDATE   *)
(* verifies the address and clears the link, or matches no row.            *)
verify_email(r) ==
    LET u == reqs[r].user  t == reqs[r].arg  row == reqs[r].row IN
    /\ reqs[r].op = "verify"
    /\ \/ /\ row.verified \/ token_is_expired(t)
          /\ CommitRow(r, [row EXCEPT !.vtok = 0])
          /\ UNCHANGED spent
       \/ /\ ~row.verified /\ ~token_is_expired(t)
          /\ Exists(u) /\ StillStored(users[u].vtok, t)
          /\ users' = [users EXCEPT ![u].verified = TRUE, ![u].vtok = 0]
          /\ spent' = [spent EXCEPT ![t] = @ + 1]
       \/ /\ ~row.verified /\ ~token_is_expired(t)
          /\ ~(Exists(u) /\ StillStored(users[u].vtok, t))
          /\ UNCHANGED <<users, spent>>
    /\ Answer(r)
    /\ UNCHANGED <<signedIn, mailed, guesses, age, ids>>

(* reset_password after its pre-read: the conditional UPDATE sets the new  *)
(* password, verifies the address and clears the link.                     *)
reset_password(r) ==
    LET u == reqs[r].user  t == reqs[r].arg  row == reqs[r].row IN
    /\ reqs[r].op = "reset"
    /\ \/ /\ token_is_expired(t)
          /\ CommitRow(r, [row EXCEPT !.rtok = 0])
          /\ UNCHANGED <<spent, ids>>
       \/ /\ Exists(u) /\ StillStored(users[u].rtok, t)
          /\ Draw
          /\ users' = [users EXCEPT ![u].pw = ids', ![u].rtok = 0,
                                    ![u].verified = TRUE]
          /\ spent' = [spent EXCEPT ![t] = @ + 1]
       \/ /\ ~token_is_expired(t)
          /\ ~(Exists(u) /\ StillStored(users[u].rtok, t))
          /\ UNCHANGED <<users, spent, ids>>
    /\ Answer(r)
    /\ UNCHANGED <<signedIn, mailed, guesses, age>>

----------------------------------------------------------------------------
(* Sign-in and the profile                                                 *)

(* The accounts whose name or address equals what was typed, whatever the  *)
(* case.                                                                   *)
Candidates(typed) ==
    {u \in Users : /\ Exists(u)
                   /\ Lower(typed) \in {Lower(Username[u]), Lower(Email[u])}}

(* _resolve_login_user: an exact username wins; otherwise the only account *)
(* that matches in any case, and none when several do.                     *)
Resolves(typed, u) ==
    IF \E v \in Users : Exists(v) /\ Username[v] = typed
    THEN Exists(u) /\ Username[u] = typed
    ELSE Candidates(typed) = {u}

(* email_verification_is_enforced and the gate it opens.                   *)
MaySignIn(u) == Enforced => users[u].verified

(* login_for_access_token: what was typed resolves to one account, the     *)
(* password is right, the address is verified where that is enforced.      *)
login_for_access_token(u, typed) ==
    /\ Resolves(typed, u) /\ u \notin signedIn
    /\ MaySignIn(u)
    /\ signedIn' = signedIn \cup {u}
    /\ UNCHANGED <<users, reqs, mailed, spent, guesses, age, ids>>

(* The JWT pair expires, or the client drops it.                           *)
SessionEnds(u) ==
    /\ u \in signedIn
    /\ signedIn' = signedIn \ {u}
    /\ UNCHANGED <<users, reqs, mailed, spent, guesses, age, ids>>

(* get_current_user: the JWT's account still exists.                       *)
Authenticated(u) == u \in signedIn /\ Exists(u)

(* A signed-in handler begins with the row get_current_user loaded.        *)
Begin(r, op, u, arg, number) ==
    /\ Authenticated(u)
    /\ Load(r, op, u, arg, number)
    /\ UNCHANGED <<users, signedIn, mailed, spent, guesses, age, ids>>

(* change_password: the current password was checked on the loaded row.    *)
change_password(r) ==
    /\ reqs[r].op = "change"
    /\ Draw
    /\ CommitRow(r, [reqs[r].row EXCEPT !.pw = ids'])
    /\ Answer(r)
    /\ UNCHANGED <<signedIn, mailed, spent, guesses, age>>

(* update_profile: the keys that were sent; a folder that is not the       *)
(* user's is refused before the row is touched.                            *)
update_profile(r) ==
    /\ reqs[r].op = "profile"
    /\ \/ \E v \in {0, 1} : CommitRow(r, [reqs[r].row EXCEPT !.profile = v])
       \/ UNCHANGED users
    /\ Answer(r)
    /\ UNCHANGED <<signedIn, mailed, spent, guesses, age, ids>>

(* upload_avatar: too large, of another type than its name says or not     *)
(* decodable is refused; otherwise the rendered image replaces the old.    *)
upload_avatar(r) ==
    /\ reqs[r].op = "avatar"
    /\ \/ CommitRow(r, [reqs[r].row EXCEPT !.avatar = TRUE])
       \/ UNCHANGED users
    /\ Answer(r)
    /\ UNCHANGED <<signedIn, mailed, spent, guesses, age, ids>>

delete_avatar(r) ==
    /\ reqs[r].op = "avatar"
    /\ CommitRow(r, [reqs[r].row EXCEPT !.avatar = FALSE])
    /\ Answer(r)
    /\ UNCHANGED <<signedIn, mailed, spent, guesses, age, ids>>

----------------------------------------------------------------------------
(* The phone number                                                        *)

(* The unique index on phone_number.                                       *)
NumberFree(u, n) == \A v \in Users \ {u} : users[v].phone # n

(* _send_phone_code up to its first commit: the number, an unverified flag,*)
(* a new code and a fresh guess budget.  Losing the race for a number it   *)
(* writes is an IntegrityError, answered 409.                              *)
SendPhoneCode(r, n) ==
    LET row == reqs[r].row IN
    \/ /\ n = row.phone \/ NumberFree(reqs[r].user, n)
       /\ Draw
       /\ CommitThen(r, [row EXCEPT !.phone = n, !.phoneOk = FALSE,
                                    !.code = ids', !.tries = 0], "sms", ids')
    \/ /\ ~(n = row.phone \/ NumberFree(reqs[r].user, n))
       /\ Answer(r)
       /\ UNCHANGED <<users, ids>>

(* request_phone_verification: another account's number is refused and a   *)
(* send within the cooldown is suppressed, both before anything is written.*)
request_phone_verification(r) ==
    LET q == reqs[r] IN
    /\ q.op = "phone"
    /\ IF NumberFree(q.user, q.number) /\ cooldown_elapsed(q.row.csent)
       THEN reqs' = [reqs EXCEPT ![r].op = "phone_send"]
       ELSE Answer(r)
    /\ UNCHANGED <<users, signedIn, mailed, spent, guesses, age, ids>>

(* It goes on to send a code to that number, which may be taken by now.    *)
send_requested_code(r) ==
    /\ reqs[r].op = "phone_send"
    /\ SendPhoneCode(r, reqs[r].number)
    /\ UNCHANGED <<signedIn, mailed, spent, guesses, age>>

(* resend_phone_verification: only for a number that is not verified yet.  *)
resend_phone_verification(r) ==
    LET q == reqs[r] IN
    /\ q.op = "phone_resend"
    /\ \/ /\ q.row.phone # NoNumber /\ ~q.row.phoneOk
          /\ cooldown_elapsed(q.row.csent)
          /\ SendPhoneCode(r, q.row.phone)
       \/ /\ \/ q.row.phone = NoNumber
             \/ q.row.phoneOk
             \/ ~cooldown_elapsed(q.row.csent)
          /\ Answer(r)
          /\ UNCHANGED <<users, ids>>
    /\ UNCHANGED <<signedIn, mailed, spent, guesses, age>>

(* A wrong guess is counted by the database, on the stored row.            *)
CountGuess(u) == [users EXCEPT ![u].tries = @ + 1]

(* verify_phone: no live code or no guess left on the loaded row is        *)
(* refused; a wrong code is counted; the right code is consumed by one     *)
(* conditional UPDATE on the hash and the expiry.                          *)
verify_phone(r) ==
    LET q == reqs[r]  u == q.user  c == q.row.code IN
    /\ q.op = "phone_verify"
    /\ \/ /\ token_is_expired(c) \/ attempts_exhausted(q.row.tries)
          /\ UNCHANGED <<users, spent, guesses>>
       \/ /\ ~token_is_expired(c) /\ ~attempts_exhausted(q.row.tries)
          /\ guesses' = [guesses EXCEPT ![c] = @ + 1]
          /\ \/ /\ q.arg # c
                /\ users' = IF Exists(u) THEN CountGuess(u)
                            ELSE users
                /\ UNCHANGED spent
             \/ /\ q.arg = c /\ Exists(u) /\ StillStored(users[u].code, c)
                /\ users' = [users EXCEPT ![u].phoneOk = TRUE, ![u].code = 0,
                                          ![u].tries = 0]
                /\ spent' = [spent EXCEPT ![c] = @ + 1]
             \/ /\ q.arg = c
                /\ ~(Exists(u) /\ StillStored(users[u].code, c))
                /\ UNCHANGED <<users, spent>>
    /\ Answer(r)
    /\ UNCHANGED <<signedIn, mailed, age, ids>>

(* delete_phone_number: every phone column is cleared on the loaded copy.  *)
(* A copy from before a newer code clears that code's counter, not itself. *)
delete_phone_number(r) ==
    LET u == reqs[r].user  c == users[u].code IN
    /\ reqs[r].op = "phone_delete"
    /\ guesses' = IF Exists(u) /\ reqs[r].row.tries # 0 /\ c # 0
                  THEN [guesses EXCEPT ![c] = 0] ELSE guesses
    /\ CommitRow(r, [reqs[r].row EXCEPT !.phone = NoNumber, !.phoneOk = FALSE,
                                        !.code = 0, !.csent = 0, !.tries = 0])
    /\ Answer(r)
    /\ UNCHANGED <<signedIn, mailed, spent, age, ids>>

(* delete_account: confirmed and with the password; one transaction        *)
(* removes the row and everything the account owns.                        *)
delete_account(r) ==
    /\ reqs[r].op = "delete"
    /\ users' = [users EXCEPT ![reqs[r].user] = GoneRow]
    /\ Answer(r)
    /\ UNCHANGED <<signedIn, mailed, spent, guesses, age, ids>>

----------------------------------------------------------------------------
(* A request arrives.                                                      *)
ArriveAccount(r) ==
    \E u \in Users :
        \/ register_user(r, u)
        \/ resend_verification_email(r, u)
        \/ forgot_password(r, u)
        \/ FollowVerification(r, u)
        \/ FollowReset(r, u)
        \/ \E op \in {"change", "profile", "avatar", "phone_resend", "phone_delete",
                      "delete"} : Begin(r, op, u, 0, NoNumber)
        \/ \E n \in Numbers : Begin(r, "phone", u, 0, n)
        \/ \E c \in {0} \cup {m.id : m \in {m \in mailed : m.user = u}} :
              Begin(r, "phone_verify", u, c, NoNumber)

(* A request in flight takes its next step.                                *)
ServeAccount(r) ==
    \/ issue_verification(r)
    \/ issue_password_reset(r)
    \/ Send(r)
    \/ verify_email(r)
    \/ reset_password(r)
    \/ change_password(r)
    \/ update_profile(r)
    \/ upload_avatar(r)
    \/ delete_avatar(r)
    \/ request_phone_verification(r)
    \/ send_requested_code(r)
    \/ resend_phone_verification(r)
    \/ verify_phone(r)
    \/ delete_phone_number(r)

----------------------------------------------------------------------------
(* A link or a code is accepted at most once, whatever clicks, guesses and *)
(* re-issues interleave (users.py: "two concurrent clicks of the same link *)
(* cannot both succeed").                                                  *)
AcceptedOnce == \A i \in Ids : spent[i] <= 1

(* Wrong and right guesses together never try a code more often than its   *)
(* budget allows, plus the guesses already in flight when the last one was *)
(* counted, until a deletion of the number that was already in flight when *)
(* the code was issued clears its counter.                                 *)
GuessBound == \A i \in Ids : guesses[i] < MaxAttempts + Cardinality(Requests)

(* A verified address was proven: this registration accepted a link that   *)
(* was mailed to its address; a code sent to a phone does not count, nor   *)
(* does a link of an account that had the address before                   *)
(* (verify_email, reset_password).                                         *)
AddressProven ==
    \A u \in Users : users[u].verified =>
        \E m \in mailed : m.user = u /\ m.to = NoNumber /\ spent[m.id] > 0
============================================================================
