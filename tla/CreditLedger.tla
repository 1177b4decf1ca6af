---------------------------- MODULE CreditLedger ----------------------------
(***************************************************************************)
(* The credits of one user: the plan bucket of each period                 *)
(* (monthly_credits), the wallet on the subscription row                   *)
(* (user_subscriptions) and the purchase ledger (credit_transactions),     *)
(* under everything that writes them at the same time:                     *)
(*                                                                         *)
(*   - _consume_once of the converter workers;                             *)
(*   - _grant_purchased_credits, _activate_subscription and                *)
(*     _downgrade_to_free, driven by Stripe webhooks that may be repeated, *)
(*     delayed and reordered;                                              *)
(*   - change_plan, with its call to Stripe in the middle;                 *)
(*   - set_credit_preference.                                              *)
(*                                                                         *)
(* No read locks a row: an operation reads what it needs, statement by     *)
(* statement, and commits its writes at once.  The session writes the      *)
(* columns of a loaded row that changed, and flushes them, which locks the *)
(* row until the commit, before its next query.                            *)
(***************************************************************************)
EXTENDS CreditWallet, FiniteSets

CONSTANTS
    Procs,      \* workers and API requests at work for this user
    Refs,       \* ids of checkout sessions that bought credits
    NoRef,
    Grant,      \* tier -> monthly_conversion_credits
    Amount,     \* credits in a purchase
    Ops,        \* operations in use
    MaxUnits,   \* bound on the cost of a conversion
    MaxTime,    \* bound on the clock
    MaxOps      \* bound on the operations started

Tiers == {"FREE", "PRO", "PRO_PLUS"}
Paid == {"PRO", "PRO_PLUS"}
AllOps == {"consume", "purchase", "change", "webhook", "cancel", "prefer"}

ASSUME LedgerAssumption ==
    /\ NoRef \notin Refs /\ IsFiniteSet(Refs)
    /\ Grant \in [Tiers -> Nat \ {0}]
    /\ Amount \in Nat \ {0}
    /\ Ops \subseteq AllOps
    /\ MaxUnits \in Nat /\ MaxTime \in Nat /\ MaxOps \in Nat

VARIABLES
    now,        \* the clock
    period,     \* current_period_key
    row,        \* the user's subscription row
    buckets,    \* period -> plan bucket
    ledger,     \* references of the recorded purchases
    procs,      \* process -> the step it is at and its local variables
    notices,    \* tiers that Stripe events carry, delivered or not
    scheduled,  \* downgrades Stripe applies at the end of the period
    started     \* operations started so far

clock == <<now, period>>
stripe == <<notices, scheduled>>
vars == <<clock, row, buckets, ledger, procs, stripe, started>>

Times == 0..(MaxTime + 2)
Row == [exists : BOOLEAN, tier : Tiers, sub : BOOLEAN, carry : Nat,
        exp : Nat \cup {NoExpiry}, bought : Nat, first : BOOLEAN]
Bucket == [exists : BOOLEAN, allowance : Nat, remaining : Nat]

\* A user without a row is on the FREE tier with an empty wallet.
NoRow == [exists |-> FALSE, tier |-> "FREE", sub |-> FALSE, carry |-> 0,
          exp |-> NoExpiry, bought |-> 0, first |-> FALSE]
NoBucket == [exists |-> FALSE, allowance |-> 0, remaining |-> 0]
\* A Credit with more remaining than its allowance cannot be built: reading such
\* a bucket raises, and the operation ends there.
Valid(bucket) == bucket.remaining <= bucket.allowance
FullBucket(tier) == [exists |-> TRUE, allowance |-> Grant[tier], remaining |-> Grant[tier]]

Idle == [at |-> "idle", period |-> 0, units |-> 0, api |-> FALSE, tier |-> "FREE",
         ref |-> NoRef, credit |-> NoBucket, row |-> NoRow,
         left |-> [plan |-> 0, carry |-> 0, bought |-> 0],
         end |-> NoExpiry, found |-> NoBucket]

Init ==
    /\ now = 0 /\ period = 0
    /\ row \in {NoRow, [NoRow EXCEPT !.exists = TRUE, !.tier = "PRO", !.sub = TRUE]}
    /\ buckets = [t \in 0..MaxTime |-> NoBucket]
    /\ procs = [p \in Procs |-> Idle]
    /\ notices = {"PRO"} /\ scheduled = {}
    /\ ledger = {} /\ started = 0

At(p, at) == procs[p].at = at
Done(p) == procs' = [procs EXCEPT ![p] = Idle]

\* An operation of the kind op begins, at its first read.
Begin(p, op, local) ==
    /\ op \in Ops
    /\ At(p, "idle")
    /\ started < MaxOps
    /\ started' = started + 1
    /\ procs' = [procs EXCEPT ![p] = local]

\* A column of a loaded row is written only if it was changed.
Written(loaded, new, stored) == IF new # loaded THEN new ELSE stored

\* The subscription row is locked by a consume that has flushed its wallet.
Locked == \E q \in Procs : At(q, "commit") /\ procs[q].row.exists

------------------------------------------------------------------------------
(* WorkerCreditRepository._consume_once *)

\* The period key is taken when the job starts.
Consume(p) ==
    /\ \E units \in 0..MaxUnits, api \in BOOLEAN :
        Begin(p, "consume", [Idle EXCEPT !.at = "credit", !.period = period,
                                         !.units = units, !.api = api])
    /\ UNCHANGED <<clock, row, buckets, stripe, ledger>>

ReadCredit(p) ==
    /\ At(p, "credit")
    /\ Valid(buckets[procs[p].period])
    /\ LET stored == buckets[procs[p].period]
       IN  procs' = [procs EXCEPT ![p].credit = IF stored.exists THEN stored
                                                ELSE FullBucket(row.tier),
                                  ![p].at = "wallet"]
    /\ UNCHANGED <<clock, row, buckets, stripe, started, ledger>>

\* Read the wallet and decide what to spend; only a job from the API may spend
\* purchased credits first.
ReadWallet(p) ==
    /\ At(p, "wallet")
    /\ LET b == [plan |-> procs[p].credit.remaining, carry |-> row.carry,
                 bought |-> row.bought]
           left == ConsumeFromWallet(b, procs[p].units, row.exp, now,
                                     row.first /\ procs[p].api)
       IN  procs' = [procs EXCEPT ![p].row = row, ![p].left = left, ![p].at = "save"]
    /\ UNCHANGED <<clock, row, buckets, stripe, started, ledger>>

\* save_credit looks the bucket up again, to insert or to update it; the query
\* flushes the wallet.
SaveSelect(p) ==
    /\ At(p, "save")
    /\ procs[p].row.exists => ~Locked
    /\ procs' = [procs EXCEPT ![p].found = buckets[procs[p].period], ![p].at = "commit"]
    /\ UNCHANGED <<clock, row, buckets, stripe, started, ledger>>

\* Somebody else inserted the bucket since then.
Conflict(p) == ~procs[p].found.exists /\ buckets[procs[p].period].exists

CommitConsume(p) ==
    /\ At(p, "commit") /\ ~Conflict(p)
    /\ LET l == procs[p]
       IN  /\ buckets' = [buckets EXCEPT ![l.period] =
                 [exists |-> TRUE,
                  allowance |-> Written(l.found.allowance, l.credit.allowance, @.allowance),
                  remaining |-> Written(l.found.remaining, l.left.plan, @.remaining)]]
           /\ row' = [row EXCEPT !.carry = Written(l.row.carry, l.left.carry, @),
                                 !.bought = Written(l.row.bought, l.left.bought, @)]
    /\ Done(p)
    /\ UNCHANGED <<clock, stripe, started, ledger>>

\* IntegrityError: roll back and start over.  The bucket exists by then, so the
\* second attempt never gets here, and the limit on attempts is not reached.
RetryConsume(p) ==
    /\ At(p, "commit") /\ Conflict(p)
    /\ procs' = [procs EXCEPT ![p].at = "credit"]
    /\ UNCHANGED <<clock, row, buckets, stripe, started, ledger>>

------------------------------------------------------------------------------
(* _grant_purchased_credits *)

\* A delivery of a paid checkout session; the quick look at the ledger drops
\* the common duplicate.
Purchase(p, ref) ==
    /\ ref \notin ledger
    /\ Begin(p, "purchase", [Idle EXCEPT !.at = "grantRow", !.ref = ref])
    /\ UNCHANGED <<clock, row, buckets, stripe, ledger>>

GrantRow(p) ==
    /\ At(p, "grantRow")
    /\ procs' = [procs EXCEPT ![p].row = row,
                              ![p].at = IF row.exists THEN "grant" ELSE "grantCreate"]
    /\ UNCHANGED <<clock, row, buckets, stripe, started, ledger>>

\* upsert_subscription to FREE, which also updates a row created since; then
\* the row is read again.
GrantCreate(p) ==
    /\ At(p, "grantCreate") /\ ~Locked
    /\ row' = [row EXCEPT !.exists = TRUE, !.tier = "FREE"]
    /\ procs' = [procs EXCEPT ![p].at = "grantRow"]
    /\ UNCHANGED <<clock, buckets, stripe, started, ledger>>

\* Mutant of GrantCommit: reference_id is not unique.
GrantAgain(p) ==
    /\ At(p, "grant") /\ ~Locked
    /\ ledger' = ledger \cup {procs[p].ref}
    /\ row' = [row EXCEPT !.bought = procs[p].row.bought + Amount]
    /\ Done(p)
    /\ UNCHANGED <<clock, buckets, stripe, started>>

\* One transaction: the wallet and the ledger, whose references are unique.
GrantCommit(p) ==
    /\ At(p, "grant") /\ ~Locked
    /\ procs[p].ref \notin ledger
    /\ ledger' = ledger \cup {procs[p].ref}
    /\ row' = [row EXCEPT !.bought = procs[p].row.bought + Amount]
    /\ Done(p)
    /\ UNCHANGED <<clock, buckets, stripe, started>>

\* Mutant of GrantDuplicate: the wallet was committed before the ledger.
GrantDuplicateKept(p) ==
    /\ At(p, "grant") /\ ~Locked
    /\ procs[p].ref \in ledger
    /\ row' = [row EXCEPT !.bought = procs[p].row.bought + Amount]
    /\ Done(p)
    /\ UNCHANGED <<clock, buckets, stripe, started, ledger>>

\* The insert violates the constraint: the wallet is rolled back with it.
GrantDuplicate(p) ==
    /\ At(p, "grant")
    /\ procs[p].ref \in ledger
    /\ Done(p)
    /\ UNCHANGED <<clock, row, buckets, stripe, started, ledger>>

------------------------------------------------------------------------------
(* change_plan *)

Rank == [FREE |-> 0, PRO |-> 1, PRO_PLUS |-> 2]

ChangePlan(p, tier) ==
    /\ row.exists /\ row.sub
    /\ row.tier # tier
    /\ Begin(p, "change", [Idle EXCEPT !.at = "balance", !.period = period,
                                       !.tier = tier, !.row = row])
    /\ UNCHANGED <<clock, row, buckets, stripe, ledger>>

ReadBalance(p) ==
    /\ At(p, "balance")
    /\ Valid(buckets[procs[p].period])
    /\ LET stored == buckets[procs[p].period]
       IN  procs' = [procs EXCEPT ![p].credit = IF stored.exists THEN stored
                                                ELSE FullBucket(procs[p].row.tier),
                                  ![p].at = "stripe"]
    /\ UNCHANGED <<clock, row, buckets, stripe, started, ledger>>

\* Stripe applies an upgrade at once and a downgrade at the end of the period,
\* and announces either by a webhook; it refuses to change a subscription that
\* has ended.  A downgrade changes nothing here.
StripeChange(p) ==
    /\ At(p, "stripe")
    /\ procs[p].row.tier \in Paid
    /\ LET l == procs[p]
       IN  IF Rank[l.tier] > Rank[l.row.tier]
           THEN /\ notices' = notices \cup {l.tier}
                /\ \E end \in Times \cup {NoExpiry} :
                    /\ end # NoExpiry => end > now
                    /\ procs' = [procs EXCEPT ![p].end = end, ![p].at = "upgrade"]
                /\ UNCHANGED scheduled
           ELSE /\ scheduled' = scheduled \cup {l.tier}
                /\ Done(p)
                /\ UNCHANGED notices
    /\ UNCHANGED <<clock, row, buckets, started, ledger>>

\* The unspent plan balance becomes carryover, the plan bucket is reset.
UpgradeCommit(p) ==
    /\ At(p, "upgrade") /\ ~Locked
    /\ LET l == procs[p]
           carry == l.row.carry + l.credit.remaining
       IN  /\ row' = [row EXCEPT !.tier = l.tier,
                                 !.carry = Written(l.row.carry, carry, @),
                                 !.exp = Written(l.row.exp, l.end, @)]
           /\ buckets' = [buckets EXCEPT ![l.period] = FullBucket(l.tier)]
    /\ Done(p)
    /\ UNCHANGED <<clock, stripe, started, ledger>>

------------------------------------------------------------------------------
(* _activate_subscription, _downgrade_to_free, set_credit_preference *)

\* The tier is committed first, then the bucket is looked at.
Activate(p, tier) ==
    /\ tier \in notices /\ ~Locked
    /\ Begin(p, "webhook", [Idle EXCEPT !.at = "refresh", !.tier = tier])
    /\ row' = [row EXCEPT !.exists = TRUE, !.tier = tier, !.sub = TRUE]
    /\ UNCHANGED <<clock, buckets, stripe, ledger>>

ReadAllowance(p) ==
    /\ At(p, "refresh")
    /\ Valid(buckets[period])
    /\ procs' = [procs EXCEPT ![p].credit = buckets[period], ![p].period = period,
                              ![p].at = "raise"]
    /\ UNCHANGED <<clock, row, buckets, stripe, started, ledger>>

\* Raise the bucket to the grant of the tier, never lower it.
RaiseAllowance(p) ==
    /\ At(p, "raise")
    /\ LET l == procs[p]
           grant == Grant[l.tier]
           delta == grant - l.credit.allowance
           raised == [exists |-> TRUE, allowance |-> grant,
                      remaining |-> Least(l.credit.remaining + delta, grant)]
       IN  buckets' = IF ~l.credit.exists
                      THEN [buckets EXCEPT ![l.period] = FullBucket(l.tier)]
                      ELSE IF delta > 0 THEN [buckets EXCEPT ![l.period] = raised]
                      ELSE buckets
    /\ Done(p)
    /\ UNCHANGED <<clock, row, stripe, started, ledger>>

DowngradeToFree(p) ==
    /\ row.sub /\ ~Locked
    /\ Begin(p, "cancel", Idle)
    /\ row' = [row EXCEPT !.tier = "FREE"]
    /\ UNCHANGED <<clock, buckets, stripe, ledger>>

SetCreditPreference(p) ==
    /\ ~Locked
    /\ Begin(p, "prefer", Idle)
    /\ \E first \in BOOLEAN : row' = [row EXCEPT !.exists = TRUE, !.first = first]
    /\ UNCHANGED <<clock, buckets, stripe, ledger>>

------------------------------------------------------------------------------
\* The process dies or a call fails before the commit.
Abort(p) ==
    /\ procs[p].at # "idle"
    /\ Done(p)
    /\ UNCHANGED <<clock, row, buckets, stripe, started, ledger>>

\* Time passes, maybe into a new month; scheduled downgrades take effect.
Tick ==
    /\ now < MaxTime
    /\ now' = now + 1
    /\ period' \in {period, period + 1}
    /\ notices' = notices \cup scheduled
    /\ scheduled' = {}
    /\ UNCHANGED <<row, buckets, procs, started, ledger>>

Step(p) ==
    \/ ReadCredit(p) \/ ReadWallet(p) \/ SaveSelect(p) \/ CommitConsume(p)
    \/ RetryConsume(p) \/ GrantRow(p) \/ GrantCreate(p) \/ GrantCommit(p)
    \/ GrantDuplicate(p)
    \/ ReadBalance(p) \/ StripeChange(p) \/ UpgradeCommit(p)
    \/ ReadAllowance(p) \/ RaiseAllowance(p) \/ Abort(p)

Next ==
    \/ \E p \in Procs :
        \/ Consume(p) \/ (\E ref \in Refs : Purchase(p, ref))
        \/ (\E tier \in Paid : ChangePlan(p, tier) \/ Activate(p, tier))
        \/ DowngradeToFree(p) \/ SetCreditPreference(p)
        \/ Step(p)
    \/ Tick

Spec == Init /\ [][Next]_vars

------------------------------------------------------------------------------
(* Properties *)

Steps == {"idle", "credit", "wallet", "save", "commit", "grantRow", "grantCreate",
          "grant", "balance", "stripe", "upgrade", "refresh", "raise"}
Local == [at : Steps, period : 0..MaxTime, units : Nat, api : BOOLEAN, tier : Tiers,
          ref : Refs \cup {NoRef}, credit : Bucket, row : Row, left : Balances,
          end : Nat \cup {NoExpiry}, found : Bucket]

\* No balance is ever negative: WalletBalances and Credit refuse to be built
\* from such a row, and the worker would convert without charging.
TypeOK ==
    /\ now \in 0..MaxTime /\ period \in 0..now
    /\ row \in Row
    /\ buckets \in [0..MaxTime -> Bucket]
    /\ procs \in [Procs -> Local]
    /\ notices \subseteq Tiers /\ scheduled \subseteq Tiers
    /\ ledger \subseteq Refs /\ started \in Nat

\* A checkout session is credited at most once, however often and however
\* concurrently Stripe delivers it, and a lost update never creates credits: the
\* wallet holds no more purchased credits than the ledger says were bought.
Bought == Amount * Cardinality(ledger)
BoughtBacked == row.bought <= Bought

\* The inductive strengthening: the copies in flight satisfy the same.
CopySound(l) ==
    /\ l.row.bought <= Bought /\ l.left.bought <= Bought
    /\ l.at \in {"grantRow", "grantCreate", "grant"} => l.ref \in Refs
IInv ==
    /\ TypeOK /\ BoughtBacked
    /\ \A p \in Procs : CopySound(procs[p])

\* "Setting the tier here is what stops a double-clicked upgrade from computing
\* carryover twice before the webhook lands: the second request then sees the
\* target tier and 400s": a request that finds the upgrade made does not carry a
\* balance over once more.
UpgradedOnce == [][\A p \in Procs : UpgradeCommit(p) => row.tier # procs[p].tier]_vars
=============================================================================
