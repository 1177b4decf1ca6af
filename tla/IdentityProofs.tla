--------------------------- MODULE IdentityProofs ---------------------------
(***************************************************************************)
(* Proofs about Identity for any users, requests, clients, scopes and      *)
(* scenarios.  AccessInv is about codes, tokens and the handlers that      *)
(* exchange them (ConsentHonoured), AccountInv about links, phone codes    *)
(* and the requests that carry them (CodesHonest, AddressProven), OwnedInv *)
(* about what an account leaves behind (AccessEnds, with the other two).   *)
(***************************************************************************)
EXTENDS Identity, TLAPS, FiniteSetTheorems

------------------------------------------------------------------------------
(* Codes, tokens and the handlers that exchange them *)

Call == [op : CallOps, of : Pairs, row : GrantRow, scopes : SUBSET Scopes,
         from : 0..MaxSaved, live : SUBSET (Saved \X Halves)]

\* The rows are numbered in the order they were saved.
Numbered ==
    \A i \in Saved : /\ saved[i].kind = "FREE" <=> i > count
                     /\ saved[i].kind = "FREE" => saved[i].scopes = {}
                     /\ saved[i].from <= count

\* What a call has in its hands was saved before.
Exchanging == {"redeem", "refresh", "rotate", "issue"}
Held(k) ==
    /\ k.from <= count
    /\ \A t \in k.live : t[1] <= count
    /\ k.op \in Exchanging => k.from # 0
    /\ k.op \in {"refresh", "rotate"} => saved[k.from].kind = "PAIR"

\* A code is claimed by the call that took it until its pair is saved; an
\* unused code has no claim and no pair, a used one at most one of them.
Claims(h, i) == calls[h].op \in {"redeem", "issue"} /\ calls[h].from = i
PairOf(j, i) == saved[j].kind = "PAIR" /\ saved[j].from = i
Redeemed(i) ==
    /\ ~saved[i].used => /\ \A h \in Handlers : ~Claims(h, i)
                         /\ \A j \in Saved : ~PairOf(j, i)
    /\ \A h \in Handlers, g \in Handlers : Claims(h, i) /\ Claims(g, i) => h = g
    /\ \A j \in Saved, k \in Saved : PairOf(j, i) /\ PairOf(k, i) => j = k
    /\ \A h \in Handlers, j \in Saved : ~(Claims(h, i) /\ PairOf(j, i))

\* What a call is about to save was agreed to.
Agreed(k) == k.op \in Exchanging \cup {"reread", "code"} => k.scopes \subseteq consented[k.of]

Answered(k) == k.op = "killed" => k.live \cap LiveTokens(k.of) = {}

\* The refresh token of a half-saved pair is one call's to save, and no
\* revocation has seen it.
Second(h) ==
    calls[h].op = "second" =>
        /\ calls[h].from \in Saved /\ calls[h].from <= count
        /\ saved[calls[h].from].kind = "PAIR" /\ ~saved[calls[h].from].refresh
        /\ \A g \in Handlers : <<calls[h].from, "refresh">> \notin calls[g].live
        /\ \A g \in Handlers : calls[g].op = "second" /\ calls[g].from = calls[h].from
                                => g = h

AccessInv ==
    /\ TypeOKAccess /\ Numbered /\ ScopesConsented
    /\ \A h \in Handlers : Held(calls[h]) /\ Agreed(calls[h]) /\ Answered(calls[h])
    /\ \A i \in Saved : saved[i].kind = "CODE" => Redeemed(i)
    /\ \A h \in Handlers : Second(h)

LEMMA RestedFact ==
    /\ Rested \in Call /\ Rested.op = "idle" /\ Rested.from = 0 /\ Rested.live = {} /\ Rested.scopes = {}
    /\ Rested.of \in Pairs
<1>1. Pairs # {}
  <2>1. PICK u \in Holders : TRUE
    BY AccessAssumption DEF AccessAssumption
  <2>2. PICK c \in Clients : TRUE
    BY AccessAssumption DEF AccessAssumption
  <2>3. <<u, c>> \in Pairs
    BY DEF Pairs
  <2> QED BY <2>3
<1>2. (CHOOSE p \in Pairs : TRUE) \in Pairs
  BY <1>1
<1>3. 0 \in 0..MaxSaved
  BY AccessAssumption DEF AccessAssumption
<1> DEFINE q == CHOOSE p \in Pairs : TRUE
<1>4. Rested = [op |-> "idle", of |-> q, row |-> [status |-> "NONE", scopes |-> {}], scopes |-> {}, from |-> 0, live |-> {}]
  BY DEF Rested
<1>5. q \in Pairs
  BY <1>2
<1> HIDE DEF q
<1> QED BY <1>3, <1>4, <1>5 DEF Call, CallOps, GrantRow

LEMMA AccessParts ==
    ASSUME AccessInv
    PROVE  /\ TypeOKAccess /\ Numbered /\ ScopesConsented
           /\ calls \in [Handlers -> Call] /\ saved \in [Saved -> SavedRow]
           /\ grants \in [Pairs -> GrantRow] /\ consented \in [Pairs -> SUBSET Scopes]
           /\ count \in 0..MaxSaved /\ MaxSaved \in Nat \ {0} /\ Saved = 1..MaxSaved
BY AccessAssumption DEF AccessInv, TypeOKAccess, AccessAssumption, Call, Saved

\* The saved rows stay, and can only be spent.
Keeps(i) ==
    /\ saved'[i].kind = saved[i].kind /\ saved'[i].of = saved[i].of
    /\ saved'[i].scopes = saved[i].scopes /\ saved'[i].from = saved[i].from
    /\ saved'[i].access => saved[i].access
    /\ saved'[i].refresh => saved[i].refresh
    /\ saved[i].used => saved'[i].used
Kept == count' = count /\ \A i \in Saved : Keeps(i)

\* Consents are only added to.
Consents == \A p \in Pairs : consented[p] \subseteq consented'[p]

\* Other calls are not disturbed by a step that keeps the rows.
LEMMA CallKept ==
    ASSUME AccessInv, Kept, Consents, NEW k \in Call, Held(k), Agreed(k), Answered(k)
    PROVE  /\ k.from <= count' /\ \A t \in k.live : t[1] <= count'
           /\ k.op \in {"refresh", "rotate"} => saved'[k.from].kind = "PAIR"
           /\ k.op \in Exchanging \cup {"reread", "code"} => k.scopes \subseteq consented'[k.of]
           /\ k.op = "killed" => k.live \cap LiveTokens(k.of)' = {}
<1>1. k.of \in Pairs /\ k.from \in 0..MaxSaved /\ k.live \in SUBSET (Saved \X Halves)
  BY DEF Call
<1>2. k.op \in {"refresh", "rotate"} => saved'[k.from].kind = "PAIR"
  <2>1. k.op \in {"refresh", "rotate"} => k.from \in Saved
    BY <1>1, AccessParts DEF Held, Exchanging
  <2> QED BY <2>1 DEF Held, Kept, Keeps
<1>3. LiveTokens(k.of)' \subseteq LiveTokens(k.of)
  BY DEF LiveTokens, Kept, Keeps, Halves
<1> QED BY <1>1, <1>2, <1>3 DEF Held, Agreed, Answered, Kept, Consents

\* A step of one handler.
OneCall(h) == \A g \in Handlers : g # h => calls'[g] = calls[g]

\* A claim the handler h makes: one it had, or one on a code it just took.
Taken(h) ==
    \A i \in Saved : saved[i].kind = "CODE" /\ Claims(h, i)' =>
        Claims(h, i) \/ (~saved[i].used /\ saved'[i].used)

\* What a call of h takes note of is live, and it is not about to save a
\* refresh token.
Starts(h) ==
    /\ calls'[h].op # "second"
    /\ \A t \in calls'[h].live : t \in calls[h].live \/ \E p \in Pairs : t \in LiveTokens(p)

LEMMA SecondKept ==
    ASSUME AccessInv, Kept, NEW h \in Handlers, OneCall(h), Starts(h), NEW g \in Handlers
    PROVE  Second(g)'
<1> SUFFICES ASSUME calls'[g].op = "second" PROVE Second(g)'
  BY DEF Second
<1>1. g # h /\ calls'[g] = calls[g] /\ Second(g)
  BY DEF Starts, OneCall, AccessInv
<1> DEFINE j == calls[g].from
<1>2. /\ j \in Saved /\ j <= count /\ saved[j].kind = "PAIR" /\ ~saved[j].refresh
      /\ \A f \in Handlers : <<j, "refresh">> \notin calls[f].live
      /\ \A f \in Handlers : calls[f].op = "second" /\ calls[f].from = j => f = g
  BY <1>1 DEF Second
<1>3. saved'[j].kind = "PAIR" /\ ~saved'[j].refresh /\ count' = count
  BY <1>2 DEF Kept, Keeps
<1>4. ASSUME NEW p \in Pairs PROVE <<j, "refresh">> \notin LiveTokens(p)
  BY <1>2 DEF LiveTokens
<1>5. ASSUME NEW f \in Handlers PROVE <<j, "refresh">> \notin calls'[f].live
  BY <1>2, <1>4 DEF Starts, OneCall
<1>6. ASSUME NEW f \in Handlers, calls'[f].op = "second", calls'[f].from = j PROVE f = g
  BY <1>2, <1>6 DEF Starts, OneCall
<1> QED BY <1>1, <1>2, <1>3, <1>5, <1>6 DEF Second

LEMMA ClaimKept ==
    ASSUME AccessInv, Kept, NEW h \in Handlers, OneCall(h), Taken(h),
           NEW i \in Saved, saved'[i].kind = "CODE"
    PROVE  Redeemed(i)'
<1>1. saved[i].kind = "CODE" /\ Redeemed(i)
  BY DEF Kept, Keeps, AccessInv
<1>3. \A j \in Saved : PairOf(j, i)' <=> PairOf(j, i)
  BY DEF Kept, Keeps, PairOf
<1>4. \A g \in Handlers : Claims(g, i)' => Claims(g, i) \/ (g = h /\ ~saved[i].used /\ saved'[i].used)
  BY <1>1 DEF OneCall, Claims, Taken
<1>5. saved[i].used => saved'[i].used
  BY DEF Kept, Keeps
<1> QED BY <1>1, <1>3, <1>4, <1>5 DEF Redeemed

LEMMA KeptRule ==
    ASSUME AccessInv, TypeOKAccess', Kept, Consents,
           NEW h \in Handlers, OneCall(h), Taken(h), Starts(h),
           Held(calls[h])', Agreed(calls[h])', Answered(calls[h])'
    PROVE  AccessInv'
<1>1. Numbered'
  BY AccessParts DEF Numbered, Kept, Keeps
<1>2. ScopesConsented'
  BY AccessParts DEF ScopesConsented, Kept, Keeps, Consents, SavedRow
<1>3. ASSUME NEW g \in Handlers
      PROVE  (Held(calls[g]) /\ Agreed(calls[g]) /\ Answered(calls[g]))'
  <2>1. CASE g = h
    BY <2>1
  <2>2. CASE g # h
    <3>1. calls'[g] = calls[g] /\ calls[g] \in Call
      BY <2>2, AccessParts DEF OneCall
    <3>2. Held(calls[g]) /\ Agreed(calls[g]) /\ Answered(calls[g])
      BY DEF AccessInv
    <3> QED BY <3>1, <3>2, CallKept DEF Held, Agreed, Answered
  <2> QED BY <2>1, <2>2
<1> QED BY <1>1, <1>2, <1>3, ClaimKept, SecondKept DEF AccessInv

\* A step that leaves the calls alone.
LEMMA StillRule ==
    ASSUME AccessInv, TypeOKAccess', Kept, Consents, calls' = calls
    PROVE  AccessInv'
<1>1. Numbered'
  BY AccessParts DEF Numbered, Kept, Keeps
<1>2. ScopesConsented'
  BY AccessParts DEF ScopesConsented, Kept, Keeps, Consents, SavedRow
<1>3. ASSUME NEW g \in Handlers
      PROVE  (Held(calls[g]) /\ Agreed(calls[g]) /\ Answered(calls[g]))'
  <2>1. calls'[g] = calls[g] /\ calls[g] \in Call
    BY AccessParts
  <2>2. Held(calls[g]) /\ Agreed(calls[g]) /\ Answered(calls[g])
    BY DEF AccessInv
  <2> QED BY <2>1, <2>2, CallKept DEF Held, Agreed, Answered
<1>4. ASSUME NEW i \in Saved, saved'[i].kind = "CODE"
      PROVE  Redeemed(i)'
  <2>1. saved[i].kind = "CODE" /\ Redeemed(i)
    BY <1>4 DEF Kept, Keeps, AccessInv
  <2>2. \A j \in Saved : PairOf(j, i)' <=> PairOf(j, i)
    BY DEF Kept, Keeps, PairOf
  <2>3. \A g \in Handlers : Claims(g, i)' <=> Claims(g, i)
    BY DEF Claims
  <2>4. saved[i].used => saved'[i].used
    BY DEF Kept, Keeps
  <2> QED BY <2>1, <2>2, <2>3, <2>4 DEF Redeemed
<1>5. ASSUME NEW g \in Handlers PROVE Second(g)'
  <2>1. OneCall(g) /\ Second(g)
    BY DEF OneCall, AccessInv
  <2>2. CASE calls[g].op = "second"
    BY <2>1, <2>2 DEF Second, Kept, Keeps
  <2>3. CASE calls[g].op # "second"
    BY <2>3 DEF Second
  <2> QED BY <2>2, <2>3
<1> QED BY <1>1, <1>2, <1>3, <1>4, <1>5 DEF AccessInv

\* A call ends.
LEMMA LeaveFact ==
    ASSUME AccessInv, NEW h \in Handlers, Leave(h)
    PROVE  /\ calls' \in [Handlers -> Call] /\ OneCall(h) /\ calls'[h] = Rested
BY AccessParts, RestedFact DEF Leave, OneCall

\* A code or a pair is saved; the call that saved it ends, or has the other
\* half of the pair to save.
LEMMA SaveRule ==
    ASSUME AccessInv, NEW h \in Handlers, calls' \in [Handlers -> Call], OneCall(h),
           NEW row \in SavedRow,
           calls'[h].live = {} \/ calls'[h].live = calls[h].live,
           \/ calls'[h].op = "idle" /\ calls'[h].from = 0
           \/ /\ calls'[h].op = "second" /\ calls'[h].from = count + 1
              /\ row.kind = "PAIR" /\ ~row.refresh, Save(row), row.kind # "FREE", ~row.used,
           row.scopes \subseteq consented[row.of],
           row.kind = "CODE" => row.from = 0,
           row.kind = "PAIR" => calls[h].op = "issue" /\ row.from = calls[h].from,
           UNCHANGED <<clients, grants, keys, consented>>
    PROVE  AccessInv'
<1> DEFINE n == count + 1
<1>1. n \in Saved /\ count' = n /\ count \in Nat /\ count' \in 0..MaxSaved
  BY AccessParts DEF Save
<1>2. /\ saved' \in [Saved -> SavedRow] /\ saved'[n] = row
      /\ \A i \in Saved : i # n => saved'[i] = saved[i]
  BY <1>1, AccessParts DEF Save
<1>3. /\ calls'[h].op \in {"idle", "second"} /\ calls'[h].from \in {0, n}
      /\ calls' \in [Handlers -> Call] /\ OneCall(h)
  OBVIOUS
<1> HIDE DEF n
<1>4. TypeOKAccess'
  BY <1>1, <1>2, <1>3, AccessParts DEF TypeOKAccess, Call
<1>5. n > count /\ saved[n].kind = "FREE" /\ \A i \in Saved : i > count' <=> i > count /\ i # n
  BY <1>1, AccessParts DEF Numbered, n, Saved
<1>6. row.from <= count
  <2>1. CASE row.kind = "CODE"
    BY <1>1, <2>1
  <2>2. CASE row.kind = "PAIR"
    BY <2>2 DEF AccessInv, Held
  <2> QED BY <2>1, <2>2 DEF SavedRow
<1>7. Numbered'
  <2>1. ASSUME NEW i \in Saved
        PROVE  /\ saved'[i].kind = "FREE" <=> i > count'
               /\ saved'[i].kind = "FREE" => saved'[i].scopes = {}
               /\ saved'[i].from <= count'
    <3>1. saved[i] \in SavedRow /\ saved[i].from \in Nat /\ row.from \in Nat
      BY AccessParts DEF SavedRow
    <3>2. CASE i = n
      BY <1>1, <1>2, <1>5, <1>6, <3>1, <3>2 DEF n
    <3>3. CASE i # n
      BY <1>1, <1>2, <1>5, <3>1, <3>3, AccessParts DEF Numbered, n
    <3> QED BY <3>2, <3>3
  <2> QED BY <2>1 DEF Numbered
<1>8. ScopesConsented'
  BY <1>2, AccessParts DEF ScopesConsented
<1>9. ASSUME NEW g \in Handlers
      PROVE  (Held(calls[g]) /\ Agreed(calls[g]) /\ Answered(calls[g]))'
  <2>1. CASE g = h
    <3>1. calls'[h].from <= count' /\ \A t \in calls'[h].live : t[1] <= count'
      <4>1. calls[h].live \subseteq Saved \X Halves /\ \A t \in calls[h].live : t[1] <= count
        BY AccessParts DEF Call, AccessInv, Held
      <4>2. \A t \in calls[h].live : t[1] <= count'
        BY <1>1, <4>1, AccessParts DEF n
      <4> QED BY <1>1, <1>3, <4>2
    <3> QED BY <1>3, <2>1, <3>1 DEF Held, Agreed, Answered, Exchanging
  <2>2. CASE g # h
    <3>1. calls'[g] = calls[g] /\ calls[g] \in Call
      BY <1>3, <2>2, AccessParts DEF OneCall
    <3>2. Held(calls[g]) /\ Agreed(calls[g]) /\ Answered(calls[g])
      BY DEF AccessInv
    <3>3. calls[g].from \in Nat /\ calls[g].live \subseteq Saved \X Halves /\ calls[g].of \in Pairs
      BY <3>1 DEF Call
    <3>4. Held(calls[g])'
      <4>1. calls[g].from <= count' /\ \A t \in calls[g].live : t[1] <= count'
        BY <1>1, <3>2, <3>3, AccessParts DEF Held, n
      <4>2. calls[g].op \in {"refresh", "rotate"} => saved'[calls[g].from].kind = "PAIR"
        <5>1. calls[g].op \in {"refresh", "rotate"} => calls[g].from \in Saved /\ calls[g].from # n
          BY <1>5, <3>2, <3>3, AccessParts DEF Held, Exchanging, Call
        <5> QED BY <1>2, <3>2, <5>1 DEF Held
      <4> QED BY <3>1, <3>2, <4>1, <4>2 DEF Held
    <3>5. Agreed(calls[g])'
      BY <3>1, <3>2 DEF Agreed
    <3>6. Answered(calls[g])'
      <4>1. \A t \in calls[g].live : t[1] # n
        BY <1>1, <1>5, <3>2, <3>3, AccessParts DEF Held, n
      <4>2. \A t \in LiveTokens(calls[g].of)' : t[1] # n => t \in LiveTokens(calls[g].of)
        BY <1>2, <3>1 DEF LiveTokens
      <4>3. calls[g].op = "killed" => calls[g].live \cap LiveTokens(calls[g].of)' = {}
        BY <3>1, <3>2, <4>1, <4>2 DEF Answered
      <4> QED BY <3>1, <4>3 DEF Answered
    <3> QED BY <3>4, <3>5, <3>6
  <2> QED BY <2>1, <2>2
<1>10. ASSUME NEW i \in Saved, saved'[i].kind = "CODE"
       PROVE  Redeemed(i)'
  <2>1. \A g \in Handlers : Claims(g, i)' => g # h /\ Claims(g, i)
    BY <1>3 DEF Claims, OneCall
  <2>2. \A j \in Saved : PairOf(j, i)' => \/ PairOf(j, i) /\ j # n
                                          \/ j = n /\ row.kind = "PAIR" /\ row.from = i
    BY <1>2, <1>5 DEF PairOf
  <2>3. CASE i = n
    <3>1. \A g \in Handlers : ~Claims(g, i)
      BY <1>5, <2>3, AccessParts DEF Claims, AccessInv, Held
    <3>2. \A j \in Saved : ~PairOf(j, i)
      BY <1>5, <2>3, AccessParts DEF PairOf, Numbered
    <3>3. row.from # i
      BY <1>5, <1>6, <2>3, AccessParts
    <3> QED BY <2>1, <2>2, <3>1, <3>2, <3>3 DEF Redeemed
  <2>4. CASE i # n
    <3>1. saved[i].kind = "CODE" /\ Redeemed(i) /\ saved'[i].used = saved[i].used
      BY <1>2, <1>10, <2>4 DEF AccessInv
    <3>2. row.kind = "PAIR" /\ row.from = i => Claims(h, i)
      BY DEF Claims
    <3> QED BY <2>1, <2>2, <3>1, <3>2 DEF Redeemed
  <2> QED BY <2>3, <2>4
<1>11. ASSUME NEW g \in Handlers PROVE Second(g)'
  <2> SUFFICES ASSUME calls'[g].op = "second" PROVE Second(g)'
    BY DEF Second
  <2>1. ASSUME NEW f \in Handlers, NEW t \in calls'[f].live
        PROVE  t \in calls[f].live /\ t[1] \in Saved /\ t[1] <= count
    <3>1. t \in calls[f].live
      BY <2>1, <1>3 DEF OneCall
    <3>2. calls[f].live \subseteq Saved \X Halves /\ \A x \in calls[f].live : x[1] <= count
      BY AccessParts DEF Call, AccessInv, Held
    <3> QED BY <3>1, <3>2
  <2>2. CASE g = h
    <3>1. calls'[g].from = n /\ row.kind = "PAIR" /\ ~row.refresh
      BY <2>2 DEF n
    <3>2. \A f \in Handlers : <<n, "refresh">> \notin calls'[f].live
      BY <1>1, <2>1 DEF n
    <3>3. ASSUME NEW f \in Handlers, calls'[f].op = "second", calls'[f].from = n
          PROVE  f = h
      <4>1. calls[f].op = "second" => calls[f].from <= count /\ calls[f].from \in Saved
        BY DEF AccessInv, Second
      <4>2. calls[f].op = "second" => calls[f].from # n
        BY <1>1, <4>1, AccessParts DEF n
      <4> QED BY <1>3, <3>3, <4>2 DEF OneCall
    <3>4. n \in Saved /\ n <= count' /\ saved'[n].kind = "PAIR" /\ ~saved'[n].refresh
      BY <1>1, <1>2, <3>1, AccessParts DEF n
    <3> QED BY <2>2, <3>1, <3>2, <3>3, <3>4 DEF Second
  <2>3. CASE g # h
    <3> DEFINE j == calls[g].from
    <3>1. calls'[g] = calls[g] /\ Second(g) /\ calls[g].op = "second"
      BY <1>3, <2>3 DEF OneCall, AccessInv
    <3>2. /\ j \in Saved /\ j <= count /\ saved[j].kind = "PAIR" /\ ~saved[j].refresh
          /\ \A f \in Handlers : <<j, "refresh">> \notin calls[f].live
          /\ \A f \in Handlers : calls[f].op = "second" /\ calls[f].from = j => f = g
      BY <3>1 DEF Second
    <3>3. j # n /\ saved'[j] = saved[j] /\ j <= count'
      BY <1>1, <1>2, <1>5, <3>2, AccessParts DEF n
    <3>4. \A f \in Handlers : <<j, "refresh">> \notin calls'[f].live
      BY <2>1, <3>2
    <3>5. ASSUME NEW f \in Handlers, calls'[f].op = "second", calls'[f].from = j
          PROVE  f = g
      <4>1. f # h
        BY <1>1, <1>3, <3>2, <3>3, <3>5, AccessParts
      <4> QED BY <1>3, <3>2, <3>5, <4>1 DEF OneCall
    <3> QED BY <3>1, <3>2, <3>3, <3>4, <3>5 DEF Second
  <2> QED BY <2>2, <2>3
<1> QED BY <1>4, <1>7, <1>8, <1>9, <1>10, <1>11 DEF AccessInv

\* The live tokens were saved.
LEMMA LiveFact ==
    ASSUME AccessInv, NEW p \in Pairs
    PROVE  LiveTokens(p) \subseteq Saved \X Halves /\ \A t \in LiveTokens(p) : t[1] <= count
BY AccessParts DEF LiveTokens, Numbered

\* A call begins.
LEMMA EnterFact ==
    ASSUME AccessInv, NEW h \in Handlers, NEW op \in CallOps, NEW p \in Pairs,
           NEW s \in SUBSET Scopes, NEW from \in 0..MaxSaved, Enter(h, op, p, s, from)
    PROVE  /\ calls' \in [Handlers -> Call] /\ OneCall(h)
           /\ calls'[h].op = op /\ calls'[h].of = p /\ calls'[h].scopes = s
           /\ calls'[h].from = from /\ calls'[h].live \subseteq LiveTokens(p)
<1>1. LiveTokens(p) \in SUBSET (Saved \X Halves) /\ {} \in SUBSET (Saved \X Halves)
  BY LiveFact
<1> DEFINE live == IF op = "revoke" THEN LiveTokens(p) ELSE {}
           k == [op |-> op, of |-> p, row |-> grants[p], scopes |-> s, from |-> from, live |-> live]
<1>2. live \in SUBSET (Saved \X Halves) /\ live \subseteq LiveTokens(p)
  BY <1>1
<1>3. calls' = [calls EXCEPT ![h] = k]
  BY DEF Enter
<1> HIDE DEF live
<1>4. k \in Call
  BY <1>2, AccessParts DEF Call
<1>5. calls' \in [Handlers -> Call] /\ OneCall(h) /\ calls'[h] = k
  BY <1>3, <1>4, AccessParts DEF OneCall
<1> QED BY <1>2, <1>5

LEMMA Reading ==
    ASSUME AccessInv, UNCHANGED <<saved, count, consented>>
    PROVE  Kept /\ Consents
BY DEF Kept, Keeps, Consents

\* A call ends without a trace in the rows.
LEMMA LeaveRule ==
    ASSUME AccessInv, NEW h \in Handlers, Leave(h), UNCHANGED <<clients, saved, count, keys>>,
           grants' \in [Pairs -> GrantRow], consented' \in [Pairs -> SUBSET Scopes], Consents
    PROVE  AccessInv'
<1>1. calls' \in [Handlers -> Call] /\ OneCall(h) /\ calls'[h] = Rested
  BY LeaveFact
<1>2. TypeOKAccess'
  BY <1>1, AccessParts DEF TypeOKAccess, Call
<1>3. Kept
  BY DEF Kept, Keeps
<1>4. Taken(h) /\ Starts(h) /\ Held(calls[h])' /\ Agreed(calls[h])' /\ Answered(calls[h])'
  BY <1>1, RestedFact, AccessParts DEF Taken, Claims, Held, Agreed, Answered, Exchanging, Starts
<1> QED BY <1>1, <1>2, <1>3, <1>4, KeptRule

\* A call goes on to its next step and keeps what it has in its hands.
LEMMA OnFact ==
    ASSUME AccessInv, NEW h \in Handlers, NEW op \in CallOps, Next_(h, op)
    PROVE  /\ calls' \in [Handlers -> Call] /\ OneCall(h) /\ calls'[h].op = op
           /\ calls'[h].of = calls[h].of /\ calls'[h].scopes = calls[h].scopes
           /\ calls'[h].from = calls[h].from /\ calls'[h].live = calls[h].live
<1>1. calls[h] \in Call /\ calls' = [calls EXCEPT ![h] = [@ EXCEPT !.op = op]]
  BY AccessParts DEF Next_
<1>2. [calls[h] EXCEPT !.op = op] \in Call
  BY <1>1 DEF Call
<1> QED BY <1>1, <1>2, AccessParts DEF OneCall, Call

LEMMA ApproveRule ==
    ASSUME AccessInv, NEW h \in Handlers, NEW p \in Pairs, NEW op \in CallOps,
           op \notin Exchanging \cup {"reread", "code", "killed", "second"}, NEW s \in SUBSET Scopes,
           Enter(h, op, p, s, 0), UNCHANGED <<clients, grants, saved, count, keys, consented>>
    PROVE  AccessInv'
<1>1. /\ calls' \in [Handlers -> Call] /\ OneCall(h)
      /\ calls'[h].op = op /\ calls'[h].of = p /\ calls'[h].scopes = s
      /\ calls'[h].from = 0 /\ calls'[h].live \subseteq LiveTokens(p)
  <2>1. 0 \in 0..MaxSaved
    BY AccessParts
  <2> QED BY <2>1, EnterFact
<1>2. TypeOKAccess'
  BY <1>1, AccessParts DEF TypeOKAccess, Call
<1>3. Held(calls[h])'
  BY <1>1, LiveFact, AccessParts DEF Held, Exchanging
<1>4. Agreed(calls[h])' /\ Answered(calls[h])'
  BY <1>1 DEF Agreed, Answered, Exchanging
<1>5. Taken(h) /\ Starts(h)
  BY <1>1 DEF Taken, Claims, Exchanging, Starts
<1> QED BY <1>1, <1>2, <1>3, <1>4, <1>5, Reading, KeptRule

LEMMA CommitFact ==
    ASSUME AccessInv, NEW p \in Pairs, NEW loaded \in GrantRow, NEW changed \in GrantRow,
           CommitGrant(p, loaded, changed)
    PROVE  grants' \in [Pairs -> GrantRow]
BY AccessParts DEF CommitGrant, GrantRow

LEMMA CallFact ==
    ASSUME AccessInv, NEW h \in Handlers
    PROVE  /\ calls[h] \in Call /\ calls[h].op \in CallOps /\ calls[h].of \in Pairs
           /\ calls[h].row \in GrantRow /\ calls[h].scopes \in SUBSET Scopes
           /\ calls[h].from \in 0..MaxSaved /\ calls[h].live \in SUBSET (Saved \X Halves)
           /\ Held(calls[h]) /\ Agreed(calls[h]) /\ Answered(calls[h])
BY AccessParts DEF Call, AccessInv

\* The consent is widened by what a call agreed to.
LEMMA WidenFact ==
    ASSUME AccessInv, NEW p \in Pairs, NEW s \in SUBSET Scopes,
           consented' = [consented EXCEPT ![p] = @ \cup s]
    PROVE  consented' \in [Pairs -> SUBSET Scopes] /\ Consents /\ s \subseteq consented'[p]
BY AccessParts DEF Consents

LEMMA UpsertKeeps ==
    ASSUME AccessInv, NEW h \in Handlers, NEW e, upsert_grant(h, e)
    PROVE  AccessInv'
<1> DEFINE k == calls[h]
<1>1. CASE Leave(h) /\ UNCHANGED <<grants, consented>>
  BY <1>1, LeaveRule, AccessParts, Reading DEF upsert_grant
<1>2. CASE /\ CommitGrant(k.of, k.row, [status |-> "ACTIVE", scopes |-> k.scopes])
           /\ consented' = [consented EXCEPT ![k.of] = @ \cup k.scopes]
           /\ Next_(h, "reread")
  <2>1. grants' \in [Pairs -> GrantRow]
    <3>1. [status |-> "ACTIVE", scopes |-> k.scopes] \in GrantRow
      BY CallFact DEF GrantRow
    <3> QED BY <1>2, <3>1, CommitFact, CallFact
  <2>2. consented' \in [Pairs -> SUBSET Scopes] /\ Consents /\ k.scopes \subseteq consented'[k.of]
    BY <1>2, WidenFact, CallFact
  <2>3. /\ calls' \in [Handlers -> Call] /\ OneCall(h) /\ calls'[h].op = "reread"
        /\ calls'[h].of = k.of /\ calls'[h].scopes = k.scopes
        /\ calls'[h].from = k.from /\ calls'[h].live = k.live
    BY <1>2, OnFact DEF CallOps
  <2>4. saved' = saved /\ count' = count /\ clients' = clients /\ keys' = keys
    BY DEF upsert_grant
  <2>5. TypeOKAccess'
    BY <2>1, <2>2, <2>3, <2>4, AccessParts DEF TypeOKAccess, Call
  <2>6. Kept
    BY <2>4 DEF Kept, Keeps
  <2>7. Held(calls[h])' /\ Agreed(calls[h])' /\ Answered(calls[h])' /\ Taken(h) /\ Starts(h)
    BY <2>2, <2>3, <2>4, CallFact DEF Held, Agreed, Answered, Exchanging, Taken, Claims, Starts
  <2> QED BY <2>2, <2>3, <2>5, <2>6, <2>7, KeptRule
<1> QED BY <1>1, <1>2 DEF upsert_grant

LEMMA RereadKeeps ==
    ASSUME AccessInv, NEW h \in Handlers, reread_grant(h)
    PROVE  AccessInv'
<1>1. UNCHANGED <<clients, grants, saved, count, keys, consented>> /\ calls[h].op = "reread"
  BY DEF reread_grant
<1>2. CASE Leave(h)
  BY <1>1, <1>2, LeaveRule, Reading, AccessParts
<1>3. CASE Next_(h, "code")
  <2>1. /\ calls' \in [Handlers -> Call] /\ OneCall(h) /\ calls'[h].op = "code"
        /\ calls'[h].of = calls[h].of /\ calls'[h].scopes = calls[h].scopes
        /\ calls'[h].from = calls[h].from /\ calls'[h].live = calls[h].live
    BY <1>3, OnFact DEF CallOps
  <2>2. TypeOKAccess'
    BY <1>1, <2>1, AccessParts DEF TypeOKAccess, Call
  <2>3. Held(calls[h])' /\ Agreed(calls[h])' /\ Answered(calls[h])' /\ Taken(h) /\ Starts(h)
    BY <1>1, <2>1, CallFact DEF Held, Agreed, Answered, Exchanging, Taken, Claims, Starts
  <2> QED BY <1>1, <2>1, <2>2, <2>3, Reading, KeptRule
<1> QED BY <1>2, <1>3 DEF reread_grant

LEMMA SaveCodeKeeps ==
    ASSUME AccessInv, NEW h \in Handlers, save_code(h)
    PROVE  AccessInv'
<1> DEFINE k == calls[h]
           row == [kind |-> "CODE", of |-> k.of, scopes |-> k.scopes, access |-> FALSE,
                   refresh |-> FALSE, used |-> FALSE, expired |-> FALSE, from |-> 0]
<1>1. row \in SavedRow
  BY CallFact, AccessParts DEF SavedRow
<1>2. row.scopes \subseteq consented[row.of]
  BY CallFact DEF save_code, Agreed
<1>3. Save(row) /\ Leave(h) /\ UNCHANGED <<clients, grants, keys, consented>>
  BY DEF save_code
<1>4. row.kind = "CODE" /\ ~row.used /\ row.from = 0
  OBVIOUS
<1>5. /\ calls' \in [Handlers -> Call] /\ OneCall(h) /\ calls'[h].op = "idle"
      /\ calls'[h].from = 0 /\ calls'[h].live = {}
  BY <1>3, LeaveFact, RestedFact
<1> HIDE DEF row
<1> QED BY <1>1, <1>2, <1>3, <1>4, <1>5, SaveRule

LEMMA IssueKeeps ==
    ASSUME AccessInv, NEW h \in Handlers, issue(h)
    PROVE  AccessInv'
<1> DEFINE k == calls[h]
           row == [kind |-> "PAIR", of |-> k.of, scopes |-> k.scopes, access |-> TRUE,
                   refresh |-> FALSE, used |-> FALSE, expired |-> FALSE, from |-> k.from]
<1>1. row \in SavedRow
  BY CallFact, AccessParts DEF SavedRow
<1>2. row.scopes \subseteq consented[row.of]
  BY CallFact DEF issue, Agreed, Exchanging
<1>3. Save(row) /\ UNCHANGED <<clients, grants, keys, consented>>
  BY DEF issue
<1>4. /\ row.kind = "PAIR" /\ ~row.used /\ ~row.refresh
      /\ row.from = calls[h].from /\ calls[h].op = "issue"
  BY DEF issue
<1>5. /\ calls' \in [Handlers -> Call] /\ OneCall(h) /\ calls'[h].op = "second"
      /\ calls'[h].from = count + 1 /\ calls'[h].live = calls[h].live
  <2>1. count' = count + 1 /\ count' \in 0..MaxSaved
    BY <1>3, AccessParts DEF Save
  <2>2. calls' = [calls EXCEPT ![h] = [@ EXCEPT !.op = "second", !.from = count']]
    BY DEF issue
  <2>3. [calls[h] EXCEPT !.op = "second", !.from = count'] \in Call
    BY <2>1, CallFact DEF Call, CallOps
  <2> QED BY <2>1, <2>2, <2>3, AccessParts DEF OneCall, Call
<1> HIDE DEF row
<1> QED BY <1>1, <1>2, <1>3, <1>4, <1>5, SaveRule

\* The refresh token is saved: only its own call was about to, and no
\* revocation counts it among the tokens it must kill.
LEMMA IssueRefreshKeeps ==
    ASSUME AccessInv, NEW h \in Handlers, issue_refresh(h)
    PROVE  AccessInv'
<1> DEFINE j == calls[h].from
           row == [saved[j] EXCEPT !.refresh = TRUE]
<1>1. UNCHANGED <<clients, grants, count, keys, consented>> /\ calls[h].op = "second" /\ Leave(h)
  BY DEF issue_refresh
<1>2. /\ j \in Saved /\ saved[j].kind = "PAIR" /\ saved[j] \in SavedRow
      /\ \A g \in Handlers : <<j, "refresh">> \notin calls[g].live
      /\ \A g \in Handlers : calls[g].op = "second" /\ calls[g].from = j => g = h
  BY <1>1, AccessParts DEF AccessInv, Second
<1>3. saved' = [saved EXCEPT ![j] = row]
  BY DEF issue_refresh
<1> HIDE DEF j
<1>4. /\ row \in SavedRow /\ row.kind = saved[j].kind /\ row.of = saved[j].of
      /\ row.scopes = saved[j].scopes /\ row.from = saved[j].from
      /\ row.used = saved[j].used /\ row.access = saved[j].access
  BY <1>2 DEF SavedRow
<1> HIDE DEF row
<1>5. /\ saved' \in [Saved -> SavedRow] /\ \A i \in Saved : i # j => saved'[i] = saved[i]
      /\ saved'[j] = row
  BY <1>2, <1>3, <1>4, AccessParts
<1>6. calls' \in [Handlers -> Call] /\ OneCall(h) /\ calls'[h] = Rested
  BY <1>1, LeaveFact
<1>7. TypeOKAccess'
  BY <1>1, <1>5, <1>6, AccessParts DEF TypeOKAccess, Call
<1>8. ASSUME NEW i \in Saved
      PROVE  /\ saved'[i].kind = saved[i].kind /\ saved'[i].of = saved[i].of
             /\ saved'[i].scopes = saved[i].scopes /\ saved'[i].from = saved[i].from
             /\ saved'[i].used = saved[i].used /\ saved'[i].access = saved[i].access
             /\ i # j => saved'[i] = saved[i]
  BY <1>4, <1>5
<1>9. Numbered' /\ ScopesConsented'
  BY <1>1, <1>8, AccessParts DEF Numbered, ScopesConsented
<1>10. ASSUME NEW p \in Pairs, NEW t \in LiveTokens(p)', t # <<j, "refresh">>
       PROVE  t \in LiveTokens(p)
  <2>1. /\ t \in Saved \X Halves /\ saved'[t[1]].kind = "PAIR" /\ saved'[t[1]].of = p
        /\ saved'[t[1]][t[2]]
    BY <1>10 DEF LiveTokens
  <2>2. CASE t[1] # j
    BY <1>8, <2>1, <2>2 DEF LiveTokens
  <2>3. CASE t[1] = j /\ t[2] = "access"
    BY <1>8, <2>1, <2>3 DEF LiveTokens
  <2> QED BY <1>10, <2>1, <2>2, <2>3 DEF Halves
<1>11. ASSUME NEW g \in Handlers
       PROVE  (Held(calls[g]) /\ Agreed(calls[g]) /\ Answered(calls[g]) /\ Second(g))'
  <2>1. CASE g = h
    <3>1. calls'[g] = Rested /\ 0 <= count'
      BY <1>1, <1>6, <2>1, AccessParts
    <3>2. Second(g)'
      BY <3>1, RestedFact DEF Second
    <3> QED BY <3>1, <3>2, RestedFact DEF Held, Agreed, Answered, Exchanging
  <2>2. CASE g # h
    <3>1. /\ calls'[g] = calls[g] /\ calls[g] \in Call /\ Held(calls[g]) /\ Agreed(calls[g])
          /\ Answered(calls[g]) /\ Second(g)
      BY <1>6, <2>2, AccessParts DEF OneCall, AccessInv
    <3>2. Held(calls[g])'
      <4>1. calls[g].op \in {"refresh", "rotate"} => calls[g].from \in Saved
        BY <3>1, AccessParts DEF Held, Exchanging, Call
      <4> QED BY <1>1, <1>8, <3>1, <4>1 DEF Held
    <3>3. Agreed(calls[g])'
      BY <1>1, <3>1 DEF Agreed
    <3>4. Answered(calls[g])'
      <4>1. calls[g].of \in Pairs
        BY <3>1 DEF Call
      <4>2. calls[g].op = "killed" => calls[g].live \cap LiveTokens(calls[g].of)' = {}
        BY <1>2, <1>10, <3>1, <4>1 DEF Answered
      <4> QED BY <3>1, <4>2 DEF Answered
    <3>5. Second(g)'
      <4> SUFFICES ASSUME calls[g].op = "second" PROVE Second(g)'
        BY <3>1 DEF Second
      <4> DEFINE k == calls[g].from
      <4>1. /\ k \in Saved /\ k <= count /\ saved[k].kind = "PAIR" /\ ~saved[k].refresh /\ k # j
            /\ \A f \in Handlers : <<k, "refresh">> \notin calls[f].live
            /\ \A f \in Handlers : calls[f].op = "second" /\ calls[f].from = k => f = g
        BY <1>2, <2>2, <3>1 DEF Second
      <4>2. saved'[k] = saved[k] /\ count' = count
        BY <1>1, <1>8, <4>1
      <4>3. \A f \in Handlers : <<k, "refresh">> \notin calls'[f].live
        BY <1>6, <4>1, RestedFact DEF OneCall
      <4>4. \A f \in Handlers : calls'[f].op = "second" /\ calls'[f].from = k => f = g
        BY <1>6, <4>1, RestedFact DEF OneCall
      <4> QED BY <3>1, <4>1, <4>2, <4>3, <4>4 DEF Second
    <3> QED BY <3>2, <3>3, <3>4, <3>5
  <2> QED BY <2>1, <2>2
<1>12. ASSUME NEW i \in Saved, saved'[i].kind = "CODE" PROVE Redeemed(i)'
  <2>1. saved[i].kind = "CODE" /\ Redeemed(i) /\ saved'[i].used = saved[i].used
    BY <1>8, <1>12 DEF AccessInv
  <2>2. \A k \in Saved : PairOf(k, i)' <=> PairOf(k, i)
    BY <1>8 DEF PairOf
  <2>3. \A g \in Handlers : Claims(g, i)' => Claims(g, i)
    BY <1>6, RestedFact DEF Claims, OneCall
  <2> QED BY <2>1, <2>2, <2>3 DEF Redeemed
<1> QED BY <1>7, <1>9, <1>11, <1>12 DEF AccessInv

LEMMA TakeKeeps ==
    ASSUME AccessInv, NEW h \in Handlers, NEW i \in Saved, take_code(h, i)
    PROVE  AccessInv'
<1>1. saved[i].kind = "CODE" /\ ~saved[i].used /\ saved[i] \in SavedRow
  BY AccessParts DEF take_code, Takeable
<1>2. saved[i].of \in Pairs /\ saved[i].scopes \in SUBSET Scopes /\ i \in 0..MaxSaved /\ i <= count /\ i # 0
  BY <1>1, AccessParts DEF SavedRow, Numbered
<1>3. /\ calls' \in [Handlers -> Call] /\ OneCall(h)
      /\ calls'[h].op = "redeem" /\ calls'[h].of = saved[i].of /\ calls'[h].scopes = saved[i].scopes
      /\ calls'[h].from = i /\ calls'[h].live \subseteq LiveTokens(saved[i].of)
  <2>1. "redeem" \in CallOps
    BY DEF CallOps
  <2> DEFINE p == saved[i].of
             s == saved[i].scopes
             op == "redeem"
  <2>2. Enter(h, op, p, s, i) /\ p \in Pairs /\ s \in SUBSET Scopes /\ i \in 0..MaxSaved /\ op \in CallOps
    BY <1>2, <2>1 DEF take_code
  <2> HIDE DEF p, s, op
  <2>3. /\ calls' \in [Handlers -> Call] /\ OneCall(h)
        /\ calls'[h].op = op /\ calls'[h].of = p /\ calls'[h].scopes = s
        /\ calls'[h].from = i /\ calls'[h].live \subseteq LiveTokens(p)
    BY <2>2, EnterFact
  <2> QED BY <2>3 DEF p, s, op
<1>4. /\ saved' \in [Saved -> SavedRow] /\ saved' = [saved EXCEPT ![i] = [@ EXCEPT !.used = TRUE]]
  <2>1. [saved[i] EXCEPT !.used = TRUE] \in SavedRow
    BY <1>1 DEF SavedRow
  <2>2. saved' = [saved EXCEPT ![i] = [@ EXCEPT !.used = TRUE]]
    BY DEF take_code
  <2> QED BY <2>1, <2>2, AccessParts
<1>5. Kept /\ saved'[i].used
  BY <1>1, <1>4, AccessParts DEF Kept, Keeps, take_code, SavedRow
<1>6. TypeOKAccess' /\ Consents
  BY <1>3, <1>4, AccessParts DEF TypeOKAccess, Call, take_code, Consents
<1>7. Held(calls[h])' /\ Answered(calls[h])'
  <2>1. count' = count
    BY DEF take_code
  <2> QED BY <1>2, <1>3, <2>1, LiveFact DEF Held, Answered
<1>8. Agreed(calls[h])'
  BY <1>3, AccessParts DEF Agreed, ScopesConsented, take_code
<1>9. Taken(h) /\ Starts(h)
  BY <1>1, <1>2, <1>3, <1>5 DEF Taken, Claims, Starts
<1> QED BY <1>3, <1>5, <1>6, <1>7, <1>8, <1>9, KeptRule

LEMMA RefreshPresentKeeps ==
    ASSUME AccessInv, NEW h \in Handlers, NEW i \in Saved, NEW s \in SUBSET Scopes,
           present_refresh(h, i, s)
    PROVE  AccessInv'
<1>1. saved[i].kind = "PAIR" /\ saved[i] \in SavedRow /\ s \subseteq saved[i].scopes
  BY AccessParts DEF present_refresh, load_refresh_token, Narrows
<1> DEFINE p == saved[i].of
           op == "refresh"
<1>2. /\ Enter(h, op, p, s, i) /\ p \in Pairs /\ i \in 0..MaxSaved /\ op \in CallOps
      /\ i <= count /\ i # 0
  BY <1>1, AccessParts DEF present_refresh, SavedRow, Numbered, CallOps
<1>3. op = "refresh" /\ p = saved[i].of
  OBVIOUS
<1> HIDE DEF p, op
<1>4. /\ calls' \in [Handlers -> Call] /\ OneCall(h)
      /\ calls'[h].op = op /\ calls'[h].of = p /\ calls'[h].scopes = s
      /\ calls'[h].from = i /\ calls'[h].live \subseteq LiveTokens(p)
  BY <1>2, EnterFact
<1>5. UNCHANGED <<clients, grants, saved, count, keys, consented>>
  BY DEF present_refresh
<1>6. TypeOKAccess'
  BY <1>4, <1>5, AccessParts DEF TypeOKAccess, Call
<1>7. Held(calls[h])' /\ Answered(calls[h])' /\ Taken(h) /\ Starts(h)
  BY <1>1, <1>2, <1>3, <1>4, <1>5, LiveFact DEF Held, Answered, Taken, Claims, Starts
<1>8. Agreed(calls[h])'
  BY <1>1, <1>3, <1>4, <1>5, AccessParts DEF Agreed, ScopesConsented
<1> QED BY <1>4, <1>5, <1>6, <1>7, <1>8, Reading, KeptRule

LEMMA RedeemKeeps ==
    ASSUME AccessInv, NEW h \in Handlers, redeem_grant(h)
    PROVE  AccessInv'
<1> DEFINE s == calls[h].scopes \cap grants[calls[h].of].scopes
<1>1. UNCHANGED <<clients, grants, saved, count, keys, consented>> /\ calls[h].op = "redeem"
  BY DEF redeem_grant
<1>2. CASE Leave(h)
  BY <1>1, <1>2, LeaveRule, Reading, AccessParts
<1>3. CASE calls' = [calls EXCEPT ![h].op = "issue", ![h].scopes = s]
  <2>1. s \in SUBSET Scopes /\ s \subseteq calls[h].scopes
    BY CallFact
  <2> HIDE DEF s
  <2>2. calls[h] \in Call /\ "issue" \in CallOps
    BY CallFact DEF CallOps
  <2>3. calls' = [calls EXCEPT ![h] = [@ EXCEPT !.op = "issue", !.scopes = s]]
    BY <1>3
  <2>4. [calls[h] EXCEPT !.op = "issue", !.scopes = s] \in Call
    BY <2>1, <2>2 DEF Call
  <2>5. /\ calls' \in [Handlers -> Call] /\ OneCall(h) /\ calls'[h].op = "issue"
        /\ calls'[h].of = calls[h].of /\ calls'[h].scopes = s
        /\ calls'[h].from = calls[h].from /\ calls'[h].live = calls[h].live
    BY <2>2, <2>3, <2>4, AccessParts DEF OneCall, Call
  <2>6. TypeOKAccess'
    BY <1>1, <2>5, AccessParts DEF TypeOKAccess, Call
  <2>7. Held(calls[h])' /\ Agreed(calls[h])' /\ Answered(calls[h])' /\ Taken(h) /\ Starts(h)
    BY <1>1, <2>1, <2>5, CallFact DEF Held, Agreed, Answered, Exchanging, Taken, Claims, Starts
  <2> QED BY <1>1, <2>5, <2>6, <2>7, Reading, KeptRule
<1> QED BY <1>2, <1>3 DEF redeem_grant

LEMMA RefreshKeeps ==
    ASSUME AccessInv, NEW h \in Handlers, refresh_grant(h)
    PROVE  AccessInv'
<1>1. UNCHANGED <<clients, grants, saved, count, keys, consented>> /\ calls[h].op = "refresh"
  BY DEF refresh_grant
<1>2. CASE Leave(h)
  BY <1>1, <1>2, LeaveRule, Reading, AccessParts
<1>3. CASE Next_(h, "rotate")
  <2>1. /\ calls' \in [Handlers -> Call] /\ OneCall(h) /\ calls'[h].op = "rotate"
        /\ calls'[h].of = calls[h].of /\ calls'[h].scopes = calls[h].scopes
        /\ calls'[h].from = calls[h].from /\ calls'[h].live = calls[h].live
    BY <1>3, OnFact DEF CallOps
  <2>2. TypeOKAccess'
    BY <1>1, <2>1, AccessParts DEF TypeOKAccess, Call
  <2>3. Held(calls[h])' /\ Agreed(calls[h])' /\ Answered(calls[h])' /\ Taken(h) /\ Starts(h)
    BY <1>1, <2>1, CallFact DEF Held, Agreed, Answered, Exchanging, Taken, Claims, Starts
  <2> QED BY <1>1, <2>1, <2>2, <2>3, Reading, KeptRule
<1> QED BY <1>2, <1>3 DEF refresh_grant

\* A row loses its use.
LEMMA SpendFact ==
    ASSUME AccessInv, NEW i \in Saved, NEW r \in SavedRow, saved' = [saved EXCEPT ![i] = r],
           count' = count,
           r.kind = saved[i].kind, r.of = saved[i].of, r.scopes = saved[i].scopes,
           r.from = saved[i].from, r.access => saved[i].access,
           r.refresh => saved[i].refresh, r.used = saved[i].used
    PROVE  saved' \in [Saved -> SavedRow] /\ Kept
BY AccessParts DEF Kept, Keeps

LEMMA RotateKeeps ==
    ASSUME AccessInv, NEW h \in Handlers, rotate(h)
    PROVE  AccessInv'
<1> DEFINE i == calls[h].from
           r == [saved[i] EXCEPT !.refresh = FALSE]
<1>1. UNCHANGED <<clients, grants, count, keys, consented>> /\ calls[h].op = "rotate" /\ Next_(h, "issue")
  BY DEF rotate
<1>2. i \in Saved /\ saved[i].kind = "PAIR" /\ i # 0 /\ saved[i] \in SavedRow
  BY <1>1, CallFact, AccessParts DEF Held, Exchanging
<1>3. saved' = [saved EXCEPT ![i] = r]
  BY DEF rotate
<1> HIDE DEF i
<1>4. r \in SavedRow /\ r.kind = saved[i].kind /\ r.of = saved[i].of /\ r.scopes = saved[i].scopes
      /\ r.from = saved[i].from /\ r.access = saved[i].access /\ ~r.refresh /\ r.used = saved[i].used
  BY <1>2 DEF SavedRow
<1> HIDE DEF r
<1>5. saved' \in [Saved -> SavedRow] /\ Kept
  BY <1>1, <1>2, <1>3, <1>4, SpendFact
<1>6. /\ calls' \in [Handlers -> Call] /\ OneCall(h) /\ calls'[h].op = "issue"
      /\ calls'[h].of = calls[h].of /\ calls'[h].scopes = calls[h].scopes
      /\ calls'[h].from = calls[h].from /\ calls'[h].live = calls[h].live
  BY <1>1, OnFact DEF CallOps
<1>7. TypeOKAccess' /\ Consents
  BY <1>1, <1>5, <1>6, AccessParts DEF TypeOKAccess, Call, Consents
<1>8. Held(calls[h])' /\ Agreed(calls[h])' /\ Answered(calls[h])'
  BY <1>1, <1>6, CallFact DEF Held, Agreed, Answered, Exchanging
<1>9. Taken(h) /\ Starts(h)
  BY <1>2, <1>6 DEF Taken, Claims, Starts, i
<1> QED BY <1>5, <1>6, <1>7, <1>8, <1>9, KeptRule

LEMMA StatusKeeps ==
    ASSUME AccessInv, NEW h \in Handlers, set_grant_status(h)
    PROVE  AccessInv'
<1> DEFINE to == IF calls[h].op = "pause" THEN "PAUSED" ELSE "ACTIVE"
<1>1. UNCHANGED <<clients, saved, count, keys, consented>> /\ Leave(h)
  BY DEF set_grant_status
<1>2. calls[h].row \in GrantRow /\ calls[h].of \in Pairs
  BY CallFact
<1>3. [calls[h].row EXCEPT !.status = to] \in GrantRow
  BY <1>2 DEF GrantRow
<1>4. grants' \in [Pairs -> GrantRow]
  <2>1. CASE UNCHANGED grants
    BY <2>1, AccessParts
  <2>2. CASE CommitGrant(calls[h].of, calls[h].row, [calls[h].row EXCEPT !.status = to])
    BY <1>2, <1>3, <2>2, CommitFact
  <2> QED BY <2>1, <2>2 DEF set_grant_status
<1> QED BY <1>1, <1>4, LeaveRule, Reading, AccessParts

LEMMA RevokeKeeps ==
    ASSUME AccessInv, NEW h \in Handlers, revoke_grant(h)
    PROVE  AccessInv'
<1>1. UNCHANGED <<clients, saved, count, keys, consented>> /\ calls[h].op = "revoke"
  BY DEF revoke_grant
<1>2. calls[h].row \in GrantRow /\ calls[h].of \in Pairs
  BY CallFact
<1>3. [calls[h].row EXCEPT !.status = "REVOKED"] \in GrantRow
  BY <1>2 DEF GrantRow
<1>4. grants' \in [Pairs -> GrantRow]
  BY <1>2, <1>3, CommitFact DEF revoke_grant
<1>5. CASE Leave(h)
  BY <1>1, <1>4, <1>5, LeaveRule, Reading, AccessParts
<1>6. CASE Next_(h, "kill")
  <2>1. /\ calls' \in [Handlers -> Call] /\ OneCall(h) /\ calls'[h].op = "kill"
        /\ calls'[h].of = calls[h].of /\ calls'[h].scopes = calls[h].scopes
        /\ calls'[h].from = calls[h].from /\ calls'[h].live = calls[h].live
    BY <1>6, OnFact DEF CallOps
  <2>2. TypeOKAccess'
    BY <1>1, <1>4, <2>1, AccessParts DEF TypeOKAccess, Call
  <2>3. Held(calls[h])' /\ Agreed(calls[h])' /\ Answered(calls[h])' /\ Taken(h) /\ Starts(h)
    BY <1>1, <2>1, CallFact DEF Held, Agreed, Answered, Exchanging, Taken, Claims, Starts
  <2> QED BY <1>1, <2>1, <2>2, <2>3, Reading, KeptRule
<1> QED BY <1>5, <1>6 DEF revoke_grant

LEMMA KillKeeps ==
    ASSUME AccessInv, NEW h \in Handlers, revoke_tokens_for_grant(h)
    PROVE  AccessInv'
<1> DEFINE p == calls[h].of
           spend(i) == [saved[i] EXCEPT !.access = FALSE, !.refresh = FALSE]
<1>1. UNCHANGED <<clients, grants, count, keys, consented>> /\ calls[h].op = "kill" /\ Next_(h, "killed")
  BY DEF revoke_tokens_for_grant
<1>2. p \in Pairs
  BY CallFact
<1>3. \A i \in Saved : saved'[i] = IF saved[i].kind = "PAIR" /\ saved[i].of = p THEN spend(i) ELSE saved[i]
  BY DEF revoke_tokens_for_grant
<1>4. DOMAIN saved' = Saved /\ saved' = [i \in Saved |-> saved'[i]]
  BY DEF revoke_tokens_for_grant
<1>5. ASSUME NEW i \in Saved
      PROVE  /\ saved'[i] \in SavedRow /\ Keeps(i)
             /\ \A d \in Halves : <<i, d>> \notin LiveTokens(p)'
  <2>1. saved[i] \in SavedRow
    BY AccessParts
  <2>2. CASE saved[i].kind = "PAIR" /\ saved[i].of = p
    <3>1. saved'[i] = spend(i)
      BY <1>3, <2>2
    <3>2. /\ spend(i) \in SavedRow /\ ~spend(i).access /\ ~spend(i).refresh
          /\ spend(i).kind = saved[i].kind /\ spend(i).of = saved[i].of /\ spend(i).used = saved[i].used
          /\ spend(i).scopes = saved[i].scopes /\ spend(i).from = saved[i].from
      BY <2>1 DEF SavedRow
    <3>3. \A d \in Halves : <<i, d>> \notin LiveTokens(p)'
      BY <3>1, <3>2 DEF LiveTokens, Halves
    <3> QED BY <3>1, <3>2, <3>3 DEF Keeps
  <2>3. CASE ~(saved[i].kind = "PAIR" /\ saved[i].of = p)
    <3>1. saved'[i] = saved[i] /\ calls'[h].of = p
      BY <1>1, <1>3, <2>3, OnFact DEF CallOps
    <3> QED BY <2>1, <2>3, <3>1 DEF Keeps, LiveTokens
  <2> QED BY <2>2, <2>3
<1>6. saved' \in [Saved -> SavedRow] /\ Kept
  BY <1>1, <1>4, <1>5 DEF Kept
<1>7. /\ calls' \in [Handlers -> Call] /\ OneCall(h) /\ calls'[h].op = "killed"
      /\ calls'[h].of = p /\ calls'[h].scopes = calls[h].scopes
      /\ calls'[h].from = calls[h].from /\ calls'[h].live = calls[h].live
  BY <1>1, OnFact DEF CallOps
<1>8. TypeOKAccess' /\ Consents
  BY <1>1, <1>6, <1>7, AccessParts DEF TypeOKAccess, Call, Consents
<1>9. Held(calls[h])' /\ Agreed(calls[h])' /\ Taken(h) /\ Starts(h)
  BY <1>1, <1>7, CallFact DEF Held, Agreed, Exchanging, Taken, Claims, Starts
<1>10. Answered(calls[h])'
  <2>1. \A t \in Saved \X Halves : t \notin LiveTokens(calls[h].of)'
    BY <1>5, <1>7 DEF LiveTokens
  <2> QED BY <1>7, <2>1, CallFact DEF Answered
<1> QED BY <1>6, <1>7, <1>8, <1>9, <1>10, KeptRule

LEMMA EditKeeps ==
    ASSUME AccessInv, NEW h \in Handlers, NEW b \in BOOLEAN, update_connected_app(h, b)
    PROVE  AccessInv'
<1> DEFINE k == calls[h]
<1>1. UNCHANGED <<clients, saved, count, keys>> /\ Leave(h)
  BY DEF update_connected_app
<1>2. CASE UNCHANGED <<grants, consented>>
  BY <1>1, <1>2, LeaveRule, Reading, AccessParts
<1>3. CASE update_grant_binding(k) /\ consented' = [consented EXCEPT ![k.of] = @ \cup k.scopes]
  <2>1. k.row \in GrantRow /\ k.of \in Pairs /\ k.scopes \in SUBSET Scopes
    BY CallFact
  <2>2. [k.row EXCEPT !.scopes = k.scopes] \in GrantRow
    BY <2>1 DEF GrantRow
  <2>3. grants' \in [Pairs -> GrantRow]
    BY <1>3, <2>1, <2>2, CommitFact DEF update_grant_binding
  <2>4. consented' \in [Pairs -> SUBSET Scopes] /\ Consents
    BY <1>3, <2>1, WidenFact
  <2> QED BY <1>1, <2>3, <2>4, LeaveRule
<1> QED BY <1>2, <1>3 DEF update_connected_app

LEMMA EndKeeps ==
    ASSUME AccessInv, NEW h \in Handlers, answer_revoked(h) \/ DropCall(h)
    PROVE  AccessInv'
BY LeaveRule, Reading, AccessParts DEF answer_revoked, DropCall

LEMMA ServeKeeps ==
    ASSUME AccessInv, NEW h \in Handlers, ServeAccess(h, Exists)
    PROVE  AccessInv'
BY UpsertKeeps, RereadKeeps, SaveCodeKeeps, RedeemKeeps, RefreshKeeps, RotateKeeps, IssueKeeps,
   IssueRefreshKeeps,
   StatusKeeps, RevokeKeeps, KillKeeps, EndKeeps, EditKeeps DEF ServeAccess

LEMMA ArriveKeeps ==
    ASSUME AccessInv, NEW h \in Handlers, NEW u \in Holders, ArriveAccess(h, u)
    PROVE  AccessInv'
<1>1. ASSUME NEW c \in Clients PROVE <<u, c>> \in Pairs
  BY DEF Pairs
<1>2. ASSUME NEW c \in Clients, NEW a \in SUBSET Scopes, NEW q \in SUBSET Scopes,
             approve_consent_request(h, <<u, c>>, q, a)
      PROVE  AccessInv'
  <2> DEFINE p == <<u, c>>
             s == a \cap q
             op == "approve"
  <2>1. /\ Enter(h, op, p, s, 0) /\ p \in Pairs /\ s \in SUBSET Scopes
        /\ op \in CallOps /\ op \notin Exchanging \cup {"reread", "code", "killed", "second"}
        /\ UNCHANGED <<clients, grants, saved, count, keys, consented>>
    BY <1>1, <1>2 DEF approve_consent_request, approve, CallOps, Exchanging
  <2> HIDE DEF p, s, op
  <2> QED BY <2>1, ApproveRule
<1>3. ASSUME NEW c \in Clients, NEW op \in {"pause", "resume", "revoke", "edit"},
             NEW s \in SUBSET Scopes, manage_connection(h, <<u, c>>, op, s)
      PROVE  AccessInv'
  <2> DEFINE p == <<u, c>>
  <2>1. /\ Enter(h, op, p, s, 0) /\ p \in Pairs
        /\ op \in CallOps /\ op \notin Exchanging \cup {"reread", "code", "killed", "second"}
        /\ UNCHANGED <<clients, grants, saved, count, keys, consented>>
    BY <1>1, <1>3 DEF manage_connection, CallOps, Exchanging
  <2> HIDE DEF p
  <2> QED BY <2>1, ApproveRule
<1>4. {} \in SUBSET Scopes
  OBVIOUS
<1> QED BY <1>2, <1>3, <1>4 DEF ArriveAccess

LEMMA PresentKeeps ==
    ASSUME AccessInv, NEW h \in Handlers, Present(h)
    PROVE  AccessInv'
BY TakeKeeps, RefreshPresentKeeps DEF Present

\* One of the columns a bearer or the clock spends.
LEMMA TokenKeeps ==
    ASSUME AccessInv, NEW i \in Saved, revoke_token(i) \/ ExpireSaved(i)
    PROVE  AccessInv'
<1>1. saved[i] \in SavedRow
  BY AccessParts
<1>2. UNCHANGED <<clients, grants, count, calls, keys, consented>>
  BY DEF revoke_token, ExpireSaved
<1>3. ASSUME NEW r \in SavedRow, saved' = [saved EXCEPT ![i] = r],
             r.kind = saved[i].kind, r.of = saved[i].of, r.scopes = saved[i].scopes,
             r.from = saved[i].from, r.access => saved[i].access,
             r.refresh => saved[i].refresh, r.used = saved[i].used
      PROVE  AccessInv'
  <2>1. saved' \in [Saved -> SavedRow] /\ Kept
    BY <1>2, <1>3, SpendFact
  <2>2. TypeOKAccess' /\ Consents
    BY <1>2, <2>1, AccessParts DEF TypeOKAccess, Consents
  <2> QED BY <1>2, <2>1, <2>2, StillRule
<1>4. CASE saved' = [saved EXCEPT ![i].access = FALSE]
  <2> DEFINE r == [saved[i] EXCEPT !.access = FALSE]
  <2>1. /\ r \in SavedRow /\ saved' = [saved EXCEPT ![i] = r]
        /\ r.kind = saved[i].kind /\ r.of = saved[i].of /\ r.scopes = saved[i].scopes
        /\ r.from = saved[i].from /\ ~r.access
        /\ r.refresh = saved[i].refresh /\ r.used = saved[i].used
    BY <1>1, <1>4 DEF SavedRow
  <2> HIDE DEF r
  <2> QED BY <1>3, <2>1
<1>5. CASE saved' = [saved EXCEPT ![i].refresh = FALSE]
  <2> DEFINE r == [saved[i] EXCEPT !.refresh = FALSE]
  <2>1. /\ r \in SavedRow /\ saved' = [saved EXCEPT ![i] = r]
        /\ r.kind = saved[i].kind /\ r.of = saved[i].of /\ r.scopes = saved[i].scopes
        /\ r.from = saved[i].from /\ ~r.refresh
        /\ r.access = saved[i].access /\ r.used = saved[i].used
    BY <1>1, <1>5 DEF SavedRow
  <2> HIDE DEF r
  <2> QED BY <1>3, <2>1
<1>6. CASE saved' = [saved EXCEPT ![i].expired = TRUE]
  <2> DEFINE r == [saved[i] EXCEPT !.expired = TRUE]
  <2>1. /\ r \in SavedRow /\ saved' = [saved EXCEPT ![i] = r]
        /\ r.kind = saved[i].kind /\ r.of = saved[i].of /\ r.scopes = saved[i].scopes
        /\ r.from = saved[i].from /\ r.access = saved[i].access
        /\ r.refresh = saved[i].refresh /\ r.used = saved[i].used
    BY <1>1, <1>6 DEF SavedRow
  <2> HIDE DEF r
  <2> QED BY <1>3, <2>1
<1> QED BY <1>4, <1>5, <1>6 DEF revoke_token, ExpireSaved

LEMMA RegisterKeeps ==
    ASSUME AccessInv, NEW c \in Clients, register_client(c)
    PROVE  AccessInv'
<1>1. UNCHANGED <<grants, saved, count, calls, keys, consented>>
  BY DEF register_client
<1>2. clients' \in [Clients -> (SUBSET Scopes) \cup {Unregistered}]
  BY AccessParts DEF TypeOKAccess, register_client
<1>3. TypeOKAccess'
  BY <1>1, <1>2, AccessParts DEF TypeOKAccess
<1> QED BY <1>1, <1>3, Reading, StillRule

LEMMA KeyKeeps ==
    ASSUME AccessInv, NEW u \in Holders, NEW e, create_api_key(u, e) \/ revoke_api_key(u)
    PROVE  AccessInv'
<1>1. UNCHANGED <<clients, grants, saved, count, calls, consented>>
  BY DEF create_api_key, revoke_api_key
<1>2. keys' \in [Holders -> {"none", "ACTIVE", "REVOKED"}]
  BY AccessParts DEF TypeOKAccess, create_api_key, revoke_api_key
<1>3. TypeOKAccess'
  BY <1>1, <1>2, AccessParts DEF TypeOKAccess
<1> QED BY <1>1, <1>3, Reading, StillRule

LEMMA CascadeKeeps ==
    ASSUME AccessInv, NEW u, OwnedRowDeletes(u)
    PROVE  AccessInv'
<1>1. UNCHANGED <<clients, saved, count, calls, consented>>
  BY DEF OwnedRowDeletes
<1>2. keys' \in [Holders -> {"none", "ACTIVE", "REVOKED"}]
  BY AccessParts DEF TypeOKAccess, OwnedRowDeletes
<1>3. grants' \in [Pairs -> GrantRow]
  BY AccessParts DEF OwnedRowDeletes, GrantRow
<1>4. TypeOKAccess'
  BY <1>1, <1>2, <1>3, AccessParts DEF TypeOKAccess
<1> QED BY <1>1, <1>4, Reading, StillRule

LEMMA AccessStutters ==
    ASSUME AccessInv, UNCHANGED accessVars
    PROVE  AccessInv'
<1>1. UNCHANGED <<clients, grants, saved, count, calls, keys, consented>>
  BY DEF accessVars
<1>2. TypeOKAccess'
  BY <1>1, AccessParts DEF TypeOKAccess
<1> QED BY <1>1, <1>2, Reading, StillRule

LEMMA AccessInit == Init => AccessInv
<1> SUFFICES ASSUME NEW s \in Scenarios, InitAccess(s.registered) PROVE AccessInv
  BY DEF Init
<1>1. Rested \in Call /\ Rested.op = "idle" /\ Rested.from = 0 /\ Rested.live = {} /\ Rested.of \in Pairs
  BY RestedFact
<1>2. MaxSaved \in Nat \ {0} /\ Saved = 1..MaxSaved /\ 0 \in 0..MaxSaved
  BY AccessAssumption DEF AccessAssumption, Saved
<1> DEFINE row == [kind |-> "FREE", of |-> Rested.of, scopes |-> {}, access |-> FALSE,
                   refresh |-> FALSE, used |-> FALSE, expired |-> FALSE, from |-> 0]
<1>3. row \in SavedRow /\ row.kind = "FREE" /\ row.scopes = {} /\ row.from = 0
  BY <1>1, <1>2 DEF SavedRow
<1>4. saved = [i \in Saved |-> row]
  BY DEF InitAccess
<1> HIDE DEF row
<1>5. saved \in [Saved -> SavedRow] /\ count = 0 /\ calls \in [Handlers -> Call]
      /\ \A h \in Handlers : calls[h] = Rested
  BY <1>1, <1>3, <1>4 DEF InitAccess
<1>6. TypeOKAccess
  <2>1. clients \in [Clients -> (SUBSET Scopes) \cup {Unregistered}]
    BY DEF InitAccess
  <2>2. grants \in [Pairs -> GrantRow]
    BY DEF InitAccess, GrantRow
  <2>3. keys \in [Holders -> {"none", "ACTIVE", "REVOKED"}] /\ consented \in [Pairs -> SUBSET Scopes]
    BY DEF InitAccess
  <2> QED BY <1>2, <1>5, <2>1, <2>2, <2>3 DEF TypeOKAccess, Call
<1>7. Numbered /\ ScopesConsented
  BY <1>2, <1>3, <1>4, <1>5 DEF Numbered, ScopesConsented
<1>8. \A h \in Handlers : Held(calls[h]) /\ Agreed(calls[h]) /\ Answered(calls[h])
  BY <1>1, <1>2, <1>5 DEF Held, Agreed, Answered, Exchanging
<1>9. \A i \in Saved : saved[i].kind # "CODE"
  BY <1>3, <1>4
<1>10. \A h \in Handlers : Second(h)
  BY <1>1, <1>5 DEF Second
<1> QED BY <1>6, <1>7, <1>8, <1>9, <1>10 DEF AccessInv

LEMMA AccessNext ==
    ASSUME AccessInv, [Next]_vars
    PROVE  AccessInv'
<1>1. CASE UNCHANGED accessVars
  BY <1>1, AccessStutters
<1>2. ASSUME NEW r \in Requests, AccountDeleted(r) PROVE AccessInv'
  BY <1>2, CascadeKeeps DEF AccountDeleted
<1>3. ASSUME NEW h \in Handlers, UserConnects(h) PROVE AccessInv'
  BY <1>3, ArriveKeeps DEF UserConnects
<1>4. ASSUME NEW h \in Handlers, ClientPresents(h) PROVE AccessInv'
  BY <1>4, PresentKeeps DEF ClientPresents
<1>5. ASSUME NEW h \in Handlers, AccessServed(h) PROVE AccessInv'
  BY <1>5, ServeKeeps DEF AccessServed
<1>6. ASSUME NEW h \in Handlers, HandlerDies(h) PROVE AccessInv'
  BY <1>6, EndKeeps DEF HandlerDies
<1>7. CASE UserKeys
  BY <1>7, KeyKeeps DEF UserKeys
<1>8. CASE ClientRevokes \/ AccessExpires
  BY <1>8, TokenKeeps DEF ClientRevokes, AccessExpires
<1>9. ASSUME NEW c \in Clients, ClientRegisters(c) PROVE AccessInv'
  BY <1>9, RegisterKeeps DEF ClientRegisters
<1> QED
  BY <1>1, <1>2, <1>3, <1>4, <1>5, <1>6, <1>7, <1>8, <1>9
  DEF Next, vars, AccountArrives, AccountServed, MessageLost, SignIn, SignedOut, AccountAges

LEMMA AtMostOne ==
    ASSUME NEW S, \A x, y \in S : x = y
    PROVE  Cardinality(S) <= 1
<1>1. CASE S = {}
  BY <1>1, FS_EmptySet
<1>2. CASE S # {}
  <2>1. PICK x \in S : TRUE
    BY <1>2
  <2>2. S = {x}
    BY <2>1
  <2>3. Cardinality({x}) = 1
    BY FS_Singleton
  <2> QED BY <2>2, <2>3
<1> QED BY <1>1, <1>2

(* An application gets one pair of tokens for a code however many requests *)
(* redeem it at once, and no token ever holds a scope its user did not     *)
(* agree to, through any chain of approvals, edits, exchanges and          *)
(* refreshes (take_code, exchange_code, exchange_refresh), for any number  *)
(* of users, clients, scopes and handlers.                                 *)
THEOREM ConsentHonouredTheorem == Spec => []ConsentHonoured
<1>1. AccessInv => ConsentHonoured
  <2> SUFFICES ASSUME AccessInv PROVE ConsentHonoured
    OBVIOUS
  <2>1. ASSUME NEW i \in Saved, saved[i].kind = "CODE"
        PROVE  Cardinality({j \in Saved : saved[j].kind = "PAIR" /\ saved[j].from = i}) <= 1
    <3> DEFINE S == {j \in Saved : saved[j].kind = "PAIR" /\ saved[j].from = i}
    <3>1. Redeemed(i)
      BY <2>1 DEF AccessInv
    <3>2. \A x, y \in S : x = y
      BY <3>1 DEF Redeemed, PairOf
    <3> HIDE DEF S
    <3>3. Cardinality(S) <= 1
      BY <3>2, AtMostOne
    <3> QED BY <3>3 DEF S
  <2> QED BY <2>1, AccessParts DEF ConsentHonoured, RedeemedOnce
<1>2. AccessInv /\ [Next]_vars => AccessInv'
  BY AccessNext
<1> QED BY AccessInit, <1>1, <1>2, PTL DEF Spec

------------------------------------------------------------------------------
(* Accounts: what a step writes to the row of a user *)

Fields == {"pw", "verified", "vtok", "vsent", "rtok", "rsent", "phone", "phoneOk",
           "code", "csent", "tries", "profile", "avatar", "gone"}

Request == [op : Ops, user : Users, row : UserRow, arg : 0..MaxIds,
            number : Numbers \cup {NoNumber}]

LEMMA FlushFact ==
    ASSUME NEW s \in UserRow, NEW l \in UserRow, NEW f \in UserRow
    PROVE  /\ Flush(s, l, f) \in UserRow
           /\ \A c \in Fields : Flush(s, l, f)[c] = IF f[c] # l[c] THEN f[c] ELSE s[c]
<1>1. DOMAIN s = Fields
  BY DEF UserRow, Fields
<1>2. \A c \in Fields : Flush(s, l, f)[c] = IF f[c] # l[c] THEN f[c] ELSE s[c]
  BY <1>1 DEF Flush
<1>3. Flush(s, l, f) = [c \in Fields |-> IF f[c] # l[c] THEN f[c] ELSE s[c]]
  BY <1>1 DEF Flush
<1>4. Flush(s, l, f) \in UserRow
  BY <1>3 DEF UserRow, Fields
<1> QED BY <1>2, <1>4

LEMMA IdleFact ==
    /\ NoRow \in UserRow /\ Idle \in Request
    /\ Idle.op = "idle" /\ Idle.row = NoRow /\ Idle.arg = 0
<1>1. NoRow \in UserRow /\ 0 \in 0..MaxIds
  BY AccountAssumption DEF AccountAssumption, NoRow, UserRow
<1>2. (CHOOSE u \in Users : TRUE) \in Users
  BY AccountAssumption DEF AccountAssumption
<1> DEFINE w == CHOOSE u \in Users : TRUE
<1>3. w \in Users /\ Idle = [op |-> "idle", user |-> w, row |-> NoRow, arg |-> 0, number |-> NoNumber]
  BY <1>2 DEF Idle
<1> HIDE DEF w
<1> QED BY <1>1, <1>3 DEF Request, Ops

LEMMA AccountParts ==
    ASSUME TypeOKAccount
    PROVE  /\ users \in [Users -> UserRow] /\ reqs \in [Requests -> Request]
           /\ spent \in [Ids -> Nat] /\ guesses \in [Ids -> Nat] /\ age \in [Ids -> 0..2]
           /\ ids \in 0..MaxIds /\ ids \in Nat /\ MaxIds \in Nat \ {0, 1} /\ Ids = 1..MaxIds
BY AccountAssumption DEF TypeOKAccount, AccountAssumption, Request, Ids

\* Only the row of u is written.
OneRow(u) == \A v \in Users : v # u => users'[v] = users[v]

OneRequest(r) == \A q \in Requests : q # r => reqs'[q] = reqs[q]

\* The row of u after a commit of f over the loaded copy.
LEMMA CommitRowFact ==
    ASSUME TypeOKAccount, NEW r \in Requests, NEW f \in UserRow, CommitRow(r, f)
    PROVE  /\ users' \in [Users -> UserRow] /\ OneRow(reqs[r].user)
           /\ ~Exists(reqs[r].user) => users' = users
           /\ Exists(reqs[r].user) =>
                \A c \in Fields : users'[reqs[r].user][c] =
                    IF f[c] # reqs[r].row[c] THEN f[c] ELSE users[reqs[r].user][c]
<1> DEFINE u == reqs[r].user
           l == reqs[r].row
<1>1. u \in Users /\ l \in UserRow /\ users[u] \in UserRow
  BY AccountParts DEF Request
<1>2. Flush(users[u], l, f) \in UserRow
  BY <1>1, FlushFact
<1>3. CASE ~Exists(u)
  BY <1>3, AccountParts DEF CommitRow, OneRow
<1>4. CASE Exists(u)
  <2>1. users' = [users EXCEPT ![u] = Flush(users[u], l, f)]
    BY <1>4 DEF CommitRow
  <2>2. users'[u] = Flush(users[u], l, f)
    BY <1>1, <2>1, AccountParts
  <2> QED BY <1>1, <1>2, <1>4, <2>1, <2>2, FlushFact, AccountParts DEF OneRow
<1> QED BY <1>3, <1>4

LEMMA AnswerFact ==
    ASSUME TypeOKAccount, NEW r \in Requests, Answer(r)
    PROVE  reqs' \in [Requests -> Request] /\ OneRequest(r) /\ reqs'[r] = Idle
BY AccountParts, IdleFact DEF Answer, OneRequest

LEMMA LoadFact ==
    ASSUME TypeOKAccount, NEW r \in Requests, NEW op \in Ops, NEW u \in Users,
           NEW arg \in 0..MaxIds, NEW number \in Numbers \cup {NoNumber},
           Load(r, op, u, arg, number)
    PROVE  /\ reqs' \in [Requests -> Request] /\ OneRequest(r) /\ reqs[r].op = "idle"
           /\ reqs'[r] = [op |-> op, user |-> u, row |-> users[u], arg |-> arg, number |-> number]
<1> DEFINE q == [op |-> op, user |-> u, row |-> users[u], arg |-> arg, number |-> number]
<1>1. q \in Request
  BY AccountParts DEF Request
<1>2. reqs' = [reqs EXCEPT ![r] = q] /\ reqs[r].op = "idle"
  BY DEF Load
<1> HIDE DEF q
<1>3. reqs' \in [Requests -> Request] /\ OneRequest(r) /\ reqs'[r] = q
  BY <1>1, <1>2, AccountParts DEF OneRequest
<1> QED BY <1>2, <1>3 DEF q

LEMMA ThenFact ==
    ASSUME TypeOKAccount, NEW r \in Requests, NEW f \in UserRow, NEW op \in Ops,
           NEW arg \in 0..MaxIds, CommitThen(r, f, op, arg)
    PROVE  /\ CommitRow(r, f) /\ reqs' \in [Requests -> Request] /\ OneRequest(r)
           /\ ~Exists(reqs[r].user) => reqs'[r] = Idle
           /\ Exists(reqs[r].user) => /\ reqs'[r].op = op /\ reqs'[r].user = reqs[r].user
                                      /\ reqs'[r].row = f /\ reqs'[r].arg = arg
<1> DEFINE q == [reqs[r] EXCEPT !.op = op, !.arg = arg, !.row = f]
<1>1. reqs[r] \in Request
  BY AccountParts
<1>2. /\ q \in Request /\ q.op = op /\ q.user = reqs[r].user /\ q.row = f /\ q.arg = arg
  BY <1>1 DEF Request
<1>3. reqs' = [reqs EXCEPT ![r] = IF Exists(reqs[r].user) THEN q ELSE Idle] /\ CommitRow(r, f)
  BY DEF CommitThen
<1> HIDE DEF q
<1> QED BY <1>2, <1>3, AccountParts, IdleFact DEF OneRequest

\* The columns that hold a link or a code: a value is stored in one place, was
\* drawn, and has not been accepted.
Cols == {"vtok", "rtok", "code"}
Stored ==
    \A u \in Users, c \in Cols :
        users[u][c] <= ids /\ (users[u][c] # 0 => spent[users[u][c]] = 0)
Unique ==
    \A u, v \in Users, c, d \in Cols :
        users[u][c] = users[v][d] /\ users[u][c] # 0 => u = v /\ c = d
Undrawn == \A i \in Ids : i > ids => spent[i] = 0 /\ guesses[i] = 0

\* A request sends a drawn link, follows a mailed one, and its copy of the row
\* holds no code of another account.
Proper(q) ==
    /\ q.op \in Sends => q.arg # 0
    /\ q.op \in {"verify", "reset"} =>
         \E m \in mailed : m.user = q.user /\ m.id = q.arg /\ m.to = NoNumber
    /\ q.row.code <= ids
    /\ \A v \in Users : q.row.code # 0 /\ q.row.code = users[v].code => q.user = v

\* The stored counter counts every guess at the stored code; what is still in
\* flight was loaded below the limit.
Counted == \A u \in Users : users[u].code # 0 => guesses[users[u].code] <= users[u].tries
Pending(i) == {r \in Requests : /\ reqs[r].op = "phone_verify" /\ reqs[r].row.code = i
                                /\ ~attempts_exhausted(reqs[r].row.tries)}
Bounded == \A i \in Ids : guesses[i] + Cardinality(Pending(i)) <= MaxAttempts - 1 + Cardinality(Requests)

\* There is no code where there is no account.
Vacant == \A u \in Users : ~Exists(u) => users[u].code = 0

AccountInv ==
    /\ TypeOKAccount /\ Vacant /\ Stored /\ Unique /\ Undrawn /\ AcceptedOnce /\ AddressProven
    /\ \A r \in Requests : Proper(reqs[r])
    /\ Counted /\ Bounded

\* What a step may write to the row of u and accept from it.
Writes(u) ==
    /\ OneRow(u) /\ ids' \in {ids, ids + 1}
    /\ \A c \in Cols : \/ users'[u][c] = users[u][c]
                       \/ users'[u][c] = 0
                       \/ users'[u][c] = ids + 1 /\ ids' = ids + 1
    /\ \A c, d \in Cols : users'[u][c] = ids + 1 /\ users'[u][d] = ids + 1 => c = d
Accepts(u) ==
    \A i \in Ids : \/ spent'[i] = spent[i]
                   \/ /\ spent'[i] = spent[i] + 1
                      /\ \E c \in Cols : users[u][c] = i /\ users'[u][c] = 0

LEMMA ColumnFact ==
    ASSUME TypeOKAccount, NEW u \in Users, NEW c \in Cols
    PROVE  users[u][c] \in Nat /\ (users[u][c] # 0 => users[u][c] \in Ids)
BY AccountParts DEF Cols, UserRow

LEMMA TokenRule ==
    ASSUME AccountInv, TypeOKAccount', NEW u \in Users, Writes(u), Accepts(u)
    PROVE  /\ Stored' /\ Unique' /\ AcceptedOnce'
           /\ \A i \in Ids : i > ids' => spent'[i] = 0
           /\ \A i \in Ids : spent[i] <= spent'[i]
<1>1. /\ TypeOKAccount /\ Stored /\ Unique /\ Undrawn /\ AcceptedOnce
      /\ ids \in Nat /\ ids' \in Nat /\ ids <= ids' /\ Ids = 1..MaxIds
      /\ spent \in [Ids -> Nat] /\ spent' \in [Ids -> Nat] /\ MaxIds \in Nat
  BY AccountParts DEF AccountInv, Writes, TypeOKAccount
<1>2. \A v \in Users, c \in Cols : /\ users[v][c] \in Nat /\ (users[v][c] # 0 => users[v][c] \in Ids)
  BY <1>1, ColumnFact
<1>3. \A v \in Users, c \in Cols : \/ users'[v][c] = users[v][c] \/ users'[v][c] = 0
                                   \/ users'[v][c] = ids + 1 /\ ids' = ids + 1 /\ v = u
  BY DEF Writes, OneRow
<1>4. \A i \in Ids : i > ids => spent'[i] = 0
  <2> SUFFICES ASSUME NEW i \in Ids, i > ids PROVE spent'[i] = 0
    OBVIOUS
  <2>1. \A c \in Cols : users[u][c] # i
    BY <1>1, <1>2 DEF Stored
  <2> QED BY <1>1, <2>1 DEF Undrawn, Accepts
<1>5. \A v \in Users, c \in Cols : users'[v][c] <= ids'
  BY <1>1, <1>2, <1>3 DEF Stored
<1>6. ASSUME NEW v \in Users, NEW c \in Cols, users'[v][c] # 0
      PROVE  spent'[users'[v][c]] = 0
  <2>1. CASE users'[v][c] = users[v][c]
    <3> DEFINE i == users[v][c]
    <3>1. i \in Ids /\ spent[i] = 0
      BY <1>1, <1>2, <1>6, <2>1 DEF Stored
    <3>2. \A d \in Cols : ~(users[u][d] = i /\ users'[u][d] = 0)
      BY <1>1, <1>6, <2>1 DEF Unique
    <3> QED BY <2>1, <3>1, <3>2 DEF Accepts
  <2>2. CASE users'[v][c] = ids + 1 /\ ids' = ids + 1
    <3>1. ids + 1 \in Ids
      BY <1>1, <2>2 DEF TypeOKAccount
    <3> QED BY <1>1, <1>4, <2>2, <3>1
  <2> QED BY <1>3, <1>6, <2>1, <2>2
<1>7. Unique'
  <2> SUFFICES ASSUME NEW v \in Users, NEW w \in Users, NEW c \in Cols, NEW d \in Cols,
                      users'[v][c] = users'[w][d], users'[v][c] # 0
               PROVE  v = w /\ c = d
    BY DEF Unique
  <2>1. CASE users'[v][c] = users[v][c] /\ users'[w][d] = users[w][d]
    <3>1. Unique /\ users[v][c] = users[w][d] /\ users[v][c] # 0
      BY <1>1, <2>1
    <3> QED BY <3>1 DEF Unique
  <2>2. CASE users'[v][c] = ids + 1 /\ v = u
    <3>1. users[w][d] # ids + 1
      BY <1>1, <1>2 DEF Stored
    <3>2. w = u
      BY <1>3, <2>2, <3>1
    <3> QED BY <2>2, <3>2 DEF Writes
  <2>3. CASE users'[w][d] = ids + 1 /\ w = u
    <3>1. users[v][c] # ids + 1
      BY <1>1, <1>2 DEF Stored
    <3>2. v = u
      BY <1>3, <2>3, <3>1
    <3> QED BY <2>3, <3>2 DEF Writes
  <2> QED BY <1>3, <2>1, <2>2, <2>3
<1>8. AcceptedOnce'
  <2> SUFFICES ASSUME NEW i \in Ids PROVE spent'[i] <= 1
    BY DEF AcceptedOnce
  <2>1. CASE spent'[i] = spent[i]
    BY <1>1, <2>1 DEF AcceptedOnce
  <2>2. CASE spent'[i] = spent[i] + 1 /\ \E c \in Cols : users[u][c] = i
    <3>1. PICK c \in Cols : users[u][c] = i
      BY <2>2
    <3>2. i # 0
      BY <1>1
    <3>3. spent[i] = 0
      BY <1>1, <3>1, <3>2 DEF Stored
    <3> QED BY <2>2, <3>3
  <2> QED BY <2>1, <2>2 DEF Accepts
<1>9. ASSUME NEW i \in Ids PROVE spent[i] <= spent'[i]
  <2>1. spent'[i] = spent[i] \/ spent'[i] = spent[i] + 1
    BY DEF Accepts
  <2>2. spent[i] \in Nat
    BY <1>1
  <2> QED BY <2>1, <2>2
<1> QED BY <1>1, <1>4, <1>5, <1>6, <1>7, <1>8, <1>9 DEF Stored

\* The requests other than r keep what they have.
LEMMA ProperRule ==
    ASSUME AccountInv, NEW u \in Users, Writes(u), mailed \subseteq mailed',
           NEW r \in Requests, OneRequest(r), Proper(reqs[r])'
    PROVE  \A q \in Requests : Proper(reqs[q])'
<1> SUFFICES ASSUME NEW q \in Requests, q # r PROVE Proper(reqs[q])'
  OBVIOUS
<1>1. reqs'[q] = reqs[q] /\ Proper(reqs[q]) /\ reqs[q] \in Request /\ TypeOKAccount /\ ids \in Nat
  BY AccountParts DEF OneRequest, AccountInv
<1>2. reqs[q].row.code \in Nat /\ reqs[q].row.code <= ids /\ reqs[q].row.code <= ids'
  BY <1>1 DEF Proper, Writes, Request, UserRow
<1>3. ASSUME NEW v \in Users, reqs[q].row.code # 0, reqs[q].row.code = users'[v].code
      PROVE  reqs[q].user = v
  <2>1. "code" \in Cols
    BY DEF Cols
  <2>2. \/ users'[v].code = users[v].code \/ users'[v].code = 0 \/ users'[v].code = ids + 1
    BY <2>1 DEF Writes, OneRow
  <2> QED BY <1>1, <1>2, <1>3, <2>2 DEF Proper
<1> QED BY <1>1, <1>2, <1>3 DEF Proper

\* An address becomes verified by a link that is accepted in this step.
Proven(u) ==
    users'[u].verified => \/ users[u].verified
                          \/ \E m \in mailed' : m.user = u /\ m.to = NoNumber /\ spent'[m.id] > 0

Vacated(u) == users'[u].pw = 0 => users'[u].code = 0

\* No account disappears.
Lives == \A v \in Users : Exists(v) => Exists(v)'

LEMMA AccountRule ==
    ASSUME AccountInv, TypeOKAccount', NEW u \in Users, Writes(u), Accepts(u),
           mailed \subseteq mailed', NEW r \in Requests, OneRequest(r), Proper(reqs[r])',
           Proven(u), Vacated(u), Counted', Bounded', \A i \in Ids : i > ids' => guesses'[i] = 0
    PROVE  AccountInv'
<1>1. /\ Stored' /\ Unique' /\ AcceptedOnce'
      /\ \A i \in Ids : i > ids' => spent'[i] = 0
      /\ \A i \in Ids : spent[i] <= spent'[i]
  BY TokenRule
<1>2. \A q \in Requests : Proper(reqs[q])'
  BY ProperRule
<1>3. AddressProven'
  <2> SUFFICES ASSUME NEW v \in Users, users'[v].verified
               PROVE  \E m \in mailed' : m.user = v /\ m.to = NoNumber /\ spent'[m.id] > 0
    BY DEF AddressProven
  <2>1. CASE users[v].verified
    <3>1. PICK m \in mailed : m.user = v /\ m.to = NoNumber /\ spent[m.id] > 0
      BY <2>1 DEF AccountInv, AddressProven
    <3>2. m.id \in Ids /\ m \in mailed'
      BY DEF AccountInv, TypeOKAccount
    <3>3. spent[m.id] <= spent'[m.id] /\ spent[m.id] \in Nat /\ spent'[m.id] \in Nat
      BY <1>1, <3>2 DEF AccountInv, TypeOKAccount
    <3> QED BY <3>1, <3>2, <3>3
  <2>2. CASE ~users[v].verified
    <3>1. v = u
      BY <2>2 DEF Writes, OneRow
    <3> QED BY <2>2, <3>1 DEF Proven
  <2> QED BY <2>1, <2>2
<1>4. Vacant'
  BY DEF Vacant, Vacated, Writes, OneRow, AccountInv, Exists
<1> QED BY <1>1, <1>2, <1>3, <1>4 DEF AccountInv, Undrawn

LEMMA Requests_ ==
    IsFiniteSet(Requests) /\ Cardinality(Requests) \in Nat /\ MaxAttempts \in Nat \ {0}
BY AccountAssumption, FS_CardinalityType DEF AccountAssumption

\* No guess is made, and no guess begins.
LEMMA QuietRule ==
    ASSUME AccountInv, TypeOKAccount', NEW u \in Users, Writes(u),
           NEW r \in Requests, OneRequest(r), reqs'[r].op # "phone_verify", guesses' = guesses,
           users'[u].code = users[u].code /\ users[u].code # 0 => users'[u].tries = users[u].tries
    PROVE  Counted' /\ Bounded' /\ \A i \in Ids : i > ids' => guesses'[i] = 0
<1>1. TypeOKAccount /\ Undrawn /\ Counted /\ Bounded /\ ids \in Nat /\ ids' \in Nat /\ ids <= ids'
      /\ guesses \in [Ids -> Nat] /\ Ids = 1..MaxIds /\ MaxIds \in Nat
  BY AccountParts DEF AccountInv, Writes
<1>2. \A i \in Ids : i > ids' => guesses'[i] = 0
  BY <1>1 DEF Undrawn
<1>3. Counted'
  <2> SUFFICES ASSUME NEW v \in Users, users'[v].code # 0
               PROVE  guesses[users'[v].code] <= users'[v].tries
    BY DEF Counted
  <2>1. CASE v # u
    BY <1>1, <2>1 DEF Writes, OneRow, Counted
  <2>2. CASE v = u /\ users'[u].code = users[u].code
    BY <1>1, <2>2 DEF Counted
  <2>3. CASE v = u /\ users'[u].code = ids + 1 /\ ids' = ids + 1
    <3>1. ids + 1 \in Ids /\ users'[u].tries \in Nat
      BY <1>1, <2>3 DEF TypeOKAccount, UserRow
    <3>2. guesses[ids + 1] = 0
      BY <1>1, <3>1 DEF Undrawn
    <3> QED BY <2>3, <3>1, <3>2
  <2>4. "code" \in Cols
    BY DEF Cols
  <2> QED BY <2>1, <2>2, <2>3, <2>4 DEF Writes
<1>4. ASSUME NEW i \in Ids
      PROVE  guesses'[i] + Cardinality(Pending(i)') <= MaxAttempts - 1 + Cardinality(Requests)
  <2>1. Pending(i)' \subseteq Pending(i) /\ Pending(i) \subseteq Requests
    BY DEF Pending, OneRequest, attempts_exhausted
  <2>2. IsFiniteSet(Pending(i))
    BY <2>1, Requests_, FS_Subset
  <2>3. /\ Cardinality(Pending(i)') <= Cardinality(Pending(i))
        /\ Cardinality(Pending(i)) \in Nat /\ Cardinality(Pending(i)') \in Nat
    BY <2>1, <2>2, FS_Subset, FS_CardinalityType
  <2>4. guesses[i] \in Nat /\ guesses'[i] = guesses[i]
        /\ guesses[i] + Cardinality(Pending(i)) <= MaxAttempts - 1 + Cardinality(Requests)
    BY <1>1 DEF Bounded
  <2> QED BY <2>3, <2>4, Requests_
<1> QED BY <1>2, <1>3, <1>4 DEF Bounded

\* What the commit of the changes f of the loaded row writes.
LEMMA CommitWrites ==
    ASSUME AccountInv, NEW r \in Requests, NEW f \in UserRow, CommitRow(r, f),
           ids' \in {ids, ids + 1},
           \A c \in Cols : f[c] # reqs[r].row[c] => f[c] = 0 \/ (f[c] = ids + 1 /\ ids' = ids + 1),
           \A c, d \in Cols : f[c] # reqs[r].row[c] /\ f[d] # reqs[r].row[d] /\ f[c] = ids + 1 /\ f[d] = ids + 1
                              => c = d,
           f.verified = reqs[r].row.verified, f.pw = reqs[r].row.pw \/ f.pw # 0
    PROVE  /\ users' \in [Users -> UserRow] /\ Writes(reqs[r].user) /\ Proven(reqs[r].user)
           /\ Vacated(reqs[r].user) /\ Lives
<1> DEFINE u == reqs[r].user
           l == reqs[r].row
<1>1. /\ TypeOKAccount /\ Stored /\ ids \in Nat /\ u \in Users /\ l \in UserRow
  <2>1. TypeOKAccount /\ Stored
    BY DEF AccountInv
  <2>2. reqs[r] \in Request /\ ids \in Nat
    BY <2>1, AccountParts
  <2> QED BY <2>1, <2>2 DEF Request
<1>2. /\ users' \in [Users -> UserRow] /\ OneRow(u)
      /\ ~Exists(u) => users' = users
      /\ Exists(u) => \A c \in Fields : users'[u][c] = IF f[c] # l[c] THEN f[c] ELSE users[u][c]
  BY <1>1, CommitRowFact
<1>3. Cols \subseteq Fields /\ {"verified", "pw"} \subseteq Fields
  BY DEF Cols, Fields
<1>4. \A c \in Cols : users[u][c] \in Nat /\ users[u][c] <= ids
  BY <1>1, ColumnFact DEF Stored
<1>5. Writes(u)
  <2>1. CASE ~Exists(u)
    BY <1>1, <1>2, <1>4, <2>1 DEF Writes
  <2>2. CASE Exists(u)
    <3>1. \A c \in Cols : users'[u][c] = IF f[c] # l[c] THEN f[c] ELSE users[u][c]
      BY <1>2, <1>3, <2>2
    <3>2. \A c \in Cols : users'[u][c] = ids + 1 => f[c] = ids + 1 /\ f[c] # l[c]
      BY <1>1, <1>4, <3>1
    <3>3. \A c \in Cols : \/ users'[u][c] = users[u][c] \/ users'[u][c] = 0
                          \/ users'[u][c] = ids + 1 /\ ids' = ids + 1
      BY <3>1
    <3> QED BY <1>2, <3>2, <3>3 DEF Writes
  <2> QED BY <2>1, <2>2
<1>6. Proven(u) /\ Lives
  <2>1. CASE ~Exists(u)
    BY <1>2, <2>1 DEF Proven, Lives, Exists
  <2>2. CASE Exists(u)
    <3>1. users'[u].verified = users[u].verified /\ (users'[u].pw = users[u].pw \/ users'[u].pw # 0)
      BY <1>2, <1>3, <2>2
    <3> QED BY <1>2, <2>2, <3>1 DEF Proven, Lives, Exists, OneRow
  <2> QED BY <2>1, <2>2
<1>7. Vacated(u)
  <2>1. CASE ~Exists(u)
    BY <1>1, <1>2, <2>1 DEF Vacated, AccountInv, Vacant, Exists
  <2>2. CASE Exists(u)
    BY <1>1, <1>6, <2>2 DEF Vacated, Lives, Exists
  <2> QED BY <2>1, <2>2
<1> QED BY <1>2, <1>5, <1>6, <1>7

\* A handler commits its changes f of the loaded row, and guesses nothing.
LEMMA CommitRule ==
    ASSUME AccountInv, NEW r \in Requests, NEW f \in UserRow, CommitRow(r, f),
           UNCHANGED <<spent, guesses, age, signedIn>>,
           mailed \subseteq mailed', mailed' \subseteq [user : Users, id : Ids, to : Numbers \cup {NoNumber}],
           ids' \in {ids, ids + 1}, ids' \in 0..MaxIds,
           reqs' \in [Requests -> Request], OneRequest(r), reqs'[r].op # "phone_verify",
           Proper(reqs[r])',
           \A c \in Cols : f[c] # reqs[r].row[c] => f[c] = 0 \/ (f[c] = ids + 1 /\ ids' = ids + 1),
           \A c, d \in Cols : f[c] # reqs[r].row[c] /\ f[d] # reqs[r].row[d] /\ f[c] = ids + 1 /\ f[d] = ids + 1
                              => c = d,
           f.verified = reqs[r].row.verified, f.pw = reqs[r].row.pw \/ f.pw # 0,
           \/ f.code = reqs[r].row.code /\ f.tries = reqs[r].row.tries
           \/ f.code = ids + 1
    PROVE  AccountInv' /\ Lives
<1> DEFINE u == reqs[r].user
           l == reqs[r].row
<1>1. /\ TypeOKAccount /\ Stored /\ Proper(reqs[r]) /\ ids \in Nat /\ u \in Users
      /\ l \in UserRow /\ l.code <= ids /\ l.code \in Nat
  <2>1. TypeOKAccount /\ Stored /\ Proper(reqs[r])
    BY DEF AccountInv
  <2>2. reqs[r] \in Request /\ ids \in Nat
    BY <2>1, AccountParts
  <2>3. u \in Users /\ l \in UserRow
    BY <2>2 DEF Request
  <2>4. l.code \in Nat
    BY <2>3, AccountAssumption DEF UserRow, AccountAssumption
  <2> QED BY <2>1, <2>2, <2>3, <2>4 DEF Proper
<1>2. /\ ~Exists(u) => users' = users
      /\ Exists(u) => \A c \in Fields : users'[u][c] = IF f[c] # l[c] THEN f[c] ELSE users[u][c]
  BY <1>1, CommitRowFact
<1>3. {"code", "tries"} \subseteq Fields /\ "code" \in Cols
  BY DEF Cols, Fields
<1>4. /\ users' \in [Users -> UserRow] /\ Writes(u) /\ Proven(u) /\ Vacated(u) /\ Lives
  BY CommitWrites
<1>5. TypeOKAccount'
  BY <1>1, <1>4 DEF TypeOKAccount, Request
<1>6. Accepts(u)
  BY DEF Accepts
<1>7. users'[u].code = users[u].code /\ users[u].code # 0 => users'[u].tries = users[u].tries
  <2>1. CASE ~Exists(u)
    BY <1>2, <2>1
  <2>2. CASE Exists(u) /\ f.code = l.code /\ f.tries = l.tries
    BY <1>2, <1>3, <2>2
  <2>3. CASE Exists(u) /\ f.code = ids + 1
    <3>1. f.code # l.code
      BY <1>1, <2>3
    <3>2. users'[u].code = ids + 1
      BY <1>2, <1>3, <2>3, <3>1
    <3>3. users[u].code \in Nat /\ users[u].code <= ids
      BY <1>1, <1>3, ColumnFact DEF Stored
    <3> QED BY <1>1, <3>2, <3>3
  <2> QED BY <2>1, <2>2, <2>3
<1> HIDE DEF u
<1>8. Counted' /\ Bounded' /\ \A i \in Ids : i > ids' => guesses'[i] = 0
  <2>1. u \in Users
    BY <1>1
  <2> QED BY <1>4, <1>5, <1>7, <2>1, QuietRule
<1>9. AccountInv'
  BY <1>1, <1>4, <1>5, <1>6, <1>8, AccountRule
<1> QED BY <1>4, <1>9

\* The commit of a handler that then answers.
LEMMA AnswerRule ==
    ASSUME AccountInv, NEW r \in Requests, NEW f \in UserRow, CommitRow(r, f), Answer(r),
           UNCHANGED <<spent, guesses, age, signedIn>>,
           mailed \subseteq mailed', mailed' \subseteq [user : Users, id : Ids, to : Numbers \cup {NoNumber}],
           ids' \in {ids, ids + 1}, ids' \in 0..MaxIds,
           \A c \in Cols : f[c] # reqs[r].row[c] => f[c] = 0,
           f.verified = reqs[r].row.verified, f.pw = reqs[r].row.pw \/ f.pw # 0,
           f.code = reqs[r].row.code /\ f.tries = reqs[r].row.tries
    PROVE  AccountInv' /\ Lives
<1>1. TypeOKAccount /\ ids \in Nat
  BY AccountParts DEF AccountInv
<1>2. reqs' \in [Requests -> Request] /\ OneRequest(r) /\ reqs'[r] = Idle
  BY <1>1, AnswerFact
<1>3. Idle.op \notin Sends \cup {"verify", "reset", "phone_verify"} /\ Idle.row.code = 0
  BY IdleFact DEF Sends, NoRow
<1>4. Proper(reqs[r])' /\ reqs'[r].op # "phone_verify"
  BY <1>1, <1>2, <1>3 DEF Proper
<1>5. \A c, d \in Cols : f[c] # reqs[r].row[c] /\ f[d] # reqs[r].row[d] /\ f[c] = ids + 1 /\ f[d] = ids + 1
                         => c = d
  <2>1. ids + 1 # 0
    BY <1>1
  <2>2. \A c \in Cols : f[c] # reqs[r].row[c] => f[c] # ids + 1
    BY <2>1
  <2> QED BY <2>2
<1> QED BY <1>2, <1>4, <1>5, CommitRule

\* A handler that answers and changes no row.
LEMMA NoneRule ==
    ASSUME AccountInv, NEW r \in Requests, UNCHANGED <<users, spent, guesses, age, signedIn, mailed>>,
           ids' \in {ids, ids + 1}, ids' \in 0..MaxIds,
           reqs' \in [Requests -> Request], OneRequest(r), reqs'[r].op # "phone_verify",
           Proper(reqs[r])'
    PROVE  AccountInv' /\ Lives
<1>1. TypeOKAccount /\ ids \in Nat /\ Stored /\ Unique
  BY AccountParts DEF AccountInv
<1>2. TypeOKAccount'
  BY <1>1 DEF TypeOKAccount, Request
<1>3. PICK u \in Users : TRUE
  BY AccountAssumption DEF AccountAssumption
<1>4. \A c \in Cols : users[u][c] \in Nat /\ users[u][c] <= ids
  BY <1>1, ColumnFact DEF Stored
<1>5. Writes(u) /\ Accepts(u) /\ Proven(u) /\ Vacated(u) /\ Lives
  BY <1>1, <1>4 DEF Writes, Accepts, Proven, Vacated, Lives, OneRow, Exists, AccountInv, Vacant
<1>6. Counted' /\ Bounded' /\ \A i \in Ids : i > ids' => guesses'[i] = 0
  BY <1>2, <1>5, QuietRule
<1> QED BY <1>2, <1>5, <1>6, AccountRule

LEMMA IdleProper ==
    ASSUME AccountInv, NEW r \in Requests, reqs'[r] = Idle, ids' \in {ids, ids + 1}
    PROVE  Proper(reqs[r])' /\ reqs'[r].op # "phone_verify"
<1>1. TypeOKAccount /\ ids \in Nat
  BY AccountParts DEF AccountInv
<1>2. Idle.op \notin Sends \cup {"verify", "reset", "phone_verify"} /\ Idle.row.code = 0
  BY IdleFact DEF Sends, NoRow
<1> QED BY <1>1, <1>2 DEF Proper

LEMMA AnswerOnly ==
    ASSUME AccountInv, NEW r \in Requests, Answer(r),
           UNCHANGED <<users, spent, guesses, age, signedIn, mailed>>, ids' = ids
    PROVE  AccountInv' /\ Lives
<1>1. TypeOKAccount /\ ids' \in {ids, ids + 1} /\ ids' \in 0..MaxIds
  BY AccountParts DEF AccountInv
<1>2. reqs' \in [Requests -> Request] /\ OneRequest(r) /\ reqs'[r] = Idle
  BY <1>1, AnswerFact
<1>3. Proper(reqs[r])' /\ reqs'[r].op # "phone_verify"
  BY <1>1, <1>2, IdleProper
<1> QED BY <1>1, <1>2, <1>3, NoneRule

LEMMA ReqFact ==
    ASSUME AccountInv, NEW r \in Requests
    PROVE  /\ TypeOKAccount /\ reqs[r] \in Request /\ reqs[r].user \in Users /\ reqs[r].row \in UserRow
           /\ reqs[r].arg \in 0..MaxIds /\ reqs[r].row.phone \in Numbers \cup {NoNumber}
           /\ Proper(reqs[r]) /\ ids \in Nat
           /\ reqs[r].op \in Ops /\ mailed \subseteq [user : Users, id : Ids, to : Numbers \cup {NoNumber}]
<1>1. TypeOKAccount /\ Proper(reqs[r])
  BY DEF AccountInv
<1>2. reqs[r] \in Request /\ ids \in Nat
  BY <1>1, AccountParts
<1>3. reqs[r].user \in Users /\ reqs[r].row \in UserRow /\ reqs[r].arg \in 0..MaxIds /\ reqs[r].op \in Ops
  BY <1>2 DEF Request
<1>4. reqs[r].row.phone \in Numbers \cup {NoNumber}
  BY <1>3 DEF UserRow
<1> QED BY <1>1, <1>2, <1>3, <1>4 DEF TypeOKAccount

\* A new link is committed, then mailed.
LEMMA MintRule ==
    ASSUME AccountInv, NEW r \in Requests, Draw, NEW f \in UserRow, NEW op \in Sends,
           CommitThen(r, f, op, ids'), UNCHANGED <<spent, guesses, age, signedIn, mailed>>,
           NEW k \in Cols, f[k] = ids',
           \A c \in Cols \ {k} : f[c] = reqs[r].row[c],
           f.verified = reqs[r].row.verified, f.pw = reqs[r].row.pw,
           k # "code" => f.tries = reqs[r].row.tries
    PROVE  AccountInv' /\ Lives
<1> DEFINE u == reqs[r].user
           l == reqs[r].row
<1>1. /\ TypeOKAccount /\ ids \in Nat /\ ids' = ids + 1 /\ ids' \in 0..MaxIds /\ ids' # 0
      /\ u \in Users /\ l \in UserRow /\ op \in Ops
  BY ReqFact, AccountParts DEF Draw, Ops
<1>2. /\ CommitRow(r, f) /\ reqs' \in [Requests -> Request] /\ OneRequest(r)
      /\ ~Exists(u) => reqs'[r] = Idle
      /\ Exists(u) => /\ reqs'[r].op = op /\ reqs'[r].user = u
                      /\ reqs'[r].row = f /\ reqs'[r].arg = ids'
  BY <1>1, ThenFact
<1>3. "code" \in Cols /\ Cols \subseteq Fields
  BY DEF Cols, Fields
<1>4. l.code <= ids /\ l.code \in Nat
  BY <1>1, ReqFact, AccountParts DEF Proper, UserRow
<1>5. Proper(reqs[r])' /\ reqs'[r].op # "phone_verify"
  <2>1. CASE ~Exists(u)
    BY <1>1, <1>2, <2>1, IdleProper
  <2>2. CASE Exists(u)
    <3>1. f.code \in {l.code, ids + 1}
      BY <1>1, <1>3
    <3>2. ASSUME NEW v \in Users, f.code # 0, f.code = users'[v].code
          PROVE  u = v
      <4>1. OneRow(u) /\ \A c \in Fields : users'[u][c] = IF f[c] # l[c] THEN f[c] ELSE users[u][c]
        BY <1>1, <1>2, <2>2, CommitRowFact
      <4> SUFFICES ASSUME v # u PROVE FALSE
        OBVIOUS
      <4>2. users'[v].code = users[v].code /\ users[v].code <= ids /\ users[v].code \in Nat
        <5>1. users'[v].code = users[v].code
          BY <4>1 DEF OneRow
        <5>2. users[v].code <= ids
          BY <1>3 DEF AccountInv, Stored
        <5>3. users[v].code \in Nat
          BY <1>1, <1>3, ColumnFact
        <5> QED BY <5>1, <5>2, <5>3
      <4>3. f.code = l.code
        BY <1>1, <3>1, <3>2, <4>2
      <4> QED BY <3>2, <4>2, <4>3, ReqFact DEF Proper
    <3>3. f.code <= ids'
      BY <1>1, <1>4, <3>1
    <3>4. op # "phone_verify" /\ op \notin {"verify", "reset"}
      BY DEF Sends
    <3> QED BY <1>1, <1>2, <2>2, <3>2, <3>3, <3>4 DEF Proper
  <2> QED BY <2>1, <2>2
<1>6. \A c \in Cols : f[c] # l[c] => c = k /\ f[c] = ids + 1 /\ ids' = ids + 1
  BY <1>1
<1>7. \/ f.code = l.code /\ f.tries = l.tries
      \/ f.code = ids + 1
  BY <1>1, <1>3
<1>8. mailed \subseteq mailed' /\ mailed' \subseteq [user : Users, id : Ids, to : Numbers \cup {NoNumber}]
  BY ReqFact
<1>9. \A c, d \in Cols : f[c] # l[c] /\ f[d] # l[d] /\ f[c] = ids + 1 /\ f[d] = ids + 1
                         => c = d
  BY <1>6
<1>10. \A c \in Cols : f[c] # l[c] => f[c] = 0 \/ (f[c] = ids + 1 /\ ids' = ids + 1)
  BY <1>6
<1>11. ids' \in {ids, ids + 1} /\ ids' \in 0..MaxIds
  BY <1>1
<1> QED BY <1>2, <1>5, <1>7, <1>8, <1>9, <1>10, <1>11, CommitRule

LEMMA IssueVerificationKeeps ==
    ASSUME AccountInv, NEW r \in Requests, issue_verification(r)
    PROVE  AccountInv' /\ Lives
<1>1. UNCHANGED <<spent, guesses, age, signedIn, mailed>>
  BY DEF issue_verification
<1>2. CASE Answer(r) /\ UNCHANGED <<users, ids>>
  BY <1>1, <1>2, AnswerOnly
<1>3. CASE Draw /\ CommitThen(r, [reqs[r].row EXCEPT !.vtok = ids'], "mail_verify", ids')
  <2> DEFINE f == [reqs[r].row EXCEPT !.vtok = ids']
             op == "mail_verify"
             k == "vtok"
  <2>1. reqs[r].row \in UserRow /\ ids' \in 0..MaxIds
    BY <1>3, ReqFact, AccountParts DEF Draw
  <2>2. /\ f \in UserRow /\ f[k] = ids' /\ k \in Cols /\ op \in Sends
        /\ \A c \in Cols \ {k} : f[c] = reqs[r].row[c]
        /\ f.verified = reqs[r].row.verified /\ f.pw = reqs[r].row.pw /\ f.tries = reqs[r].row.tries
    BY <2>1 DEF UserRow, Cols, Sends
  <2>3. Draw /\ CommitThen(r, f, op, ids')
    BY <1>3
  <2> HIDE DEF f, op, k
  <2> QED BY <1>1, <2>2, <2>3, MintRule
<1> QED BY <1>2, <1>3 DEF issue_verification

LEMMA IssueResetKeeps ==
    ASSUME AccountInv, NEW r \in Requests, issue_password_reset(r)
    PROVE  AccountInv' /\ Lives
<1>1. UNCHANGED <<spent, guesses, age, signedIn, mailed>>
  BY DEF issue_password_reset
<1>2. CASE Answer(r) /\ UNCHANGED <<users, ids>>
  BY <1>1, <1>2, AnswerOnly
<1>3. CASE Draw /\ CommitThen(r, [reqs[r].row EXCEPT !.rtok = ids'], "mail_reset", ids')
  <2> DEFINE f == [reqs[r].row EXCEPT !.rtok = ids']
             op == "mail_reset"
             k == "rtok"
  <2>1. reqs[r].row \in UserRow /\ ids' \in 0..MaxIds
    BY <1>3, ReqFact, AccountParts DEF Draw
  <2>2. /\ f \in UserRow /\ f[k] = ids' /\ k \in Cols /\ op \in Sends
        /\ \A c \in Cols \ {k} : f[c] = reqs[r].row[c]
        /\ f.verified = reqs[r].row.verified /\ f.pw = reqs[r].row.pw /\ f.tries = reqs[r].row.tries
    BY <2>1 DEF UserRow, Cols, Sends
  <2>3. Draw /\ CommitThen(r, f, op, ids')
    BY <1>3
  <2> HIDE DEF f, op, k
  <2> QED BY <1>1, <2>2, <2>3, MintRule
<1> QED BY <1>2, <1>3 DEF issue_password_reset

LEMMA SendPhoneKeeps ==
    ASSUME AccountInv, NEW r \in Requests, NEW n \in Numbers \cup {NoNumber}, SendPhoneCode(r, n),
           UNCHANGED <<spent, guesses, age, signedIn, mailed>>
    PROVE  AccountInv' /\ Lives
<1> DEFINE f == [reqs[r].row EXCEPT !.phone = n, !.phoneOk = FALSE, !.code = ids', !.tries = 0]
           op == "sms"
           k == "code"
<1>1. CASE Answer(r) /\ UNCHANGED <<users, ids>>
  BY <1>1, AnswerOnly
<1>2. CASE Draw /\ CommitThen(r, f, op, ids')
  <2>1. reqs[r].row \in UserRow /\ ids' \in 0..MaxIds
    BY <1>2, ReqFact, AccountParts DEF Draw
  <2>2. /\ f \in UserRow /\ f[k] = ids' /\ k \in Cols /\ op \in Sends
        /\ \A c \in Cols \ {k} : f[c] = reqs[r].row[c]
        /\ f.verified = reqs[r].row.verified /\ f.pw = reqs[r].row.pw
    BY <2>1 DEF UserRow, Cols, Sends
  <2>3. Draw /\ CommitThen(r, f, op, ids') /\ k = "code"
    BY <1>2
  <2> HIDE DEF f, op, k
  <2> QED BY <2>2, <2>3, MintRule
<1> QED BY <1>1, <1>2 DEF SendPhoneCode

LEMMA PhoneKeeps ==
    ASSUME AccountInv, NEW r \in Requests,
           send_requested_code(r) \/ resend_phone_verification(r)
    PROVE  AccountInv' /\ Lives
<1>1. UNCHANGED <<spent, guesses, age, signedIn, mailed>>
  BY DEF send_requested_code, resend_phone_verification
<1>2. CASE Answer(r) /\ UNCHANGED <<users, ids>>
  BY <1>1, <1>2, AnswerOnly
<1>3. CASE SendPhoneCode(r, reqs[r].number)
  <2>1. reqs[r].number \in Numbers \cup {NoNumber}
    BY ReqFact DEF Request
  <2> QED BY <1>1, <1>3, <2>1, SendPhoneKeeps
<1>4. CASE SendPhoneCode(r, reqs[r].row.phone)
  BY <1>1, <1>4, ReqFact, SendPhoneKeeps
<1> QED BY <1>2, <1>3, <1>4 DEF send_requested_code, resend_phone_verification

LEMMA RequestPhoneKeeps ==
    ASSUME AccountInv, NEW r \in Requests, request_phone_verification(r)
    PROVE  AccountInv' /\ Lives
<1>1. UNCHANGED <<users, signedIn, mailed, spent, guesses, age, ids>>
  BY DEF request_phone_verification
<1>2. CASE Answer(r)
  BY <1>1, <1>2, AnswerOnly
<1>3. CASE reqs' = [reqs EXCEPT ![r].op = "phone_send"]
  <2> DEFINE q == [reqs[r] EXCEPT !.op = "phone_send"]
  <2>1. TypeOKAccount /\ reqs[r] \in Request /\ Proper(reqs[r]) /\ reqs' = [reqs EXCEPT ![r] = q]
    BY <1>3, ReqFact, AccountParts
  <2>2. q \in Request /\ q.op = "phone_send" /\ q.row = reqs[r].row /\ q.user = reqs[r].user
    BY <2>1 DEF Request, Ops
  <2> HIDE DEF q
  <2>3. reqs' \in [Requests -> Request] /\ OneRequest(r) /\ reqs'[r] = q
    BY <2>1, <2>2, AccountParts DEF OneRequest
  <2>4. Proper(reqs[r])'
    BY <1>1, <2>1, <2>2, <2>3 DEF Proper, Sends
  <2>5. ids' \in {ids, ids + 1} /\ ids' \in 0..MaxIds
    BY <1>1, <2>1, AccountParts
  <2> QED BY <1>1, <2>2, <2>3, <2>4, <2>5, NoneRule
<1> QED BY <1>2, <1>3 DEF request_phone_verification

LEMMA SendKeeps ==
    ASSUME AccountInv, NEW r \in Requests, Send(r)
    PROVE  AccountInv' /\ Lives
<1> DEFINE q == reqs[r]
           f == Stamped(q)
           m == [user |-> q.user, id |-> q.arg, to |-> IF q.op = "sms" THEN q.row.phone ELSE NoNumber]
<1>1. /\ q.op \in Sends /\ q.user \in Users /\ q.row \in UserRow /\ q.arg \in 0..MaxIds /\ q.arg # 0
      /\ q.row.phone \in Numbers \cup {NoNumber}
  BY ReqFact DEF Send, Proper
<1>2. m \in [user : Users, id : Ids, to : Numbers \cup {NoNumber}]
  <2>1. q.arg \in Ids
    BY <1>1, AccountAssumption DEF Ids, AccountAssumption
  <2> QED BY <1>1, <2>1
<1>3. mailed \subseteq mailed' /\ mailed' \subseteq [user : Users, id : Ids, to : Numbers \cup {NoNumber}]
  BY <1>2, ReqFact DEF Send
<1>4. /\ f \in UserRow /\ \A c \in Cols : f[c] = q.row[c]
      /\ f.verified = q.row.verified /\ f.pw = q.row.pw /\ f.tries = q.row.tries /\ f.code = q.row.code
  <2>1. CASE q.op = "mail_verify"
    <3>1. f = [q.row EXCEPT !.vsent = q.arg]
      BY <2>1 DEF Stamped
    <3> HIDE DEF f
    <3> QED BY <1>1, <3>1 DEF UserRow, Cols
  <2>2. CASE q.op = "mail_reset"
    <3>1. f = [q.row EXCEPT !.rsent = q.arg]
      BY <2>2 DEF Stamped
    <3> HIDE DEF f
    <3> QED BY <1>1, <3>1 DEF UserRow, Cols
  <2>3. CASE q.op = "sms"
    <3>1. f = [q.row EXCEPT !.csent = q.arg]
      BY <2>3 DEF Stamped
    <3> HIDE DEF f
    <3> QED BY <1>1, <3>1 DEF UserRow, Cols
  <2> QED BY <1>1, <2>1, <2>2, <2>3 DEF Sends
<1>5. CommitRow(r, f) /\ Answer(r) /\ UNCHANGED <<spent, guesses, age, signedIn, ids>>
  BY DEF Send
<1> HIDE DEF f, m
<1>6. ids' \in {ids, ids + 1} /\ ids' \in 0..MaxIds
  BY <1>5, ReqFact, AccountParts
<1> QED BY <1>3, <1>4, <1>5, <1>6, AnswerRule

\* A commit of columns that hold neither links nor codes.
LEMMA PlainRule ==
    ASSUME AccountInv, NEW r \in Requests, NEW f \in UserRow, CommitRow(r, f), Answer(r),
           UNCHANGED <<spent, guesses, age, signedIn, mailed>>,
           ids' = ids \/ Draw,
           \A c \in Cols : f[c] = reqs[r].row[c] \/ (f[c] = 0 /\ c # "code"),
           f.verified = reqs[r].row.verified, f.pw = reqs[r].row.pw \/ f.pw # 0,
           f.tries = reqs[r].row.tries
    PROVE  AccountInv' /\ Lives
<1>1. ids' \in {ids, ids + 1} /\ ids' \in 0..MaxIds
  BY ReqFact, AccountParts DEF Draw
<1>2. mailed \subseteq mailed' /\ mailed' \subseteq [user : Users, id : Ids, to : Numbers \cup {NoNumber}]
  BY ReqFact
<1>3. f.code = reqs[r].row.code
  BY DEF Cols
<1> QED BY <1>1, <1>2, <1>3, AnswerRule

LEMMA ProfileKeeps ==
    ASSUME AccountInv, NEW r \in Requests,
           \/ change_password(r) \/ update_profile(r) \/ upload_avatar(r) \/ delete_avatar(r)
    PROVE  AccountInv' /\ Lives
<1>1. UNCHANGED <<spent, guesses, age, signedIn, mailed>> /\ Answer(r)
  BY DEF change_password, update_profile, upload_avatar, delete_avatar
<1>2. reqs[r].row \in UserRow
  BY ReqFact
<1>3. CASE UNCHANGED <<users, ids>>
  BY <1>1, <1>3, AnswerOnly
<1>4. CASE Draw /\ CommitRow(r, [reqs[r].row EXCEPT !.pw = ids'])
  <2> DEFINE f == [reqs[r].row EXCEPT !.pw = ids']
  <2>1. ids' \in 0..MaxIds /\ ids' # 0
    BY <1>4, ReqFact, AccountParts DEF Draw
  <2>2. /\ f \in UserRow /\ \A c \in Cols : f[c] = reqs[r].row[c]
        /\ f.verified = reqs[r].row.verified /\ f.pw # 0 /\ f.tries = reqs[r].row.tries
    BY <1>2, <2>1 DEF UserRow, Cols
  <2>3. CommitRow(r, f) /\ Draw
    BY <1>4
  <2> HIDE DEF f
  <2> QED BY <1>1, <2>2, <2>3, PlainRule
<1>5. ASSUME NEW v \in {0, 1}, CommitRow(r, [reqs[r].row EXCEPT !.profile = v]), ids' = ids
      PROVE  AccountInv' /\ Lives
  <2> DEFINE f == [reqs[r].row EXCEPT !.profile = v]
  <2>1. /\ f \in UserRow /\ \A c \in Cols : f[c] = reqs[r].row[c]
        /\ f.verified = reqs[r].row.verified /\ f.pw = reqs[r].row.pw /\ f.tries = reqs[r].row.tries
    BY <1>2 DEF UserRow, Cols
  <2>2. CommitRow(r, f) /\ ids' = ids
    BY <1>5
  <2> HIDE DEF f
  <2> QED BY <1>1, <2>1, <2>2, PlainRule
<1>6. ASSUME NEW b \in BOOLEAN, CommitRow(r, [reqs[r].row EXCEPT !.avatar = b]), ids' = ids
      PROVE  AccountInv' /\ Lives
  <2> DEFINE f == [reqs[r].row EXCEPT !.avatar = b]
  <2>1. /\ f \in UserRow /\ \A c \in Cols : f[c] = reqs[r].row[c]
        /\ f.verified = reqs[r].row.verified /\ f.pw = reqs[r].row.pw /\ f.tries = reqs[r].row.tries
    BY <1>2 DEF UserRow, Cols
  <2>2. CommitRow(r, f) /\ ids' = ids
    BY <1>6
  <2> HIDE DEF f
  <2> QED BY <1>1, <2>1, <2>2, PlainRule
<1>7. CASE change_password(r)
  BY <1>4, <1>7 DEF change_password
<1>8. CASE update_profile(r)
  BY <1>3, <1>5, <1>8 DEF update_profile
<1>9. CASE upload_avatar(r) \/ delete_avatar(r)
  BY <1>3, <1>6, <1>9 DEF upload_avatar, delete_avatar
<1> QED BY <1>7, <1>8, <1>9

\* The conditional UPDATE accepts a link that was followed.
LEMMA AcceptRule ==
    ASSUME AccountInv, NEW r \in Requests, Answer(r), reqs[r].op \in {"verify", "reset"},
           NEW k \in {"vtok", "rtok"}, reqs[r].arg # 0, users[reqs[r].user][k] = reqs[r].arg,
           NEW row \in UserRow, users' = [users EXCEPT ![reqs[r].user] = row], row[k] = 0,
           \A c \in Cols \ {k} : row[c] = users[reqs[r].user][c],
           row.tries = users[reqs[r].user].tries, row.pw # 0,
           spent' = [spent EXCEPT ![reqs[r].arg] = @ + 1],
           ids' = ids \/ Draw, UNCHANGED <<guesses, age, signedIn, mailed>>
    PROVE  AccountInv' /\ Lives
<1> DEFINE u == reqs[r].user
           t == reqs[r].arg
<1>1. /\ TypeOKAccount /\ Stored /\ u \in Users /\ t \in Ids /\ ids \in Nat
      /\ spent \in [Ids -> Nat] /\ users \in [Users -> UserRow] /\ k \in Cols /\ "code" \in Cols
  BY ReqFact, AccountParts DEF AccountInv, Cols
<1>2. ids' \in {ids, ids + 1} /\ ids' \in 0..MaxIds
  BY <1>1, AccountParts DEF Draw
<1>3. reqs' \in [Requests -> Request] /\ OneRequest(r) /\ reqs'[r] = Idle
  BY <1>1, AnswerFact
<1>4. Proper(reqs[r])' /\ reqs'[r].op # "phone_verify"
  BY <1>2, <1>3, IdleProper
<1>5. users' \in [Users -> UserRow] /\ users'[u] = row /\ OneRow(u)
  BY <1>1 DEF OneRow
<1>6. spent' \in [Ids -> Nat] /\ spent'[t] = spent[t] + 1 /\ \A i \in Ids : i # t => spent'[i] = spent[i]
  BY <1>1
<1>7. TypeOKAccount'
  BY <1>1, <1>2, <1>3, <1>5, <1>6 DEF TypeOKAccount, Request
<1>8. \A c \in Cols : users[u][c] \in Nat /\ users[u][c] <= ids
  BY <1>1, ColumnFact DEF Stored
<1>9. \A c \in Cols : users'[u][c] = users[u][c] \/ users'[u][c] = 0
  BY <1>5
<1>10. Writes(u)
  <2>1. \A c \in Cols : users'[u][c] # ids + 1
    BY <1>1, <1>8, <1>9
  <2> QED BY <1>2, <1>5, <1>9, <2>1 DEF Writes
<1>11. Accepts(u)
  <2>1. users[u][k] = t /\ users'[u][k] = 0
    BY <1>5
  <2> QED BY <1>1, <1>6, <2>1 DEF Accepts
<1>12. Proven(u)
  <2>1. PICK m \in mailed : m.user = u /\ m.id = t /\ m.to = NoNumber
    BY ReqFact DEF Proper
  <2>2. spent'[t] > 0
    BY <1>1, <1>6
  <2> QED BY <2>1, <2>2 DEF Proven
<1>13. users'[u].tries = users[u].tries
  BY <1>5
<1>14. Lives /\ Vacated(u)
  BY <1>1, <1>5 DEF Lives, Exists, OneRow, Vacated
<1> HIDE DEF u, t
<1>15. Counted' /\ Bounded' /\ \A i \in Ids : i > ids' => guesses'[i] = 0
  BY <1>1, <1>3, <1>4, <1>7, <1>10, <1>13, QuietRule
<1>16. AccountInv'
  BY <1>1, <1>3, <1>4, <1>7, <1>10, <1>11, <1>12, <1>14, <1>15, AccountRule
<1> QED BY <1>14, <1>16

LEMMA VerifyKeeps ==
    ASSUME AccountInv, NEW r \in Requests, verify_email(r)
    PROVE  AccountInv' /\ Lives
<1> DEFINE u == reqs[r].user
           t == reqs[r].arg
           l == reqs[r].row
<1>1. UNCHANGED <<signedIn, mailed, guesses, age, ids>> /\ Answer(r) /\ reqs[r].op = "verify"
  BY DEF verify_email
<1>2. CASE UNCHANGED <<users, spent>>
  BY <1>1, <1>2, AnswerOnly
<1>3. CASE CommitRow(r, [l EXCEPT !.vtok = 0]) /\ UNCHANGED spent
  <2> DEFINE f == [l EXCEPT !.vtok = 0]
  <2>1. l \in UserRow /\ 0 \in 0..MaxIds
    BY ReqFact, AccountAssumption DEF AccountAssumption
  <2>2. /\ f \in UserRow /\ \A c \in Cols : f[c] = reqs[r].row[c] \/ (f[c] = 0 /\ c # "code")
        /\ f.verified = reqs[r].row.verified /\ f.pw = reqs[r].row.pw /\ f.tries = reqs[r].row.tries
    BY <2>1 DEF UserRow, Cols
  <2>3. CommitRow(r, f) /\ UNCHANGED spent
    BY <1>3
  <2> HIDE DEF f
  <2> QED BY <1>1, <2>2, <2>3, PlainRule
<1>4. CASE /\ Exists(u) /\ StillStored(users[u].vtok, t)
           /\ users' = [users EXCEPT ![u].verified = TRUE, ![u].vtok = 0]
           /\ spent' = [spent EXCEPT ![t] = @ + 1]
  <2> DEFINE row == [users[u] EXCEPT !.verified = TRUE, !.vtok = 0]
             k == "vtok"
  <2>1. t # 0 /\ users[u][k] = t
    BY <1>4 DEF StillStored, token_is_expired
  <2>2. users[u] \in UserRow /\ 0 \in 0..MaxIds /\ users \in [Users -> UserRow] /\ u \in Users
    BY ReqFact, AccountParts, AccountAssumption DEF AccountAssumption
  <2>3. /\ row \in UserRow /\ row[k] = 0 /\ \A c \in Cols \ {k} : row[c] = users[u][c]
        /\ row.tries = users[u].tries /\ row.pw = users[u].pw
    BY <2>2 DEF UserRow, Cols
  <2>4. users' = [users EXCEPT ![u] = row]
    BY <1>4, <2>2
  <2>5. row.pw # 0
    BY <1>4, <2>3 DEF Exists
  <2>6. k \in {"vtok", "rtok"}
    OBVIOUS
  <2>7. /\ spent' = [spent EXCEPT ![reqs[r].arg] = @ + 1] /\ users' = [users EXCEPT ![reqs[r].user] = row]
        /\ reqs[r].op \in {"verify", "reset"} /\ reqs[r].arg # 0 /\ users[reqs[r].user][k] = reqs[r].arg
        /\ \A c \in Cols \ {k} : row[c] = users[reqs[r].user][c]
        /\ row.tries = users[reqs[r].user].tries
    BY <1>1, <1>4, <2>1, <2>3, <2>4
  <2> HIDE DEF row, k, u, t
  <2> QED BY <1>1, <2>3, <2>5, <2>6, <2>7, AcceptRule
<1> QED BY <1>2, <1>3, <1>4 DEF verify_email

LEMMA ResetKeeps ==
    ASSUME AccountInv, NEW r \in Requests, reset_password(r)
    PROVE  AccountInv' /\ Lives
<1> DEFINE u == reqs[r].user
           t == reqs[r].arg
           l == reqs[r].row
<1>1. UNCHANGED <<signedIn, mailed, guesses, age>> /\ Answer(r) /\ reqs[r].op = "reset"
  BY DEF reset_password
<1>2. CASE UNCHANGED <<users, spent, ids>>
  BY <1>1, <1>2, AnswerOnly
<1>3. CASE CommitRow(r, [l EXCEPT !.rtok = 0]) /\ UNCHANGED <<spent, ids>>
  <2> DEFINE f == [l EXCEPT !.rtok = 0]
  <2>1. l \in UserRow /\ 0 \in 0..MaxIds
    BY ReqFact, AccountAssumption DEF AccountAssumption
  <2>2. /\ f \in UserRow /\ \A c \in Cols : f[c] = reqs[r].row[c] \/ (f[c] = 0 /\ c # "code")
        /\ f.verified = reqs[r].row.verified /\ f.pw = reqs[r].row.pw /\ f.tries = reqs[r].row.tries
    BY <2>1 DEF UserRow, Cols
  <2>3. CommitRow(r, f) /\ UNCHANGED <<spent, ids>>
    BY <1>3
  <2> HIDE DEF f
  <2> QED BY <1>1, <2>2, <2>3, PlainRule
<1>4. CASE /\ Exists(u) /\ StillStored(users[u].rtok, t) /\ Draw
           /\ users' = [users EXCEPT ![u].pw = ids', ![u].rtok = 0, ![u].verified = TRUE]
           /\ spent' = [spent EXCEPT ![t] = @ + 1]
  <2> DEFINE row == [users[u] EXCEPT !.pw = ids', !.rtok = 0, !.verified = TRUE]
             k == "rtok"
  <2>1. t # 0 /\ users[u][k] = t
    BY <1>4 DEF StillStored, token_is_expired
  <2>2. /\ users[u] \in UserRow /\ 0 \in 0..MaxIds /\ users \in [Users -> UserRow] /\ u \in Users
        /\ ids' \in 0..MaxIds /\ ids' # 0
    BY <1>4, ReqFact, AccountParts, AccountAssumption DEF AccountAssumption, Draw
  <2>3. /\ row \in UserRow /\ row[k] = 0 /\ \A c \in Cols \ {k} : row[c] = users[u][c]
        /\ row.tries = users[u].tries /\ row.pw # 0
    BY <2>2 DEF UserRow, Cols
  <2>4. users' = [users EXCEPT ![u] = row]
    BY <1>4, <2>2
  <2>5. k \in {"vtok", "rtok"}
    OBVIOUS
  <2>6. /\ spent' = [spent EXCEPT ![reqs[r].arg] = @ + 1] /\ users' = [users EXCEPT ![reqs[r].user] = row]
        /\ reqs[r].op \in {"verify", "reset"} /\ reqs[r].arg # 0 /\ users[reqs[r].user][k] = reqs[r].arg
        /\ \A c \in Cols \ {k} : row[c] = users[reqs[r].user][c]
        /\ row.tries = users[reqs[r].user].tries /\ Draw
    BY <1>1, <1>4, <2>1, <2>3, <2>4
  <2> HIDE DEF row, k, u, t
  <2> QED BY <1>1, <2>3, <2>5, <2>6, AcceptRule
<1> QED BY <1>2, <1>3, <1>4 DEF reset_password

LEMMA RegisterUserKeeps ==
    ASSUME AccountInv, NEW r \in Requests, NEW u \in Users, register_user(r, u)
    PROVE  AccountInv' /\ Lives
<1> DEFINE row == [NoRow EXCEPT !.pw = ids']
           q == [Idle EXCEPT !.op = "resend", !.user = u, !.row = row]
<1>1. /\ TypeOKAccount /\ Stored /\ ids \in Nat /\ ids' = ids + 1 /\ ids' \in 0..MaxIds
      /\ users \in [Users -> UserRow] /\ reqs \in [Requests -> Request] /\ ~Exists(u)
  BY AccountParts DEF AccountInv, register_user, Draw, NameFree
<1>2. /\ row \in UserRow /\ \A c \in Cols : row[c] = 0
      /\ row.code = 0 /\ ~row.verified /\ row.pw # 0
  <2>1. NoRow \in UserRow
    BY IdleFact
  <2>2. row \in UserRow /\ row.pw = ids' /\ \A c \in Fields \ {"pw"} : row[c] = NoRow[c]
    BY <1>1, <2>1 DEF UserRow, Fields
  <2>3. NoRow.code = 0 /\ NoRow.vtok = 0 /\ NoRow.rtok = 0 /\ NoRow.verified = FALSE
    BY DEF NoRow
  <2> HIDE DEF row
  <2>4. row.code = 0 /\ row.vtok = 0 /\ row.rtok = 0 /\ row.verified = FALSE
    BY <2>2, <2>3 DEF Fields
  <2> QED BY <1>1, <2>2, <2>4 DEF Cols
<1>3. users' = [users EXCEPT ![u] = row] /\ UNCHANGED <<signedIn, mailed, spent, guesses, age>>
  BY DEF register_user
<1> HIDE DEF row
<1>4. users' \in [Users -> UserRow] /\ users'[u] = row /\ OneRow(u)
  BY <1>1, <1>2, <1>3 DEF OneRow
<1>5. q \in Request /\ q.op = "resend" /\ q.row = row /\ reqs' = [reqs EXCEPT ![r] = q]
  <2>1. "resend" \in Ops
    BY DEF Ops
  <2>2. q \in Request /\ q.op = "resend" /\ q.row = row
    BY <1>2, <2>1, IdleFact DEF Request
  <2>3. reqs' = [reqs EXCEPT ![r] = q]
    BY <1>4 DEF register_user
  <2> QED BY <2>2, <2>3
<1> HIDE DEF q
<1>6. reqs' \in [Requests -> Request] /\ OneRequest(r) /\ reqs'[r] = q
  BY <1>1, <1>5 DEF OneRequest
<1>7. TypeOKAccount'
  BY <1>1, <1>3, <1>4, <1>6 DEF TypeOKAccount, Request
<1>8. Proper(reqs[r])' /\ reqs'[r].op # "phone_verify"
  BY <1>1, <1>2, <1>5, <1>6 DEF Proper, Sends
<1>9. Writes(u)
  <2>1. \A c \in Cols : users'[u][c] = 0
    BY <1>2, <1>4
  <2> QED BY <1>1, <1>4, <2>1 DEF Writes
<1>10. Accepts(u) /\ Proven(u)
  BY <1>2, <1>3, <1>4 DEF Accepts, Proven
<1>11. Lives /\ Vacated(u)
  BY <1>2, <1>4 DEF Lives, Exists, OneRow, Vacated
<1>12. Counted' /\ Bounded' /\ \A i \in Ids : i > ids' => guesses'[i] = 0
  BY <1>2, <1>3, <1>4, <1>6, <1>7, <1>8, <1>9, QuietRule
<1>13. AccountInv'
  BY <1>3, <1>6, <1>7, <1>8, <1>9, <1>10, <1>11, <1>12, AccountRule
<1> QED BY <1>11, <1>13

LEMMA DeleteAccountKeeps ==
    ASSUME AccountInv, NEW r \in Requests, delete_account(r)
    PROVE  AccountInv' /\ \A v \in Users : v # reqs[r].user => (Exists(v) => Exists(v)')
<1> DEFINE u == reqs[r].user
<1>1. /\ TypeOKAccount /\ Stored /\ ids \in Nat /\ u \in Users /\ ids' = ids
      /\ users \in [Users -> UserRow]
  BY ReqFact, AccountParts DEF AccountInv, delete_account
<1>2. users' = [users EXCEPT ![u] = GoneRow] /\ UNCHANGED <<signedIn, mailed, spent, guesses, age>> /\ Answer(r)
  BY DEF delete_account
<1>3. GoneRow \in UserRow /\ (\A c \in Cols : GoneRow[c] = 0) /\ GoneRow.code = 0 /\ ~GoneRow.verified
  <2>1. NoRow \in UserRow /\ NoRow.vtok = 0 /\ NoRow.rtok = 0 /\ NoRow.code = 0 /\ NoRow.verified = FALSE
    BY IdleFact DEF NoRow
  <2> HIDE DEF NoRow
  <2>2. GoneRow \in UserRow /\ \A c \in Fields \ {"gone"} : GoneRow[c] = NoRow[c]
    BY <2>1 DEF GoneRow, UserRow, Fields
  <2>3. {"vtok", "rtok", "code", "verified"} \subseteq Fields \ {"gone"}
    BY DEF Fields
  <2> QED BY <2>1, <2>2, <2>3 DEF Cols
<1>4. users' \in [Users -> UserRow] /\ users'[u] = GoneRow /\ OneRow(u)
  BY <1>1, <1>2, <1>3 DEF OneRow
<1>5. reqs' \in [Requests -> Request] /\ OneRequest(r) /\ reqs'[r] = Idle
  BY <1>1, <1>2, AnswerFact
<1>6. Proper(reqs[r])' /\ reqs'[r].op # "phone_verify"
  BY <1>1, <1>5, IdleProper
<1>7. TypeOKAccount'
  BY <1>1, <1>2, <1>4, <1>5 DEF TypeOKAccount, Request
<1>8. Writes(u) /\ Accepts(u) /\ Proven(u) /\ Vacated(u)
  <2>1. \A c \in Cols : users'[u][c] = 0
    BY <1>3, <1>4
  <2> QED BY <1>1, <1>2, <1>3, <1>4, <2>1 DEF Writes, Accepts, Proven, Vacated
<1> HIDE DEF u
<1>9. Counted' /\ Bounded' /\ \A i \in Ids : i > ids' => guesses'[i] = 0
  BY <1>1, <1>2, <1>3, <1>4, <1>5, <1>6, <1>7, <1>8, QuietRule
<1>10. AccountInv'
  BY <1>1, <1>2, <1>5, <1>6, <1>7, <1>8, <1>9, AccountRule
<1>11. \A v \in Users : v # u => (Exists(v) => Exists(v)')
  BY <1>4 DEF OneRow, Exists
<1> QED BY <1>10, <1>11 DEF u

\* The copy of a row that is loaded holds no code of another account.
LEMMA LoadProper ==
    ASSUME AccountInv, NEW u \in Users, users' = users, ids' = ids
    PROVE  /\ users[u].code <= ids'
           /\ \A v \in Users : users[u].code # 0 /\ users[u].code = users'[v].code => u = v
<1>1. "code" \in Cols
  BY DEF Cols
<1>2. Stored /\ Unique
  BY DEF AccountInv
<1>3. users[u].code <= ids
  BY <1>1, <1>2 DEF Stored
<1>4. \A v \in Users : users[u].code # 0 /\ users[u].code = users[v].code => u = v
  BY <1>1, <1>2 DEF Unique
<1> QED BY <1>3, <1>4

LEMMA LoadRule ==
    ASSUME AccountInv, NEW r \in Requests, NEW op \in Ops \ (Sends \cup {"phone_verify"}),
           NEW u \in Users, NEW arg \in 0..MaxIds, NEW n \in Numbers \cup {NoNumber},
           Load(r, op, u, arg, n), UNCHANGED <<users, signedIn, mailed, spent, guesses, age, ids>>,
           op \in {"verify", "reset"} => \E m \in mailed : m.user = u /\ m.id = arg /\ m.to = NoNumber
    PROVE  AccountInv' /\ Lives
<1>1. TypeOKAccount /\ ids' \in {ids, ids + 1} /\ ids' \in 0..MaxIds
  BY AccountParts DEF AccountInv
<1>2. /\ reqs' \in [Requests -> Request] /\ OneRequest(r)
      /\ reqs'[r] = [op |-> op, user |-> u, row |-> users[u], arg |-> arg, number |-> n]
  BY <1>1, LoadFact
<1>3. reqs'[r].op = op /\ reqs'[r].user = u /\ reqs'[r].row = users[u] /\ reqs'[r].arg = arg
  BY <1>2
<1>4. Proper(reqs[r])'
  BY <1>3, LoadProper DEF Proper
<1> QED BY <1>1, <1>2, <1>3, <1>4, NoneRule

\* A guess begins: the code is loaded below its limit, or the guess is void.
LEMMA GuessBegins ==
    ASSUME AccountInv, NEW r \in Requests, NEW u \in Users, NEW arg \in 0..MaxIds,
           Load(r, "phone_verify", u, arg, NoNumber),
           UNCHANGED <<users, signedIn, mailed, spent, guesses, age, ids>>
    PROVE  AccountInv' /\ Lives
<1>1. TypeOKAccount /\ ids \in Nat /\ Counted /\ Bounded /\ Undrawn /\ Stored /\ guesses \in [Ids -> Nat]
  BY AccountParts DEF AccountInv
<1>2. /\ reqs' \in [Requests -> Request] /\ OneRequest(r) /\ reqs[r].op = "idle"
      /\ reqs'[r] = [op |-> "phone_verify", user |-> u, row |-> users[u], arg |-> arg, number |-> NoNumber]
  <2>1. "phone_verify" \in Ops /\ NoNumber \in Numbers \cup {NoNumber}
    BY DEF Ops
  <2> QED BY <1>1, <2>1, LoadFact
<1>3. reqs'[r].op = "phone_verify" /\ reqs'[r].user = u /\ reqs'[r].row = users[u]
  BY <1>2
<1>4. Proper(reqs[r])'
  BY <1>3, LoadProper DEF Proper, Sends
<1>5. TypeOKAccount'
  BY <1>1, <1>2 DEF TypeOKAccount, Request
<1>6. \A c \in Cols : users[u][c] \in Nat /\ users[u][c] <= ids
  BY <1>1, ColumnFact DEF Stored
<1>7. Writes(u) /\ Accepts(u) /\ Proven(u) /\ Vacated(u) /\ Lives
  BY <1>1, <1>6 DEF Writes, Accepts, Proven, Vacated, Lives, OneRow, Exists, AccountInv, Vacant
<1>8. Counted' /\ \A i \in Ids : i > ids' => guesses'[i] = 0
  BY <1>1 DEF Counted, Undrawn
<1>9. ASSUME NEW i \in Ids
      PROVE  guesses'[i] + Cardinality(Pending(i)') <= MaxAttempts - 1 + Cardinality(Requests)
  <2>1. Pending(i)' \subseteq Requests /\ guesses[i] \in Nat /\ guesses'[i] = guesses[i] /\ i # 0
    BY <1>1, AccountParts DEF Pending
  <2>2. Cardinality(Pending(i)') <= Cardinality(Requests) /\ Cardinality(Pending(i)') \in Nat
    BY <2>1, Requests_, FS_Subset, FS_CardinalityType
  <2>3. CASE users[u].code = i /\ ~attempts_exhausted(users[u].tries)
    <3>1. guesses[i] <= users[u].tries
      BY <1>1, <2>1, <2>3 DEF Counted
    <3>2. users[u].tries \in Nat
      BY <1>1, AccountParts DEF UserRow
    <3>3. users[u].tries < MaxAttempts
      BY <2>3, <3>2, Requests_ DEF attempts_exhausted
    <3> QED BY <2>1, <2>2, <3>1, <3>2, <3>3, Requests_
  <2>4. CASE ~(users[u].code = i /\ ~attempts_exhausted(users[u].tries))
    <3>1. Pending(i)' = Pending(i)
      <4>1. r \notin Pending(i)' /\ r \notin Pending(i)
        BY <1>2, <1>3, <2>4 DEF Pending, attempts_exhausted
      <4>2. \A q \in Requests : q # r => (q \in Pending(i)' <=> q \in Pending(i))
        BY <1>2 DEF Pending, OneRequest, attempts_exhausted
      <4> QED BY <4>1, <4>2 DEF Pending
    <3> QED BY <1>1, <2>1, <3>1 DEF Bounded
  <2> QED BY <2>3, <2>4
<1>10. Bounded'
  BY <1>9 DEF Bounded
<1>11. mailed \subseteq mailed'
  OBVIOUS
<1>12. AccountInv'
  BY <1>2, <1>4, <1>5, <1>7, <1>8, <1>10, <1>11, AccountRule
<1> QED BY <1>7, <1>12

LEMMA ArriveAccountKeeps ==
    ASSUME AccountInv, NEW r \in Requests, ArriveAccount(r)
    PROVE  AccountInv' /\ Lives
<1>1. PICK u \in Users :
        \/ register_user(r, u) \/ resend_verification_email(r, u) \/ forgot_password(r, u)
        \/ FollowVerification(r, u) \/ FollowReset(r, u)
        \/ \E op \in {"change", "profile", "avatar", "phone_resend", "phone_delete",
                      "delete"} : Begin(r, op, u, 0, NoNumber)
        \/ \E n \in Numbers : Begin(r, "phone", u, 0, n)
        \/ \E c \in {0} \cup {m.id : m \in {m \in mailed : m.user = u}} :
              Begin(r, "phone_verify", u, c, NoNumber)
  BY DEF ArriveAccount
<1>2. /\ TypeOKAccount /\ 0 \in 0..MaxIds /\ NoNumber \in Numbers \cup {NoNumber}
      /\ users[u] \in UserRow
      /\ mailed \subseteq [user : Users, id : Ids, to : Numbers \cup {NoNumber}] /\ Ids \subseteq 0..MaxIds
  BY ReqFact, AccountParts
<1>3. {"resend", "forgot", "verify", "reset", "change", "profile", "avatar", "phone",
       "phone_resend", "phone_delete", "delete"} \subseteq Ops \ (Sends \cup {"phone_verify"})
  BY DEF Ops, Sends
<1>4. ASSUME NEW op \in {"resend", "forgot", "change", "profile", "avatar", "phone",
                         "phone_resend", "phone_delete", "delete"},
             NEW n \in Numbers \cup {NoNumber}, Load(r, op, u, 0, n),
             UNCHANGED <<users, signedIn, mailed, spent, guesses, age, ids>>
      PROVE  AccountInv' /\ Lives
  <2>1. op \in Ops \ (Sends \cup {"phone_verify"}) /\ op \notin {"verify", "reset"}
    BY <1>3, <1>4
  <2> QED BY <1>2, <1>4, <2>1, LoadRule
<1>5. CASE register_user(r, u)
  BY <1>5, RegisterUserKeeps
<1>6. CASE resend_verification_email(r, u) \/ forgot_password(r, u)
  BY <1>2, <1>4, <1>6 DEF resend_verification_email, forgot_password
<1>7. CASE FollowVerification(r, u)
  <2> DEFINE arg == users[u].vtok
             op == "verify"
  <2>1. arg \in 0..MaxIds /\ op \in Ops \ (Sends \cup {"phone_verify"})
    BY <1>2, <1>3 DEF UserRow
  <2>2. Load(r, op, u, arg, NoNumber) /\ UNCHANGED <<users, signedIn, mailed, spent, guesses, age, ids>>
    BY <1>7 DEF FollowVerification
  <2>3. \E m \in mailed : m.user = u /\ m.id = arg /\ m.to = NoNumber
    <3>1. [user |-> u, id |-> arg, to |-> NoNumber] \in mailed
      BY <1>7 DEF FollowVerification
    <3> QED BY <3>1
  <2> HIDE DEF arg, op
  <2> QED BY <1>2, <2>1, <2>2, <2>3, LoadRule
<1>8. CASE FollowReset(r, u)
  <2> DEFINE arg == users[u].rtok
             op == "reset"
  <2>1. arg \in 0..MaxIds /\ op \in Ops \ (Sends \cup {"phone_verify"})
    BY <1>2, <1>3 DEF UserRow
  <2>2. Load(r, op, u, arg, NoNumber) /\ UNCHANGED <<users, signedIn, mailed, spent, guesses, age, ids>>
    BY <1>8 DEF FollowReset
  <2>3. \E m \in mailed : m.user = u /\ m.id = arg /\ m.to = NoNumber
    <3>1. [user |-> u, id |-> arg, to |-> NoNumber] \in mailed
      BY <1>8 DEF FollowReset
    <3> QED BY <3>1
  <2> HIDE DEF arg, op
  <2> QED BY <1>2, <2>1, <2>2, <2>3, LoadRule
<1>9. ASSUME NEW op \in {"change", "profile", "avatar", "phone_resend", "phone_delete", "delete"},
             Begin(r, op, u, 0, NoNumber)
      PROVE  AccountInv' /\ Lives
  BY <1>2, <1>4, <1>9 DEF Begin
<1>10. ASSUME NEW n \in Numbers, Begin(r, "phone", u, 0, n)
       PROVE  AccountInv' /\ Lives
  BY <1>4, <1>10 DEF Begin
<1>11. ASSUME NEW c \in {0} \cup {m.id : m \in {m \in mailed : m.user = u}},
              Begin(r, "phone_verify", u, c, NoNumber)
       PROVE  AccountInv' /\ Lives
  <2>1. c \in 0..MaxIds
    BY <1>2, <1>11
  <2> QED BY <1>11, <2>1, GuessBegins DEF Begin
<1> QED BY <1>1, <1>5, <1>6, <1>7, <1>8, <1>9, <1>10, <1>11

\* A pending guess is made.
LEMMA GuessMade ==
    ASSUME AccountInv, NEW r \in Requests, NEW c \in Ids, reqs[r].op = "phone_verify",
           reqs[r].row.code = c, ~attempts_exhausted(reqs[r].row.tries),
           OneRequest(r), reqs'[r] = Idle, guesses' = [guesses EXCEPT ![c] = @ + 1]
    PROVE  Bounded'
<1>1. TypeOKAccount /\ Bounded /\ guesses \in [Ids -> Nat]
  BY AccountParts DEF AccountInv
<1>2. Idle.op # "phone_verify"
  BY IdleFact
<1> SUFFICES ASSUME NEW i \in Ids
             PROVE  guesses'[i] + Cardinality(Pending(i)') <= MaxAttempts - 1 + Cardinality(Requests)
  BY DEF Bounded
<1>3. Pending(i)' = Pending(i) \ {r}
  BY <1>2 DEF Pending, OneRequest, attempts_exhausted
<1>4. IsFiniteSet(Pending(i)) /\ Cardinality(Pending(i)) \in Nat
  <2>1. Pending(i) \subseteq Requests
    BY DEF Pending
  <2> QED BY <2>1, Requests_, FS_Subset, FS_CardinalityType
<1>5. Cardinality(Pending(i) \ {r}) = IF r \in Pending(i) THEN Cardinality(Pending(i)) - 1 ELSE Cardinality(Pending(i))
  BY <1>4, FS_RemoveElement
<1>6. guesses[i] + Cardinality(Pending(i)) <= MaxAttempts - 1 + Cardinality(Requests) /\ guesses[i] \in Nat
  BY <1>1 DEF Bounded
<1>7. CASE i = c
  <2>1. r \in Pending(i)
    BY <1>7 DEF Pending
  <2>2. guesses'[i] = guesses[i] + 1
    BY <1>1, <1>7
  <2> QED BY <1>3, <1>4, <1>5, <1>6, <2>1, <2>2, Requests_
<1>8. CASE i # c
  <2>1. r \notin Pending(i)
    BY <1>8 DEF Pending
  <2>2. guesses'[i] = guesses[i]
    BY <1>1, <1>8
  <2> QED BY <1>3, <1>5, <1>6, <2>1, <2>2
<1> QED BY <1>7, <1>8

LEMMA VerifyPhoneKeeps ==
    ASSUME AccountInv, NEW r \in Requests, verify_phone(r)
    PROVE  AccountInv' /\ Lives
<1> DEFINE u == reqs[r].user
           c == reqs[r].row.code
<1>1. UNCHANGED <<signedIn, mailed, age, ids>> /\ Answer(r) /\ reqs[r].op = "phone_verify"
  BY DEF verify_phone
<1>2. CASE UNCHANGED <<users, spent, guesses>>
  BY <1>1, <1>2, AnswerOnly
<1>3. CASE /\ ~token_is_expired(c) /\ ~attempts_exhausted(reqs[r].row.tries)
           /\ guesses' = [guesses EXCEPT ![c] = @ + 1]
           /\ \/ /\ users' = IF Exists(u) THEN CountGuess(u) ELSE users
                 /\ UNCHANGED spent
              \/ /\ Exists(u) /\ StillStored(users[u].code, c)
                 /\ users' = [users EXCEPT ![u].phoneOk = TRUE, ![u].code = 0, ![u].tries = 0]
                 /\ spent' = [spent EXCEPT ![c] = @ + 1]
              \/ /\ ~(Exists(u) /\ StillStored(users[u].code, c))
                 /\ UNCHANGED <<users, spent>>
  <2>1. /\ TypeOKAccount /\ Stored /\ Counted /\ Undrawn /\ Vacant /\ Proper(reqs[r])
        /\ users \in [Users -> UserRow] /\ guesses \in [Ids -> Nat] /\ spent \in [Ids -> Nat]
        /\ u \in Users /\ reqs[r].row \in UserRow /\ ids \in Nat /\ ids' = ids
        /\ Ids = 1..MaxIds /\ MaxIds \in Nat \ {0, 1} /\ "code" \in Cols
    BY <1>1, ReqFact, AccountParts DEF AccountInv, Cols
  <2>2. c # 0 /\ c \in Ids
    <3>1. c # 0
      BY <1>3 DEF token_is_expired
    <3>2. c \in 0..MaxIds
      BY <2>1 DEF UserRow
    <3> QED BY <2>1, <3>1, <3>2
  <2>3. c <= ids
    BY <2>1 DEF Proper
  <2>4. reqs' \in [Requests -> Request] /\ OneRequest(r) /\ reqs'[r] = Idle
    BY <1>1, <2>1, AnswerFact
  <2>5. Proper(reqs[r])'
    BY <2>1, <2>4, IdleProper
  <2>6. Bounded'
    BY <1>1, <1>3, <2>2, <2>4, GuessMade
  <2>7. /\ guesses' \in [Ids -> Nat] /\ guesses'[c] = guesses[c] + 1
        /\ \A i \in Ids : i # c => guesses'[i] = guesses[i]
    BY <1>3, <2>1, <2>2
  <2>8. \A i \in Ids : i > ids' => guesses'[i] = 0
    BY <2>1, <2>2, <2>3, <2>7 DEF Undrawn
  <2>9. \A x \in Cols : users[u][x] \in Nat /\ users[u][x] <= ids
    BY <2>1, ColumnFact DEF Stored
  <2>10. \A v \in Users : users[v].code \in Nat /\ (users[v].code # 0 => users[v].code \in Ids) /\ users[v].tries \in Nat
    <3> SUFFICES ASSUME NEW v \in Users
                 PROVE  /\ users[v].code \in Nat /\ (users[v].code # 0 => users[v].code \in Ids)
                        /\ users[v].tries \in Nat
      OBVIOUS
    <3>1. users[v].code \in Nat /\ (users[v].code # 0 => users[v].code \in Ids)
      BY <2>1, ColumnFact
    <3>2. users[v] \in UserRow
      BY <2>1
    <3> QED BY <3>1, <3>2 DEF UserRow
  <2>11. \A v \in Users : v # u => users[v].code # c
    BY <2>1, <2>2 DEF Proper
  <2>12. ASSUME NEW row \in UserRow, users' = [users EXCEPT ![u] = row], spent' \in [Ids -> Nat],
                \A x \in Cols : row[x] = users[u][x] \/ row[x] = 0, Accepts(u),
                row.verified = users[u].verified, row.pw = users[u].pw,
                row.code # 0 => /\ row.code = users[u].code
                                /\ row.tries >= users[u].tries
                                /\ row.code = c => row.tries = users[u].tries + 1
         PROVE  AccountInv' /\ Lives
    <3>1. users' \in [Users -> UserRow] /\ users'[u] = row /\ OneRow(u)
      BY <2>1, <2>12 DEF OneRow
    <3>2. TypeOKAccount'
      BY <1>1, <2>1, <2>4, <2>7, <2>12, <3>1 DEF TypeOKAccount, Request
    <3>3. Writes(u)
      <4>1. ASSUME NEW x \in Cols PROVE users'[u][x] # ids + 1
        <5>1. users'[u][x] = users[u][x] \/ users'[u][x] = 0
          BY <2>12, <3>1
        <5>2. users[u][x] \in Nat /\ users[u][x] <= ids
          BY <2>9
        <5> QED BY <2>1, <5>1, <5>2
      <4> QED BY <2>1, <2>12, <3>1, <4>1 DEF Writes
    <3>4. Proven(u) /\ Vacated(u) /\ Lives
      <4>1. row.pw = 0 => row.code = 0
        BY <2>1, <2>12 DEF Vacant, Exists
      <4> QED BY <2>12, <3>1, <4>1 DEF Proven, Vacated, Lives, OneRow, Exists
    <3>5. Counted'
      <4> SUFFICES ASSUME NEW v \in Users, users'[v].code # 0
                   PROVE  guesses'[users'[v].code] <= users'[v].tries
        BY DEF Counted
      <4>1. CASE v # u
        <5>1. users'[v] = users[v]
          BY <3>1, <4>1 DEF OneRow
        <5> QED BY <2>1, <2>7, <2>10, <2>11, <4>1, <5>1 DEF Counted
      <4>2. CASE v = u
        <5>1. /\ users'[v] = row /\ row.code = users[u].code /\ row.code \in Ids /\ row.tries \in Nat
              /\ row.tries >= users[u].tries /\ users[u].tries \in Nat
              /\ guesses[row.code] <= users[u].tries /\ guesses[row.code] \in Nat
          BY <2>1, <2>10, <2>12, <3>1, <4>2 DEF Counted, UserRow
        <5>2. CASE row.code = c
          BY <2>7, <2>12, <4>2, <5>1, <5>2
        <5>3. CASE row.code # c
          BY <2>7, <5>1, <5>3
        <5> QED BY <5>2, <5>3
      <4> QED BY <4>1, <4>2
    <3>6. mailed \subseteq mailed'
      BY <1>1
    <3>7. AccountInv'
      BY <2>1, <2>4, <2>5, <2>6, <2>8, <2>12, <3>2, <3>3, <3>4, <3>5, <3>6, AccountRule
    <3> QED BY <3>4, <3>7
  <2>13. users[u] \in UserRow /\ users = [users EXCEPT ![u] = users[u]] /\ 0 \in 0..MaxIds
    BY <2>1
  <2>14. CASE Exists(u) /\ users' = CountGuess(u) /\ UNCHANGED spent
    <3> DEFINE row == [users[u] EXCEPT !.tries = @ + 1]
    <3>1. /\ row \in UserRow /\ \A x \in Cols : row[x] = users[u][x]
          /\ row.verified = users[u].verified /\ row.pw = users[u].pw /\ row.code = users[u].code
          /\ row.tries = users[u].tries + 1
      BY <2>13 DEF UserRow, Cols
    <3>2. users' = [users EXCEPT ![u] = row]
      BY <2>1, <2>14 DEF CountGuess
    <3>3. Accepts(u) /\ spent' \in [Ids -> Nat]
      BY <2>1, <2>14 DEF Accepts
    <3>4. row.tries >= users[u].tries
      BY <2>1, <2>10, <3>1
    <3> HIDE DEF row
    <3> QED BY <2>12, <3>1, <3>2, <3>3, <3>4
  <2>15. CASE /\ Exists(u) /\ StillStored(users[u].code, c)
              /\ users' = [users EXCEPT ![u].phoneOk = TRUE, ![u].code = 0, ![u].tries = 0]
              /\ spent' = [spent EXCEPT ![c] = @ + 1]
    <3> DEFINE row == [users[u] EXCEPT !.phoneOk = TRUE, !.code = 0, !.tries = 0]
    <3>1. /\ row \in UserRow /\ \A x \in Cols : row[x] = users[u][x] \/ row[x] = 0
          /\ row.verified = users[u].verified /\ row.pw = users[u].pw /\ row.code = 0
      BY <2>13 DEF UserRow, Cols
    <3>2. users' = [users EXCEPT ![u] = row]
      BY <2>1, <2>15
    <3>3. users[u].code = c
      BY <2>15 DEF StillStored
    <3> HIDE DEF row
    <3>4. users'[u].code = 0
      BY <2>1, <3>1, <3>2
    <3>5. Accepts(u) /\ spent' \in [Ids -> Nat]
      <4>1. spent' \in [Ids -> Nat] /\ spent'[c] = spent[c] + 1 /\ \A i \in Ids : i # c => spent'[i] = spent[i]
        BY <2>1, <2>2, <2>15
      <4>2. \E x \in Cols : users[u][x] = c /\ users'[u][x] = 0
        BY <2>1, <3>3, <3>4
      <4> QED BY <4>1, <4>2 DEF Accepts
    <3> QED BY <2>12, <3>1, <3>2, <3>5
  <2>16. CASE users' = users /\ UNCHANGED spent /\ ~(Exists(u) /\ StillStored(users[u].code, c))
    <3>1. users[u].code # c
      <4>1. CASE Exists(u)
        BY <1>3, <2>16, <4>1 DEF StillStored
      <4>2. CASE ~Exists(u)
        BY <2>1, <2>2, <4>2 DEF Vacant
      <4> QED BY <4>1, <4>2
    <3>2. users' = [users EXCEPT ![u] = users[u]] /\ Accepts(u) /\ spent' \in [Ids -> Nat]
      BY <2>1, <2>16 DEF Accepts
    <3>3. users[u].tries >= users[u].tries
      BY <2>1, <2>10
    <3> QED BY <2>12, <2>13, <3>1, <3>2, <3>3
  <2>17. CASE ~Exists(u) /\ users' = users /\ UNCHANGED spent
    BY <2>16, <2>17
  <2> QED BY <1>3, <2>14, <2>15, <2>16, <2>17
<1> QED BY <1>2, <1>3 DEF verify_phone

LEMMA DeletePhoneKeeps ==
    ASSUME AccountInv, NEW r \in Requests, delete_phone_number(r)
    PROVE  AccountInv' /\ Lives
<1> DEFINE u == reqs[r].user
           l == reqs[r].row
           c == users[u].code
           f == [l EXCEPT !.phone = NoNumber, !.phoneOk = FALSE, !.code = 0, !.csent = 0, !.tries = 0]
<1>1. /\ UNCHANGED <<signedIn, mailed, spent, age, ids>> /\ Answer(r) /\ CommitRow(r, f)
      /\ guesses' = IF Exists(u) /\ l.tries # 0 /\ c # 0 THEN [guesses EXCEPT ![c] = 0] ELSE guesses
  BY DEF delete_phone_number
<1>2. /\ TypeOKAccount /\ Stored /\ Counted /\ Undrawn /\ Bounded /\ Unique
      /\ users \in [Users -> UserRow] /\ guesses \in [Ids -> Nat]
      /\ u \in Users /\ l \in UserRow /\ ids \in Nat /\ ids' = ids
      /\ 0 \in 0..MaxIds /\ "code" \in Cols
  BY <1>1, ReqFact, AccountParts DEF AccountInv, Cols
<1>3. /\ f \in UserRow /\ f.code = 0 /\ f.tries = 0 /\ f.verified = l.verified /\ f.pw = l.pw
      /\ \A x \in Cols : f[x] # l[x] => f[x] = 0
  BY <1>2 DEF UserRow, Cols
<1> HIDE DEF f
<1>4. \A x, y \in Cols : f[x] # l[x] /\ f[y] # l[y] /\ f[x] = ids + 1 /\ f[y] = ids + 1 => x = y
  <2>1. ids + 1 # 0
    BY <1>2
  <2>2. \A x \in Cols : f[x] # l[x] => f[x] # ids + 1
    BY <1>3, <2>1
  <2> QED BY <2>2
<1>5. users' \in [Users -> UserRow] /\ Writes(u) /\ Proven(u) /\ Vacated(u) /\ Lives
  BY <1>1, <1>2, <1>3, <1>4, CommitWrites
<1>6. /\ ~Exists(u) => users' = users
      /\ Exists(u) => /\ users'[u].code = IF l.code # 0 THEN 0 ELSE c
                      /\ users'[u].tries = IF l.tries # 0 THEN 0 ELSE users[u].tries
  <2>1. /\ ~Exists(u) => users' = users
        /\ Exists(u) => \A x \in Fields : users'[u][x] = IF f[x] # l[x] THEN f[x] ELSE users[u][x]
    BY <1>1, <1>2, <1>3, CommitRowFact
  <2>2. {"code", "tries"} \subseteq Fields
    BY DEF Fields
  <2> QED BY <1>3, <2>1, <2>2
<1>7. reqs' \in [Requests -> Request] /\ OneRequest(r) /\ reqs'[r] = Idle
  BY <1>1, <1>2, AnswerFact
<1>8. Proper(reqs[r])' /\ reqs'[r].op # "phone_verify"
  BY <1>2, <1>7, IdleProper
<1>9. \A v \in Users : users[v].code # 0 => users[v].code \in Ids
  BY <1>2, ColumnFact
<1>10. /\ guesses' \in [Ids -> Nat]
       /\ \A i \in Ids : guesses'[i] = guesses[i] \/ guesses'[i] = 0
       /\ Exists(u) /\ l.tries # 0 /\ c # 0 => guesses'[c] = 0
  BY <1>1, <1>2, <1>9
<1>11. TypeOKAccount'
  BY <1>1, <1>2, <1>5, <1>7, <1>10 DEF TypeOKAccount, Request
<1>12. \A i \in Ids : guesses[i] \in Nat /\ guesses'[i] \in Nat /\ guesses'[i] <= guesses[i]
  BY <1>2, <1>10
<1>13. \A i \in Ids : i > ids' => guesses'[i] = 0
  BY <1>2, <1>10 DEF Undrawn
<1>14. Counted'
  <2> SUFFICES ASSUME NEW v \in Users, users'[v].code # 0
               PROVE  guesses'[users'[v].code] <= users'[v].tries
    BY DEF Counted
  <2>1. users[v].code # 0 => /\ guesses'[users[v].code] <= users[v].tries
                             /\ users[v].tries \in Nat
    <3>1. users[v].tries \in Nat
      BY <1>2 DEF UserRow
    <3> QED BY <1>2, <1>9, <1>12, <3>1 DEF Counted
  <2>2. CASE users'[v] = users[v]
    BY <2>1, <2>2
  <2>3. CASE v = u /\ Exists(u)
    <3>1. users'[u].code = c /\ c # 0
      BY <1>6, <2>3
    <3>2. CASE l.tries # 0
      BY <1>6, <1>10, <2>3, <3>1, <3>2
    <3>3. CASE l.tries = 0
      BY <1>6, <2>1, <2>3, <3>1, <3>3
    <3> QED BY <3>2, <3>3
  <2> QED BY <1>5, <1>6, <2>2, <2>3 DEF Writes, OneRow
<1>15. Bounded'
  <2> SUFFICES ASSUME NEW i \in Ids
               PROVE  guesses'[i] + Cardinality(Pending(i)') <= MaxAttempts - 1 + Cardinality(Requests)
    BY DEF Bounded
  <2>1. Pending(i)' \subseteq Pending(i) /\ Pending(i) \subseteq Requests
    BY <1>7, <1>8 DEF Pending, OneRequest, attempts_exhausted
  <2>2. IsFiniteSet(Pending(i))
    BY <2>1, Requests_, FS_Subset
  <2>3. /\ Cardinality(Pending(i)') <= Cardinality(Pending(i))
        /\ Cardinality(Pending(i)) \in Nat /\ Cardinality(Pending(i)') \in Nat
    BY <2>1, <2>2, FS_Subset, FS_CardinalityType
  <2>4. guesses[i] + Cardinality(Pending(i)) <= MaxAttempts - 1 + Cardinality(Requests)
    BY <1>2 DEF Bounded
  <2> QED BY <1>12, <2>3, <2>4, Requests_
<1>16. Accepts(u) /\ mailed \subseteq mailed'
  BY <1>1 DEF Accepts
<1> HIDE DEF u
<1>17. AccountInv'
  BY <1>2, <1>5, <1>7, <1>8, <1>11, <1>13, <1>14, <1>15, <1>16, AccountRule
<1> QED BY <1>5, <1>17

LEMMA ServeAccountKeeps ==
    ASSUME AccountInv, NEW r \in Requests, ServeAccount(r)
    PROVE  AccountInv' /\ Lives
BY IssueVerificationKeeps, IssueResetKeeps, SendKeeps, VerifyKeeps, ResetKeeps, ProfileKeeps,
   PhoneKeeps, RequestPhoneKeeps, VerifyPhoneKeeps, DeletePhoneKeeps DEF ServeAccount

\* The steps that change no row and no request.
LEMMA SessionRule ==
    ASSUME AccountInv, TypeOKAccount', UNCHANGED <<users, reqs, mailed, spent, guesses, ids>>
    PROVE  AccountInv' /\ Lives
BY DEF AccountInv, Vacant, Stored, Unique, Undrawn, AcceptedOnce, AddressProven, Proper, Counted,
       Bounded, Pending, Lives, Exists, attempts_exhausted

LEMMA SessionKeeps ==
    ASSUME AccountInv,
           \/ \E u \in Users : \E typed : login_for_access_token(u, typed)
           \/ \E u \in Users : SessionEnds(u)
           \/ \E t \in Ids : Age(t)
           \/ UNCHANGED accountVars
    PROVE  AccountInv' /\ Lives
<1>1. TypeOKAccount
  BY DEF AccountInv
<1>2. CASE \E u \in Users : \E typed : login_for_access_token(u, typed)
  BY <1>1, <1>2, SessionRule DEF login_for_access_token, TypeOKAccount
<1>3. CASE \E u \in Users : SessionEnds(u)
  BY <1>1, <1>3, SessionRule DEF SessionEnds, TypeOKAccount
<1>4. CASE \E t \in Ids : Age(t)
  <2>1. age' \in [Ids -> 0..2]
    BY <1>1, <1>4 DEF Age, TypeOKAccount
  <2> QED BY <1>1, <1>4, <2>1, SessionRule DEF Age, TypeOKAccount
<1>5. CASE UNCHANGED accountVars
  BY <1>1, <1>5, SessionRule DEF accountVars, TypeOKAccount
<1> QED BY <1>2, <1>3, <1>4, <1>5

LEMMA AccountInit == Init => AccountInv
<1> SUFFICES ASSUME NEW s \in Scenarios, InitAccount(s.members, s.first) PROVE AccountInv
  BY DEF Init
<1> DEFINE first == s.first
<1>1. /\ s.members \subseteq Users /\ first \subseteq s.members \X Numbers
      /\ \A f, g \in first : f = g
  BY IdentityAssumption DEF IdentityAssumption
<1>2. /\ MaxIds \in Nat \ {0, 1} /\ Ids = 1..MaxIds /\ {1, 2} \subseteq Ids /\ {0, 1, 2} \subseteq 0..MaxIds
      /\ MaxAttempts \in Nat \ {0} /\ Cardinality(Requests) \in Nat
  BY AccountAssumption, Requests_ DEF AccountAssumption, Ids
<1>3. /\ ids \in {1, 2} /\ (first # {} => ids = 2)
  <2>3. ids = 1 + Cardinality(first)
    BY DEF InitAccount
  <2>1. CASE first = {}
    BY <2>1, <2>3, FS_EmptySet
  <2>2. CASE first # {}
    <3>1. PICK f \in first : TRUE
      BY <2>2
    <3>2. first = {f}
      BY <1>1, <3>1
    <3>3. Cardinality(first) = 1
      BY <3>2, FS_Singleton
    <3> QED BY <2>2, <2>3, <3>3
  <2> QED BY <2>1, <2>2
<1>4. ASSUME NEW u \in Users
      PROVE  /\ users[u] \in UserRow /\ users[u].vtok = 0 /\ users[u].rtok = 0
             /\ users[u].code = 0 \/ (users[u].code = 2 /\ \E f \in first : f[1] = u)
             /\ users[u].tries = 0 /\ users[u].verified = FALSE
             /\ users[u].pw = 0 => users[u].code = 0
  <2>1. NoRow \in UserRow
    BY IdleFact
  <2>2. CASE u \notin s.members
    <3>1. users[u] = NoRow
      BY <2>2 DEF InitAccount
    <3> QED BY <2>1, <3>1 DEF NoRow
  <2>3. CASE u \in s.members /\ ~\E f \in first : f[1] = u
    <3>1. users[u] = [NoRow EXCEPT !.pw = 1]
      BY <2>3 DEF InitAccount
    <3> QED BY <1>2, <2>1, <3>1 DEF NoRow, UserRow
  <2>4. CASE u \in s.members /\ \E f \in first : f[1] = u
    <3> DEFINE n == (CHOOSE f \in first : f[1] = u)[2]
    <3>1. users[u] = [NoRow EXCEPT !.pw = 1, !.code = 2, !.csent = 2, !.phone = n]
      BY <2>4 DEF InitAccount
    <3>2. n \in Numbers
      BY <1>1, <2>4
    <3> HIDE DEF n
    <3>3. users[u] \in UserRow
      BY <1>2, <2>1, <3>1, <3>2 DEF UserRow
    <3>4. /\ users[u].pw = 1 /\ users[u].code = 2 /\ users[u].vtok = 0 /\ users[u].rtok = 0
          /\ users[u].tries = 0 /\ users[u].verified = FALSE
      BY <3>1 DEF NoRow
    <3> QED BY <2>4, <3>3, <3>4
  <2> QED BY <2>2, <2>3, <2>4
<1>5. reqs = [r \in Requests |-> Idle] /\ Idle \in Request /\ Idle.op = "idle" /\ Idle.row.code = 0
  <2>1. reqs = [r \in Requests |-> Idle]
    BY DEF InitAccount
  <2>2. Idle \in Request /\ Idle.op = "idle" /\ Idle.row.code = 0
    BY IdleFact DEF NoRow
  <2> QED BY <2>1, <2>2
<1>6. TypeOKAccount
  <2>1. users \in [Users -> UserRow]
    <3>1. users = [u \in Users |-> users[u]]
      BY DEF InitAccount
    <3> QED BY <1>4, <3>1
  <2>2. reqs \in [Requests -> Request]
    BY <1>5
  <2>3. mailed \subseteq [user : Users, id : Ids, to : Numbers \cup {NoNumber}]
    <3> SUFFICES ASSUME NEW f \in first
                 PROVE  [user |-> f[1], id |-> 2, to |-> f[2]] \in [user : Users, id : Ids, to : Numbers \cup {NoNumber}]
      BY DEF InitAccount
    <3>1. f[1] \in Users /\ f[2] \in Numbers /\ 2 \in Ids
      BY <1>1, <1>2
    <3> QED BY <3>1
  <2>4. signedIn \subseteq Users /\ spent \in [Ids -> Nat] /\ guesses \in [Ids -> Nat] /\ age \in [Ids -> 0..2]
    <3>1. /\ signedIn = s.members /\ spent = [i \in Ids |-> 0] /\ guesses = [i \in Ids |-> 0]
          /\ age = [i \in Ids |-> 0]
      BY DEF InitAccount
    <3> QED BY <1>1, <3>1
  <2>5. ids \in 0..MaxIds
    BY <1>2, <1>3
  <2> QED BY <2>1, <2>2, <2>3, <2>4, <2>5 DEF TypeOKAccount, Request
<1>7. \A i \in Ids : spent[i] = 0 /\ guesses[i] = 0
  BY DEF InitAccount
<1>8. \A u \in Users, c \in Cols : users[u][c] = 0 \/ (users[u][c] = 2 /\ c = "code" /\ \E f \in first : f[1] = u)
  BY <1>4 DEF Cols
<1>9. Stored /\ Undrawn /\ AcceptedOnce
  <2>1. \A u \in Users, c \in Cols : users[u][c] <= ids
    BY <1>3, <1>8
  <2>2. \A u \in Users, c \in Cols : users[u][c] # 0 => users[u][c] \in Ids
    BY <1>2, <1>8
  <2> QED BY <1>7, <2>1, <2>2 DEF Stored, Undrawn, AcceptedOnce
<1>10. Unique
  <2> SUFFICES ASSUME NEW u \in Users, NEW v \in Users, NEW c \in Cols, NEW d \in Cols,
                      users[u][c] = users[v][d], users[u][c] # 0
               PROVE  u = v /\ c = d
    BY DEF Unique
  <2>1. c = "code" /\ d = "code"
    BY <1>8
  <2>2. PICK f \in first : f[1] = u
    BY <1>8
  <2>3. PICK g \in first : g[1] = v
    BY <1>8
  <2>4. f = g
    BY <1>1
  <2> QED BY <2>1, <2>2, <2>3, <2>4
<1>11. Vacant /\ AddressProven
  BY <1>4 DEF Vacant, AddressProven, Exists
<1>12. \A r \in Requests : Proper(reqs[r])
  <2>1. Idle.op \notin Sends \cup {"verify", "reset"}
    BY <1>5 DEF Sends
  <2> QED BY <1>3, <1>5, <2>1 DEF Proper
<1>13. Counted
  <2>1. \A u \in Users : users[u].code # 0 => users[u].code \in Ids
    BY <1>2, <1>4
  <2>2. \A u \in Users : users[u].tries = 0
    BY <1>4
  <2>3. \A u \in Users : users[u].code # 0 => guesses[users[u].code] = 0
    BY <1>7, <2>1
  <2> QED BY <2>2, <2>3 DEF Counted
<1>14. Bounded
  <2> SUFFICES ASSUME NEW i \in Ids
               PROVE  guesses[i] + Cardinality(Pending(i)) <= MaxAttempts - 1 + Cardinality(Requests)
    BY DEF Bounded
  <2>1. Pending(i) = {}
    BY <1>5 DEF Pending
  <2>2. Cardinality(Pending(i)) = 0
    BY <2>1, FS_EmptySet
  <2> QED BY <1>2, <1>7, <2>2
<1> QED BY <1>6, <1>9, <1>10, <1>11, <1>12, <1>13, <1>14 DEF AccountInv

LEMMA AccountNext ==
    ASSUME AccountInv, [Next]_vars
    PROVE  /\ AccountInv'
           /\ Lives \/ \E r \in Requests : AccountDeleted(r)
<1>1. ASSUME NEW r \in Requests, AccountArrives(r) PROVE AccountInv' /\ Lives
  BY <1>1, ArriveAccountKeeps DEF AccountArrives
<1>2. ASSUME NEW r \in Requests, AccountServed(r) PROVE AccountInv' /\ Lives
  BY <1>2, ServeAccountKeeps DEF AccountServed
<1>3. ASSUME NEW r \in Requests, MessageLost(r) PROVE AccountInv' /\ Lives
  BY <1>3, AnswerOnly DEF MessageLost, SendFails
<1>4. ASSUME NEW r \in Requests, AccountDeleted(r) PROVE AccountInv'
  BY <1>4, DeleteAccountKeeps DEF AccountDeleted
<1>5. ASSUME NEW u \in Users, SignIn(u) \/ SignedOut(u) PROVE AccountInv' /\ Lives
  BY <1>5, SessionKeeps DEF SignIn, SignedOut
<1>6. ASSUME NEW t \in Ids, AccountAges(t) PROVE AccountInv' /\ Lives
  BY <1>6, SessionKeeps DEF AccountAges
<1>7. CASE UNCHANGED accountVars
  BY <1>7, SessionKeeps
<1> QED
  BY <1>1, <1>2, <1>3, <1>4, <1>5, <1>6, <1>7
  DEF Next, vars, UserConnects, ClientPresents, AccessServed, HandlerDies, UserKeys,
      ClientRevokes, AccessExpires, ClientRegisters

------------------------------------------------------------------------------
(* Access ends with the account *)

\* Consents and keys belong to accounts that exist; a handler that manages a
\* connection loaded a row that was there.
Manages == {"pause", "resume", "revoke", "edit"}
Loaded(k) == k.op \in Manages => k.row.status # "NONE"
Owned ==
    /\ \A p \in Pairs : grants[p].status # "NONE" => Exists(p[1])
    /\ \A u \in Holders : keys[u] = "ACTIVE" => Exists(u)
OwnedInv == Owned /\ \A h \in Handlers : Loaded(calls[h])

LEMMA PairFact ==
    ASSUME NEW p \in Pairs
    PROVE  p[1] \in Holders /\ p[1] \in Users
BY IdentityAssumption DEF IdentityAssumption, Pairs

\* A commit touches a consent that is there, or one of an account that is.
LEMMA CommitOwned ==
    ASSUME Owned, AccessInv, NEW p \in Pairs, NEW loaded, NEW changed,
           CommitGrant(p, loaded, changed), loaded.status # "NONE" \/ Exists(p[1]),
           UNCHANGED <<users, keys>>
    PROVE  Owned'
<1>1. \A q \in Pairs : q # p => grants'[q] = grants[q]
  BY AccessParts DEF CommitGrant
<1>2. grants'[p] = grants[p] \/ Exists(p[1])
  BY AccessParts DEF CommitGrant, Vanished, Owned
<1> QED BY <1>1, <1>2 DEF Owned, Exists

\* What the calls of a step go on with.
Onward == {"idle", "reread", "code", "issue", "second", "rotate", "kill", "killed"}
LEMMA ServeCalls ==
    ASSUME AccessInv, NEW h \in Handlers, ServeAccess(h, Exists)
    PROVE  OneCall(h) /\ calls'[h].op \in Onward
<1>1. CASE Leave(h)
  BY <1>1, LeaveFact, RestedFact DEF Onward
<1>2. ASSUME NEW op \in Onward, Next_(h, op) PROVE OneCall(h) /\ calls'[h].op \in Onward
  BY <1>2, OnFact DEF Onward, CallOps
<1>3. ASSUME NEW s, calls' = [calls EXCEPT ![h].op = "issue", ![h].scopes = s]
      PROVE  OneCall(h) /\ calls'[h].op \in Onward
  BY <1>3, AccessParts DEF OneCall, Onward, Call
<1>4. {"reread", "code", "issue", "rotate", "kill", "killed"} \subseteq Onward
  BY DEF Onward
<1>5. CASE upsert_grant(h, Exists(calls[h].of[1]))
  BY <1>1, <1>2, <1>4, <1>5 DEF upsert_grant
<1>6. CASE save_code(h) \/ issue_refresh(h) \/ set_grant_status(h) \/ answer_revoked(h)
  BY <1>1, <1>6 DEF save_code, issue_refresh, set_grant_status, answer_revoked
<1>7. CASE redeem_grant(h)
  BY <1>1, <1>3, <1>7 DEF redeem_grant
<1>8. CASE refresh_grant(h) \/ rotate(h)
  BY <1>1, <1>2, <1>4, <1>8 DEF refresh_grant, rotate
<1>9. CASE revoke_grant(h) \/ revoke_tokens_for_grant(h)
  BY <1>1, <1>2, <1>4, <1>9 DEF revoke_grant, revoke_tokens_for_grant
<1>10. CASE \E b \in BOOLEAN : update_connected_app(h, b)
  BY <1>1, <1>10 DEF update_connected_app
<1>11. CASE reread_grant(h)
  BY <1>1, <1>2, <1>4, <1>11 DEF reread_grant
<1>12. CASE issue(h)
  <2>1. calls' = [calls EXCEPT ![h].op = "second", ![h].from = count']
    BY <1>12 DEF issue
  <2> QED BY <2>1, AccessParts DEF OneCall, Onward, Call
<1> QED BY <1>5, <1>6, <1>7, <1>8, <1>9, <1>10, <1>11, <1>12 DEF ServeAccess

LEMMA ServeOwned ==
    ASSUME OwnedInv, AccessInv, NEW h \in Handlers, ServeAccess(h, Exists), UNCHANGED accountVars
    PROVE  OwnedInv'
<1> DEFINE k == calls[h]
<1>1. \A g \in Handlers : Loaded(calls[g])'
  BY ServeCalls DEF OwnedInv, OneCall, Loaded, Onward, Manages
<1>2. Owned /\ users' = users /\ keys' = keys /\ k.of \in Pairs /\ Loaded(k)
  <2>1. keys' = keys
    BY DEF ServeAccess, upsert_grant, reread_grant, save_code, redeem_grant, refresh_grant, rotate, issue,
           issue_refresh,
           set_grant_status, revoke_grant, revoke_tokens_for_grant, answer_revoked, update_connected_app
  <2> QED BY <2>1, CallFact DEF OwnedInv, accountVars
<1>3. ASSUME grants' = grants PROVE Owned'
  BY <1>2, <1>3 DEF Owned, Exists
<1>4. ASSUME NEW changed, CommitGrant(k.of, k.row, changed),
             k.row.status # "NONE" \/ Exists(k.of[1])
      PROVE  Owned'
  BY <1>2, <1>4, CommitOwned
<1>5. ASSUME upsert_grant(h, Exists(k.of[1])) PROVE Owned'
  BY <1>3, <1>4, <1>5 DEF upsert_grant
<1>6. ASSUME \/ save_code(h) \/ redeem_grant(h) \/ refresh_grant(h) \/ rotate(h) \/ issue(h)
             \/ reread_grant(h) \/ issue_refresh(h) \/ revoke_tokens_for_grant(h) \/ answer_revoked(h)
      PROVE  Owned'
  BY <1>3, <1>6 DEF save_code, redeem_grant, refresh_grant, rotate, issue, reread_grant, issue_refresh,
               revoke_tokens_for_grant, answer_revoked
<1>7. ASSUME set_grant_status(h) PROVE Owned'
  BY <1>2, <1>3, <1>4, <1>7 DEF set_grant_status, Loaded, Manages
<1>8. ASSUME revoke_grant(h) PROVE Owned'
  BY <1>2, <1>4, <1>8 DEF revoke_grant, Loaded, Manages
<1>9. ASSUME \E b \in BOOLEAN : update_connected_app(h, b) PROVE Owned'
  BY <1>2, <1>3, <1>4, <1>9 DEF update_connected_app, update_grant_binding, Loaded, Manages
<1>10. Owned'
  BY <1>5, <1>6, <1>7, <1>8, <1>9 DEF ServeAccess
<1> QED BY <1>1, <1>10 DEF OwnedInv

\* A step that leaves consents and keys alone and deletes no account.
LEMMA OwnedRule ==
    ASSUME OwnedInv, Lives, UNCHANGED <<grants, keys>>, \A h \in Handlers : Loaded(calls[h])'
    PROVE  OwnedInv'
BY PairFact, IdentityAssumption DEF OwnedInv, Owned, Lives, IdentityAssumption

LEMMA EnterLoaded ==
    ASSUME OwnedInv, AccessInv, NEW h \in Handlers, NEW op, NEW p \in Pairs, NEW s, NEW from,
           Enter(h, op, p, s, from), op \in Manages => grants[p].status # "NONE"
    PROVE  \A g \in Handlers : Loaded(calls[g])'
BY AccessParts DEF Enter, Loaded, OwnedInv

LEMMA OwnedNext ==
    ASSUME OwnedInv, AccessInv, AccountInv, [Next]_vars
    PROVE  OwnedInv'
<1>1. UNCHANGED accountVars => Lives
  BY DEF accountVars, Lives, Exists
<1>2. calls' = calls => \A h \in Handlers : Loaded(calls[h])'
  BY DEF OwnedInv, Loaded
<1>3. ASSUME NEW r \in Requests, AccountDeleted(r) PROVE OwnedInv'
  <2> DEFINE u == reqs[r].user
  <2>1. /\ calls' = calls /\ \A v \in Holders : keys'[v] = IF v = u THEN "none" ELSE keys[v]
        /\ \A p \in Pairs : p[1] = u => grants'[p].status = "NONE"
        /\ \A p \in Pairs : p[1] # u => grants'[p] = grants[p]
    BY <1>3 DEF AccountDeleted, OwnedRowDeletes
  <2>2. \A v \in Users : v # u => (Exists(v) => Exists(v)')
    BY <1>3, DeleteAccountKeeps DEF AccountDeleted
  <2> QED BY <1>2, <2>1, <2>2, PairFact, IdentityAssumption DEF OwnedInv, Owned, IdentityAssumption
<1>4. ASSUME NEW h \in Handlers, UserConnects(h) PROVE OwnedInv'
  <2>1. PICK u \in Holders : ArriveAccess(h, u)
    BY <1>4 DEF UserConnects
  <2>2. \A c \in Clients : <<u, c>> \in Pairs
    BY DEF Pairs
  <2>3. UNCHANGED <<grants, keys>>
    BY <2>1 DEF ArriveAccess, approve_consent_request, manage_connection
  <2>4. \A g \in Handlers : Loaded(calls[g])'
    <3>1. ASSUME NEW c \in Clients, NEW a \in SUBSET Scopes, NEW q \in SUBSET Scopes,
                 approve_consent_request(h, <<u, c>>, q, a)
          PROVE  \A g \in Handlers : Loaded(calls[g])'
      BY <2>2, <3>1, EnterLoaded DEF approve_consent_request, approve, Manages
    <3>2. ASSUME NEW c \in Clients, NEW op, NEW s, manage_connection(h, <<u, c>>, op, s)
          PROVE  \A g \in Handlers : Loaded(calls[g])'
      BY <2>2, <3>2, EnterLoaded DEF manage_connection
    <3> QED BY <2>1, <3>1, <3>2 DEF ArriveAccess
  <2> QED BY <1>1, <1>4, <2>3, <2>4, OwnedRule DEF UserConnects
<1>5. ASSUME NEW h \in Handlers, ClientPresents(h) PROVE OwnedInv'
  <2>1. UNCHANGED <<grants, keys>>
    BY <1>5 DEF ClientPresents, Present, take_code, present_refresh
  <2>2. \A g \in Handlers : Loaded(calls[g])'
    <3>1. \A i \in Saved : saved[i].of \in Pairs
      BY AccessParts DEF SavedRow
    <3> QED BY <1>5, <3>1, EnterLoaded DEF ClientPresents, Present, take_code, present_refresh, Manages
  <2> QED BY <1>1, <1>5, <2>1, <2>2, OwnedRule DEF ClientPresents
<1>6. ASSUME NEW h \in Handlers, AccessServed(h) PROVE OwnedInv'
  BY <1>6, ServeOwned DEF AccessServed
<1>7. ASSUME NEW h \in Handlers, HandlerDies(h) PROVE OwnedInv'
  <2>1. UNCHANGED <<grants, keys>> /\ Leave(h)
    BY <1>7 DEF HandlerDies, DropCall
  <2>2. \A g \in Handlers : Loaded(calls[g])'
    BY <2>1, LeaveFact, RestedFact DEF OneCall, Loaded, OwnedInv, Manages
  <2> QED BY <1>1, <1>7, <2>1, <2>2, OwnedRule DEF HandlerDies
<1>8. CASE UserKeys
  <2>1. /\ grants' = grants /\ calls' = calls /\ users' = users
        /\ \E u \in Holders : Exists(u) /\ \A v \in Holders : v # u => keys'[v] = keys[v]
    BY <1>8, AccessParts DEF UserKeys, Authenticated, create_api_key, revoke_api_key, TypeOKAccess, accountVars
  <2> QED BY <1>2, <2>1 DEF OwnedInv, Owned, Exists
<1>9. CASE ClientRevokes \/ AccessExpires \/ \E c \in Clients : ClientRegisters(c)
  BY <1>1, <1>2, <1>9, OwnedRule
  DEF ClientRevokes, AccessExpires, ClientRegisters, revoke_token, ExpireSaved, register_client
<1>10. CASE UNCHANGED accessVars /\ Lives
  BY <1>2, <1>10, OwnedRule DEF accessVars
<1>11. ASSUME NEW r \in Requests, AccountArrives(r) \/ AccountServed(r) \/ MessageLost(r)
       PROVE  OwnedInv'
  <2>1. Lives
    BY <1>11, ArriveAccountKeeps, ServeAccountKeeps, AnswerOnly
    DEF AccountArrives, AccountServed, MessageLost, SendFails
  <2> QED BY <1>10, <1>11, <2>1 DEF AccountArrives, AccountServed, MessageLost
<1>12. ASSUME NEW u \in Users, SignIn(u) \/ SignedOut(u) PROVE OwnedInv'
  BY <1>10, <1>12, SessionKeeps DEF SignIn, SignedOut
<1>13. ASSUME NEW t \in Ids, AccountAges(t) PROVE OwnedInv'
  BY <1>10, <1>13, SessionKeeps DEF AccountAges
<1>14. CASE UNCHANGED vars
  BY <1>1, <1>10, <1>14 DEF vars
<1> QED
  BY <1>3, <1>4, <1>5, <1>6, <1>7, <1>8, <1>9, <1>11, <1>12, <1>13, <1>14 DEF Next

LEMMA OwnedInit == Init => OwnedInv
BY RestedFact DEF Init, InitAccess, OwnedInv, Owned, Loaded, Manages

LEMMA LeftFact == Spec => [](DOMAIN left = {"account", "access", "fault"})
<1>1. Init => DOMAIN left = {"account", "access", "fault"}
  BY IdentityAssumption DEF Init, IdentityAssumption
<1>2. ASSUME DOMAIN left = {"account", "access", "fault"}, [Next]_vars
      PROVE  (DOMAIN left = {"account", "access", "fault"})'
  <2>1. CASE left' = left
    BY <1>2, <2>1
  <2>2. CASE \E what : Spend(what)
    BY <1>2, <2>2 DEF Spend
  <2> QED
    BY <1>2, <2>1, <2>2
    DEF Next, vars, AccountArrives, AccountServed, MessageLost, AccountDeleted, SignIn, SignedOut,
        AccountAges, UserConnects, ClientPresents, AccessServed, HandlerDies, UserKeys,
        ClientRevokes, AccessExpires, ClientRegisters, Quiet
<1> QED BY <1>1, <1>2, PTL DEF Spec

(* When a revocation is answered every token that was live when it began   *)
(* is dead, and whatever still acts for a user, a usable token or an API   *)
(* key, acts for an account that exists: nothing that was in flight while  *)
(* the account was deleted brings access back (revoke_connection,          *)
(* delete_account).                                                        *)
THEOREM AccessEndsTheorem == Spec => []AccessEnds
<1> DEFINE I == OwnedInv /\ AccessInv /\ AccountInv
<1>1. Init => I
  BY OwnedInit, AccessInit, AccountInit
<1>2. I /\ [Next]_vars => I'
  BY OwnedNext, AccessNext, AccountNext
<1>3. I => AccessEnds
  <2> SUFFICES ASSUME I PROVE AccessEnds
    OBVIOUS
  <2>1. RevocationComplete
    BY DEF AccessInv, Answered, RevocationComplete
  <2>2. ASSUME NEW i \in Saved, load_access_token(i) PROVE Exists(saved[i].of[1])
    <3>1. saved[i].of \in Pairs
      BY AccessParts DEF SavedRow
    <3>2. grants[saved[i].of].status = "ACTIVE"
      BY <2>2 DEF load_access_token, is_active
    <3> QED BY <3>1, <3>2 DEF OwnedInv, Owned
  <2>3. \A u \in Holders : authenticate(u) => Exists(u)
    BY DEF authenticate, OwnedInv, Owned
  <2> QED BY <2>1, <2>2, <2>3 DEF AccessEnds, NoOrphanAccess
<1> QED BY <1>1, <1>2, <1>3, PTL DEF Spec

(* An emailed link and a phone code are accepted at most once and a code   *)
(* stands at most the budget of guesses plus the requests already in       *)
(* flight, whatever clicks, guesses, re-issues, deletions and stale        *)
(* commits interleave (verify_email, reset_password, verify_phone), for    *)
(* any number of users and requests.                                       *)
THEOREM CodesHonestTheorem == Spec => []CodesHonest
<1> DEFINE I == AccessInv /\ AccountInv
<1>1. Init => I
  BY AccessInit, AccountInit
<1>2. I /\ [Next]_vars => I'
  BY AccessNext, AccountNext
<1>3. I => TypeOKAccount /\ TypeOKAccess /\ AcceptedOnce /\ GuessBound
  <2> SUFFICES ASSUME I PROVE GuessBound
    BY DEF AccessInv, AccountInv
  <2> SUFFICES ASSUME NEW i \in Ids PROVE guesses[i] < MaxAttempts + Cardinality(Requests)
    BY DEF GuessBound
  <2>1. guesses[i] \in Nat /\ guesses[i] + Cardinality(Pending(i)) <= MaxAttempts - 1 + Cardinality(Requests)
    BY AccountParts DEF AccountInv, Bounded
  <2>2. Cardinality(Pending(i)) \in Nat
    <3>1. Pending(i) \subseteq Requests
      BY DEF Pending
    <3> QED BY <3>1, Requests_, FS_Subset, FS_CardinalityType
  <2> QED BY <2>1, <2>2, Requests_
<1>4. TypeOKAccount /\ TypeOKAccess /\ AcceptedOnce /\ GuessBound
      /\ DOMAIN left = {"account", "access", "fault"} => CodesHonest
  BY DEF CodesHonest, TypeOK
<1> QED BY <1>1, <1>2, <1>3, <1>4, LeftFact, PTL DEF Spec

(* An address is verified only by a link that was mailed to it for this    *)
(* very registration and accepted; no code of a phone counts, and no stale *)
(* commit of another handler sets or brings back the flag (verify_email,   *)
(* reset_password, Flush).                                                 *)
THEOREM AddressProvenTheorem == Spec => []AddressProven
<1>1. AccountInv /\ [Next]_vars => AccountInv'
  BY AccountNext
<1>2. AccountInv => AddressProven
  BY DEF AccountInv
<1> QED BY AccountInit, <1>1, <1>2, PTL DEF Spec
==============================================================================
