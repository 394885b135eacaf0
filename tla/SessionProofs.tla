---------------------------- MODULE SessionProofs ----------------------------
(***************************************************************************)
(* Proofs about the parts of a session, for every bound: its conversation  *)
(* (Conversation), its beginning (SessionStart), its credentials           *)
(* (Credential), its searches (WebCache), the prices of its orders         *)
(* (PricePlan) and what is told of it (Notices); and that MCSession keeps  *)
(* what each of them promises.                                             *)
(***************************************************************************)
EXTENDS MCSession, SumLemmas, ToolCallsProofs

-----------------------------------------------------------------------------
(* The credentials, for any number of ticks and of token pairs: the        *)
(* inductive invariant.                                                    *)

\* Pairs are named in the order they are issued, so nothing names one not issued yet.
Issued ==
  /\ \A i \in 1..Len(rows) : rows[i] <= issued
  /\ \A n \in dead : n <= issued
  /\ \A t \in Ticks : held[t] <= issued /\ got[t] <= issued

\* A tick has a pair to present before it presents one, and a pair to save before it saves one.
InHand ==
  /\ \A t \in Ticks : at[t] = "idle" => held[t] = 0
  /\ \A t \in Ticks : at[t] \in {"idle", "refreshing"} => got[t] = 0
  /\ \A t \in Ticks : at[t] \in {"refreshing", "presented", "saving"} => held[t] # 0
  /\ \A t \in Ticks : at[t] = "saving" => got[t] # 0

\* Between the exchange and the insert, only the tick that obtained the pair knows it.
Unsaved(t) == at[t] \in {"presented", "saving"} /\ got[t] # 0

Private ==
  /\ \A t, q \in Ticks : t # q /\ got[t] = got[q] => got[t] = 0
  /\ \A t \in Ticks : Unsaved(t) =>
       /\ got[t] \notin dead
       /\ \A q \in Ticks : held[q] # got[t]
       /\ \A i \in 1..Len(rows) : rows[i] # got[t]

\* A tick that holds pair n and will report it, unless it ends first.
Answers(t, n) ==
  /\ held[t] = n
  /\ at[t] \in {"presented", "saving"}
     \/ (at[t] = "resolved" /\ resolution[t] \in {"refresh_failed", "persist_failed"})

Accounted == Latest \in reported \cup abandoned \/ \E t \in Ticks : Answers(t, Latest)

LossAnswered == rows # <<>> /\ Latest \in dead => Accounted

CredInv == CredTypeOK /\ Issued /\ InHand /\ Private /\ LossAnswered

----------------------------------------------------------------------------
(* Lemmas                                                                  *)

\* Storing a pair makes it the latest and leaves the earlier rows as they are.
LEMMA RowAppended ==
  ASSUME rows \in Seq(Pairs), NEW n \in Pairs, rows' = Append(rows, n)
  PROVE  /\ rows' \in Seq(Pairs) /\ rows' # <<>>
         /\ Len(rows') = Len(rows) + 1
         /\ Latest' = n
         /\ \A i \in 1..Len(rows) : rows'[i] = rows[i]
         /\ rows'[Len(rows) + 1] = n
BY DEF Latest

\* The latest pair is one of the rows.
LEMMA LatestIsRow ==
  ASSUME rows \in Seq(Pairs), rows # <<>>
  PROVE  /\ Len(rows) \in 1..Len(rows)
         /\ Latest = rows[Len(rows)] /\ Latest \in Pairs
BY CredAssumption DEF Latest, Pairs

\* A tick that resolves ends its work with that status; the other ticks are where they were.
LEMMA ResolvesType ==
  ASSUME CredTypeOK, NEW t \in Ticks, NEW st \in STRING, Resolves(t, st),
         st \in {"stored", "refreshed", "missing", "undecryptable", "refresh_failed",
                 "persist_failed"}
  PROVE  /\ at' \in [Ticks -> {"idle", "refreshing", "presented", "saving", "resolved", "over"}]
         /\ resolution' \in [Ticks -> {"none", "stored", "refreshed", "missing", "undecryptable",
                                       "refresh_failed", "persist_failed"}]
         /\ at'[t] = "resolved" /\ resolution'[t] = st
         /\ \A q \in Ticks \ {t} : at'[q] = at[q] /\ resolution'[q] = resolution[q]
BY DEF Resolves, CredTypeOK

----------------------------------------------------------------------------
(* Types                                                                   *)

\* The state begins typed.
LEMMA InitType == CredInit => CredTypeOK
BY CredAssumption DEF CredInit, CredTypeOK, Pairs

\* Every step keeps the types.
LEMMA TypeStep ==
  ASSUME CredInv, [CredNext]_credVars
  PROVE  CredTypeOK'
<1> USE CredAssumption
<1> USE DEF CredInv
<1>1. CASE UNCHANGED credVars
  BY <1>1 DEF CredTypeOK, credVars
<1>2. CASE SeedCredential
  <2>1. issued' \in 0..MaxPairs /\ issued' \in Pairs
    BY <1>2 DEF SeedCredential, CredTypeOK, Pairs
  <2>2. rows' \in Seq(Pairs)
    BY <1>2, <2>1, RowAppended DEF SeedCredential, CredTypeOK
  <2> QED BY <1>2, <2>1, <2>2 DEF SeedCredential, CredTypeOK
<1>3. CASE AccessTokenAges
  <2>1. nearEnd' \subseteq Pairs
    BY <1>3 DEF AccessTokenAges, CredTypeOK, Pairs
  <2> QED BY <1>3, <2>1 DEF AccessTokenAges, CredTypeOK
<1>4. ASSUME NEW t \in Ticks, LoadCredential(t) PROVE CredTypeOK'
  <2>1. linked' \subseteq Ticks
    BY <1>4 DEF LoadCredential, CredTypeOK
  <2>2. held' \in [Ticks -> 0..MaxPairs]
    <3>1. CASE rows = <<>>
      BY <1>4, <3>1 DEF LoadCredential, CredTypeOK
    <3>2. CASE rows # <<>>
      <4>1. Latest \in 0..MaxPairs
        BY <3>2, LatestIsRow DEF CredTypeOK, Pairs
      <4> QED BY <1>4, <3>2, <4>1 DEF LoadCredential, CredTypeOK
    <3> QED BY <3>1, <3>2
  <2>3. /\ at' \in [Ticks -> {"idle", "refreshing", "presented", "saving", "resolved", "over"}]
        /\ resolution' \in [Ticks -> {"none", "stored", "refreshed", "missing", "undecryptable",
                                      "refresh_failed", "persist_failed"}]
    BY <1>4 DEF LoadCredential, Resolves, CredTypeOK
  <2> QED BY <1>4, <2>1, <2>2, <2>3 DEF LoadCredential, CredTypeOK
<1>5. ASSUME NEW t \in Ticks, DiscoveryFails(t) PROVE CredTypeOK'
  <2>1. /\ at' \in [Ticks -> {"idle", "refreshing", "presented", "saving", "resolved", "over"}]
        /\ resolution' \in [Ticks -> {"none", "stored", "refreshed", "missing", "undecryptable",
                                      "refresh_failed", "persist_failed"}]
    BY <1>5 DEF DiscoveryFails, Resolves, CredTypeOK
  <2> QED BY <1>5, <2>1 DEF DiscoveryFails, CredTypeOK
<1>6. ASSUME NEW t \in Ticks, PresentToken(t) PROVE CredTypeOK'
  <2>1. held[t] \in Pairs
    BY <1>6 DEF PresentToken, CredTypeOK, InHand, Pairs
  <2>2. issued' \in 0..MaxPairs /\ got' \in [Ticks -> 0..MaxPairs]
    BY <1>6 DEF PresentToken, CredTypeOK
  <2>3. dead' \subseteq Pairs
    BY <1>6, <2>1 DEF PresentToken, CredTypeOK
  <2>4. /\ presented' \in [Pairs -> Nat]
        /\ at' \in [Ticks -> {"idle", "refreshing", "presented", "saving", "resolved", "over"}]
    BY <1>6, <2>1 DEF PresentToken, CredTypeOK
  <2> QED BY <1>6, <2>2, <2>3, <2>4 DEF PresentToken, CredTypeOK
<1>7. ASSUME NEW t \in Ticks, TokenReply(t) PROVE CredTypeOK'
  <2>1. got' \in [Ticks -> 0..MaxPairs]
    <3>1. 0 \in 0..MaxPairs
      OBVIOUS
    <3>2. got' = got \/ got' = [got EXCEPT ![t] = 0]
      BY <1>7 DEF TokenReply
    <3> QED BY <3>1, <3>2 DEF CredTypeOK
  <2>2. /\ at' \in [Ticks -> {"idle", "refreshing", "presented", "saving", "resolved", "over"}]
        /\ resolution' \in [Ticks -> {"none", "stored", "refreshed", "missing", "undecryptable",
                                      "refresh_failed", "persist_failed"}]
    BY <1>7 DEF TokenReply, Resolves, CredTypeOK
  <2> QED BY <1>7, <2>1, <2>2 DEF TokenReply, CredTypeOK
<1>8. ASSUME NEW t \in Ticks, SavePair(t) PROVE CredTypeOK'
  <2>1. got[t] \in Pairs
    BY <1>8 DEF SavePair, CredTypeOK, InHand, Pairs
  <2>2. rows' \in Seq(Pairs)
    BY <1>8, <2>1, RowAppended DEF SavePair, CredTypeOK
  <2>3. /\ at' \in [Ticks -> {"idle", "refreshing", "presented", "saving", "resolved", "over"}]
        /\ resolution' \in [Ticks -> {"none", "stored", "refreshed", "missing", "undecryptable",
                                      "refresh_failed", "persist_failed"}]
    BY <1>8 DEF SavePair, SaveFails, Resolves, CredTypeOK
  <2> QED BY <1>8, <2>2, <2>3 DEF SavePair, CredTypeOK
<1>9. ASSUME NEW t \in Ticks, EndTick(t) PROVE CredTypeOK'
  <2>1. reported' \subseteq 0..MaxPairs /\ linked' \subseteq Ticks
    BY <1>9 DEF EndTick, CredTypeOK
  <2>2. at' \in [Ticks -> {"idle", "refreshing", "presented", "saving", "resolved", "over"}]
    BY <1>9 DEF EndTick, CredTypeOK
  <2> QED BY <1>9, <2>1, <2>2 DEF EndTick, CredTypeOK
<1>10. ASSUME NEW t \in Ticks, LinkLost(t) PROVE CredTypeOK'
  BY <1>10 DEF LinkLost, CredTypeOK
<1>11. ASSUME NEW t \in Ticks, TickCrash(t) \/ EndsUntold(t) PROVE CredTypeOK'
  <2>1. abandoned' \subseteq Pairs
    BY <1>11 DEF TickCrash, EndsUntold, CredTypeOK
  <2>2. at' \in [Ticks -> {"idle", "refreshing", "presented", "saving", "resolved", "over"}]
    BY <1>11 DEF TickCrash, EndsUntold, CredTypeOK
  <2> QED BY <1>11, <2>1, <2>2 DEF TickCrash, EndsUntold, CredTypeOK
<1> QED BY <1>1, <1>2, <1>3, <1>4, <1>5, <1>6, <1>7, <1>8, <1>9, <1>10, <1>11 DEF CredNext

----------------------------------------------------------------------------
(* What is issued, and what each tick has in hand                          *)

\* No step names a pair that has not been issued.
LEMMA IssuedStep ==
  ASSUME CredInv, [CredNext]_credVars
  PROVE  Issued'
<1> USE CredAssumption
<1>0. CredTypeOK'
  BY TypeStep
<1>1. CASE UNCHANGED <<rows, issued, dead, held, got>>
  BY <1>1 DEF CredInv, Issued
<1>2. CASE SeedCredential
  <2>1. issued' = issued + 1 /\ issued \in Nat /\ issued' \in Pairs
    BY <1>2 DEF SeedCredential, CredInv, CredTypeOK, Pairs
  <2>2. \A i \in 1..Len(rows') : rows'[i] <= issued'
    <3>1. /\ Len(rows') = Len(rows) + 1 /\ Len(rows) \in Nat
          /\ \A i \in 1..Len(rows) : rows'[i] = rows[i]
          /\ rows'[Len(rows) + 1] = issued'
      BY <1>2, <2>1, RowAppended DEF SeedCredential, CredInv, CredTypeOK
    <3>2. \A i \in 1..Len(rows) : rows[i] \in Nat /\ rows[i] <= issued
      BY DEF CredInv, CredTypeOK, Issued, Pairs
    <3> QED BY <2>1, <3>1, <3>2
  <2>3. /\ \A n \in dead' : n <= issued'
        /\ \A t \in Ticks : held'[t] <= issued' /\ got'[t] <= issued'
    BY <1>2, <2>1 DEF SeedCredential, CredInv, CredTypeOK, Issued, Pairs
  <2> QED BY <2>2, <2>3 DEF Issued
<1>3. ASSUME NEW t \in Ticks, LoadCredential(t) PROVE Issued'
  <2>1. \A q \in Ticks : held'[q] = held[q] \/ (rows # <<>> /\ held'[q] = Latest)
    BY <1>3 DEF LoadCredential, CredInv, CredTypeOK
  <2>2. rows # <<>> => Latest <= issued
    BY LatestIsRow DEF CredInv, CredTypeOK, Issued
  <2>3. UNCHANGED <<rows, issued, dead, got>>
    BY <1>3 DEF LoadCredential
  <2> QED BY <2>1, <2>2, <2>3 DEF CredInv, Issued
<1>4. ASSUME NEW t \in Ticks, PresentToken(t) PROVE Issued'
  <2>1. /\ UNCHANGED <<rows, held>> /\ issued \in Nat
        /\ issued' \in Nat /\ issued <= issued'
    BY <1>4 DEF PresentToken, CredInv, CredTypeOK
  <2>2. dead' \subseteq dead \cup {held[t]}
    BY <1>4 DEF PresentToken
  <2>3. \A q \in Ticks : got'[q] = got[q] \/ got'[q] = issued'
    BY <1>4 DEF PresentToken, CredInv, CredTypeOK
  <2>4. \A i \in 1..Len(rows) : rows[i] \in Nat /\ rows[i] <= issued
    BY DEF CredInv, CredTypeOK, Issued, Pairs
  <2>5. /\ \A n \in dead : n \in Nat /\ n <= issued
        /\ \A q \in Ticks : held[q] \in Nat /\ got[q] \in Nat /\ held[q] <= issued /\ got[q] <= issued
    BY DEF CredInv, CredTypeOK, Issued, Pairs
  <2> QED BY <2>1, <2>2, <2>3, <2>4, <2>5 DEF Issued
<1>5. ASSUME NEW t \in Ticks, TokenReply(t) PROVE Issued'
  <2>1. UNCHANGED <<rows, issued, dead, held>>
    BY <1>5 DEF TokenReply
  <2>2. \A q \in Ticks : got'[q] = got[q] \/ got'[q] = 0
    BY <1>5 DEF TokenReply, CredInv, CredTypeOK
  <2>3. issued \in Nat
    BY DEF CredInv, CredTypeOK
  <2> QED BY <2>1, <2>2, <2>3 DEF CredInv, Issued
<1>6. ASSUME NEW t \in Ticks, SavePair(t) PROVE Issued'
  <2>1. UNCHANGED <<issued, dead, held, got>>
    BY <1>6 DEF SavePair
  <2>2. CASE rows' = rows
    BY <2>1, <2>2 DEF CredInv, Issued
  <2>3. CASE rows' = Append(rows, got[t])
    <3>1. got[t] \in Pairs /\ got[t] <= issued
      BY <1>6 DEF SavePair, CredInv, CredTypeOK, InHand, Issued, Pairs
    <3>2. /\ Len(rows') = Len(rows) + 1 /\ Len(rows) \in Nat
          /\ \A i \in 1..Len(rows) : rows'[i] = rows[i]
          /\ rows'[Len(rows) + 1] = got[t]
      BY <2>3, <3>1, RowAppended DEF CredInv, CredTypeOK
    <3>3. \A i \in 1..Len(rows') : rows'[i] <= issued
      BY <3>1, <3>2 DEF CredInv, Issued
    <3> QED BY <2>1, <3>3 DEF CredInv, Issued
  <2> QED BY <1>6, <2>2, <2>3 DEF SavePair
<1> QED
  BY <1>1, <1>2, <1>3, <1>4, <1>5, <1>6
     DEF CredNext, credVars, AccessTokenAges, DiscoveryFails, EndTick, EndsUntold, LinkLost, TickCrash

\* A tick presents what it loaded and saves what it was given.
LEMMA InHandStep ==
  ASSUME CredInv, [CredNext]_credVars
  PROVE  InHand'
<1> USE CredAssumption
<1>1. CASE UNCHANGED <<at, held, got>>
  BY <1>1 DEF CredInv, InHand
<1>2. ASSUME NEW t \in Ticks, LoadCredential(t) PROVE InHand'
  <2>1. rows # <<>> => Latest # 0
    BY LatestIsRow DEF CredInv, CredTypeOK, Pairs
  <2>2. /\ \A q \in Ticks \ {t} : at'[q] = at[q] /\ held'[q] = held[q]
        /\ got' = got /\ at[t] = "idle"
        /\ at'[t] \in {"resolved", "refreshing"}
        /\ at'[t] = "refreshing" => rows # <<>> /\ held'[t] = Latest
    BY <1>2 DEF LoadCredential, Resolves, CredInv, CredTypeOK
  <2> QED BY <2>1, <2>2 DEF CredInv, InHand
<1>3. ASSUME NEW t \in Ticks, DiscoveryFails(t) \/ EndTick(t) \/ EndsUntold(t) \/ TickCrash(t) PROVE InHand'
  <2>1. /\ \A q \in Ticks \ {t} : at'[q] = at[q]
        /\ held' = held /\ got' = got /\ at'[t] \in {"resolved", "over"}
    BY <1>3 DEF DiscoveryFails, EndTick, EndsUntold, TickCrash, Resolves, CredInv, CredTypeOK
  <2> QED BY <2>1 DEF CredInv, InHand
<1>4. ASSUME NEW t \in Ticks, PresentToken(t) PROVE InHand'
  <2>1. /\ \A q \in Ticks \ {t} : at'[q] = at[q] /\ got'[q] = got[q]
        /\ held' = held /\ at[t] = "refreshing" /\ at'[t] = "presented"
    BY <1>4 DEF PresentToken, CredInv, CredTypeOK
  <2> QED BY <2>1 DEF CredInv, InHand
<1>5. ASSUME NEW t \in Ticks, TokenReply(t) PROVE InHand'
  <2>1. /\ \A q \in Ticks \ {t} : at'[q] = at[q] /\ got'[q] = got[q]
        /\ held' = held /\ at[t] = "presented" /\ at'[t] \in {"saving", "resolved"}
        /\ at'[t] = "saving" => got'[t] = got[t] /\ got[t] # 0
    BY <1>5 DEF TokenReply, Resolves, CredInv, CredTypeOK
  <2> QED BY <2>1 DEF CredInv, InHand
<1>6. ASSUME NEW t \in Ticks, SavePair(t) PROVE InHand'
  <2>1. /\ \A q \in Ticks \ {t} : at'[q] = at[q]
        /\ held' = held /\ got' = got /\ at'[t] = "resolved"
    BY <1>6 DEF SavePair, SaveFails, Resolves, CredInv, CredTypeOK
  <2> QED BY <2>1 DEF CredInv, InHand
<1> QED
  BY <1>1, <1>2, <1>3, <1>4, <1>5, <1>6
     DEF CredNext, credVars, SeedCredential, AccessTokenAges, LinkLost

----------------------------------------------------------------------------
(* A pair on its way to the database is known to one tick only             *)

\* Nothing a step does tells anyone else of an unsaved pair: ticks load what is stored, consume
\* what they loaded, and are given what is new.
LEMMA PrivateStep ==
  ASSUME CredInv, [CredNext]_credVars
  PROVE  Private'
<1> USE CredAssumption
<1>1. CASE UNCHANGED <<rows, dead, at, held, got>>
  BY <1>1 DEF CredInv, Private, Unsaved
<1>2. CASE SeedCredential
  <2>1. /\ issued' \in Pairs /\ issued' = issued + 1
        /\ UNCHANGED <<dead, at, held, got>>
    BY <1>2 DEF SeedCredential, CredInv, CredTypeOK, Pairs
  <2>2. \A q \in Ticks : got[q] # issued'
    BY <2>1 DEF CredInv, CredTypeOK, Issued
  <2>3. /\ Len(rows') = Len(rows) + 1 /\ Len(rows) \in Nat
        /\ \A i \in 1..Len(rows) : rows'[i] = rows[i]
        /\ rows'[Len(rows) + 1] = issued'
    BY <1>2, <2>1, RowAppended DEF SeedCredential, CredInv, CredTypeOK
  <2> QED BY <2>1, <2>2, <2>3 DEF CredInv, Private, Unsaved
<1>3. ASSUME NEW t \in Ticks, LoadCredential(t) PROVE Private'
  <2>1. /\ \A q \in Ticks \ {t} : at'[q] = at[q] /\ held'[q] = held[q]
        /\ UNCHANGED <<rows, dead, got>>
        /\ at'[t] \in {"resolved", "refreshing"}
        /\ held'[t] = held[t] \/ (rows # <<>> /\ held'[t] = Latest)
    BY <1>3 DEF LoadCredential, Resolves, CredInv, CredTypeOK
  <2>2. \A q \in Ticks : Unsaved(q) /\ rows # <<>> => Latest # got[q]
    BY LatestIsRow DEF CredInv, CredTypeOK, Private
  <2> QED BY <2>1, <2>2 DEF CredInv, Private, Unsaved
<1>4. ASSUME NEW t \in Ticks, DiscoveryFails(t) \/ EndTick(t) \/ EndsUntold(t) \/ TickCrash(t) PROVE Private'
  <2>1. /\ \A q \in Ticks \ {t} : at'[q] = at[q]
        /\ UNCHANGED <<rows, dead, held, got>> /\ at'[t] \in {"resolved", "over"}
    BY <1>4 DEF DiscoveryFails, EndTick, EndsUntold, TickCrash, Resolves, CredInv, CredTypeOK
  <2> QED BY <2>1 DEF CredInv, Private, Unsaved
<1>5. ASSUME NEW t \in Ticks, PresentToken(t) PROVE Private'
  <2>1. /\ \A q \in Ticks \ {t} : at'[q] = at[q] /\ got'[q] = got[q]
        /\ UNCHANGED <<rows, held>> /\ at[t] = "refreshing" /\ got[t] = 0
        /\ dead' = dead \/ dead' = dead \cup {held[t]}
        /\ got'[t] = 0 \/ got'[t] = issued + 1
    BY <1>5 DEF PresentToken, CredInv, CredTypeOK, InHand
  <2>2. /\ issued \in Nat
        /\ \A q \in Ticks : got[q] # issued + 1 /\ held[q] # issued + 1
        /\ \A i \in 1..Len(rows) : rows[i] # issued + 1
        /\ issued + 1 \notin dead
    <3>1. /\ issued \in Nat
          /\ \A q \in Ticks : got[q] \in Nat /\ got[q] <= issued /\ held[q] \in Nat /\ held[q] <= issued
          /\ \A i \in 1..Len(rows) : rows[i] \in Nat /\ rows[i] <= issued
          /\ \A n \in dead : n \in Nat /\ n <= issued
      BY DEF CredInv, CredTypeOK, Issued, Pairs
    <3>2. \A n \in Nat : n <= issued => n # issued + 1
      BY <3>1
    <3> QED BY <3>1, <3>2
  <2>3. \A p, q \in Ticks : p # q /\ got'[p] = got'[q] => got'[p] = 0
    BY <2>1, <2>2 DEF CredInv, Private
  <2>4. \A q \in Ticks \ {t} : Unsaved(q)' =>
           /\ got'[q] \notin dead'
           /\ \A p \in Ticks : held'[p] # got'[q]
           /\ \A i \in 1..Len(rows') : rows'[i] # got'[q]
    BY <2>1 DEF CredInv, Private, Unsaved
  <2>5. Unsaved(t)' =>
           /\ got'[t] \notin dead'
           /\ \A p \in Ticks : held'[p] # got'[t]
           /\ \A i \in 1..Len(rows') : rows'[i] # got'[t]
    BY <2>1, <2>2 DEF Unsaved
  <2> QED BY <2>3, <2>4, <2>5 DEF Private
<1>6. ASSUME NEW t \in Ticks, TokenReply(t) PROVE Private'
  <2>1. /\ \A q \in Ticks \ {t} : at'[q] = at[q] /\ got'[q] = got[q]
        /\ UNCHANGED <<rows, dead, held>> /\ at[t] = "presented"
        /\ got'[t] = 0 \/ got'[t] = got[t]
    BY <1>6 DEF TokenReply, Resolves, CredInv, CredTypeOK
  <2> QED BY <2>1 DEF CredInv, Private, Unsaved
<1>7. ASSUME NEW t \in Ticks, SavePair(t) PROVE Private'
  <2>1. /\ \A q \in Ticks \ {t} : at'[q] = at[q]
        /\ UNCHANGED <<dead, held, got>> /\ at[t] = "saving" /\ at'[t] = "resolved"
    BY <1>7 DEF SavePair, SaveFails, Resolves, CredInv, CredTypeOK
  <2>2. got[t] \in Pairs /\ got[t] # 0
    BY <2>1 DEF CredInv, CredTypeOK, InHand, Pairs
  <2>3. \A q \in Ticks : Unsaved(q)' => q # t /\ Unsaved(q) /\ got[q] # got[t]
    BY <2>1, <2>2 DEF Unsaved, CredInv, Private
  <2>4. \A q \in Ticks : Unsaved(q)' => \A i \in 1..Len(rows') : rows'[i] # got[q]
    <3>1. CASE rows' = rows
      BY <2>3, <3>1 DEF CredInv, Private
    <3>2. CASE rows' = Append(rows, got[t])
      <4>1. /\ Len(rows') = Len(rows) + 1 /\ Len(rows) \in Nat
            /\ \A i \in 1..Len(rows) : rows'[i] = rows[i]
            /\ rows'[Len(rows) + 1] = got[t]
        BY <2>2, <3>2, RowAppended DEF CredInv, CredTypeOK
      <4> QED BY <2>3, <4>1 DEF CredInv, Private
    <3> QED BY <1>7, <3>1, <3>2 DEF SavePair
  <2> QED BY <2>1, <2>3, <2>4 DEF CredInv, Private
<1> QED
  BY <1>1, <1>2, <1>3, <1>4, <1>5, <1>6, <1>7 DEF CredNext, credVars, AccessTokenAges, LinkLost

----------------------------------------------------------------------------
(* The loss of the stored credential                                       *)

\* The tick that consumed the latest pair answers for it until it stores the next one, reports the
\* loss or ends; a pair that takes its place has not been presented.
LEMMA LossStep ==
  ASSUME CredInv, [CredNext]_credVars
  PROVE  LossAnswered'
<1> USE CredAssumption
<1>1. CASE UNCHANGED <<rows, dead, at, held, resolution, reported, abandoned>>
  BY <1>1 DEF CredInv, LossAnswered, Accounted, Answers, Latest
<1>2. CASE SeedCredential
  <2>1. issued' \in Pairs /\ issued' = issued + 1 /\ dead' = dead
    BY <1>2 DEF SeedCredential, CredInv, CredTypeOK, Pairs
  <2>2. Latest' = issued'
    BY <1>2, <2>1, RowAppended DEF SeedCredential, CredInv, CredTypeOK
  <2>3. Latest' \notin dead'
    BY <2>1, <2>2 DEF CredInv, CredTypeOK, Issued
  <2> QED BY <2>3 DEF LossAnswered
<1>3. SUFFICES ASSUME NEW t \in Ticks,
                      \/ LoadCredential(t) \/ DiscoveryFails(t) \/ PresentToken(t) \/ TokenReply(t)
                      \/ SavePair(t) \/ EndTick(t) \/ EndsUntold(t) \/ TickCrash(t)
               PROVE LossAnswered'
  BY <1>1, <1>2 DEF CredNext, credVars, AccessTokenAges, LinkLost
<1>4. CASE SavePair(t) /\ rows' # rows
  <2>1. /\ rows' = Append(rows, got[t]) /\ dead' = dead /\ at[t] = "saving"
        /\ got[t] \in Pairs /\ got[t] # 0
    BY <1>4 DEF SavePair, CredInv, CredTypeOK, InHand, Pairs
  <2>2. Latest' = got[t]
    BY <2>1, RowAppended DEF CredInv, CredTypeOK
  <2>3. Latest' \notin dead'
    BY <2>1, <2>2 DEF CredInv, Private, Unsaved
  <2> QED BY <2>3 DEF LossAnswered
<1>5. CASE PresentToken(t) /\ held[t] \in dead' /\ held[t] = Latest
  <2>1. Answers(t, Latest)' /\ Latest' = Latest
    BY <1>5 DEF PresentToken, Answers, Latest, CredInv, CredTypeOK
  <2> QED BY <2>1 DEF LossAnswered, Accounted
<1>6. CASE ~(SavePair(t) /\ rows' # rows) /\ ~(PresentToken(t) /\ held[t] \in dead' /\ held[t] = Latest)
  <2>1. rows' = rows /\ Latest' = Latest
    BY <1>3, <1>6 DEF LoadCredential, DiscoveryFails, PresentToken, TokenReply, SavePair, EndTick,
                      EndsUntold, TickCrash, Latest
  <2>2. Latest \in dead' => Latest \in dead
    BY <1>3, <1>6 DEF LoadCredential, DiscoveryFails, PresentToken, TokenReply, SavePair, EndTick,
                      EndsUntold, TickCrash
  <2>3. SUFFICES ASSUME rows # <<>>, Latest \in dead, Accounted
                 PROVE  Accounted'
    BY <2>1, <2>2 DEF LossAnswered, CredInv
  <2>4. reported \subseteq reported' /\ abandoned \subseteq abandoned'
    BY <1>3 DEF LoadCredential, DiscoveryFails, PresentToken, TokenReply, SavePair, EndTick,
                EndsUntold, TickCrash
  <2>5. CASE Latest \in reported \cup abandoned
    BY <2>1, <2>4, <2>5 DEF Accounted
  <2>6. CASE \E q \in Ticks : q # t /\ Answers(q, Latest)
    <3>1. PICK q \in Ticks : q # t /\ Answers(q, Latest)
      BY <2>6
    <3>2. held'[q] = held[q] /\ at'[q] = at[q] /\ resolution'[q] = resolution[q]
      BY <1>3, <3>1 DEF LoadCredential, DiscoveryFails, PresentToken, TokenReply, SavePair, EndTick,
                        EndsUntold, TickCrash, Resolves, SaveFails, CredInv, CredTypeOK
    <3>3. Answers(q, Latest)'
      BY <2>1, <3>1, <3>2 DEF Answers
    <3> QED BY <3>3 DEF Accounted
  <2>7. CASE Answers(t, Latest)
    <3>1. CASE TokenReply(t)
      <4>1. Answers(t, Latest)'
        BY <2>1, <2>7, <3>1 DEF TokenReply, Resolves, Answers, CredInv, CredTypeOK
      <4> QED BY <4>1 DEF Accounted
    <3>2. CASE SavePair(t)
      <4>1. resolution'[t] = "persist_failed" /\ at'[t] = "resolved" /\ held' = held
        <5>1. rows' # Append(rows, got[t])
          BY <1>6, <3>2, RowAppended DEF CredInv, CredTypeOK, InHand, Pairs, SavePair
        <5> QED BY <3>2, <5>1 DEF SavePair, SaveFails, Resolves, CredInv, CredTypeOK
      <4>2. Answers(t, Latest)'
        BY <2>1, <2>7, <4>1 DEF Answers
      <4> QED BY <4>2 DEF Accounted
    <3>3. CASE EndTick(t)
      <4>1. Latest \in reported'
        BY <2>7, <3>3 DEF EndTick, Answers
      <4> QED BY <2>1, <4>1 DEF Accounted
    <3>4. CASE EndsUntold(t) \/ TickCrash(t)
      <4>1. Latest \in abandoned'
        BY <2>3, <2>7, <3>4 DEF EndsUntold, TickCrash, Answers
      <4> QED BY <2>1, <4>1 DEF Accounted
    <3> QED BY <1>3, <2>7, <3>1, <3>2, <3>3, <3>4
            DEF LoadCredential, DiscoveryFails, PresentToken, Answers
  <2> QED BY <2>3, <2>5, <2>6, <2>7 DEF Accounted
<1> QED BY <1>4, <1>5, <1>6

----------------------------------------------------------------------------
(* The theorems                                                            *)

\* The inductive invariant holds from the start.
LEMMA InvInit == CredInit => CredInv
<1> SUFFICES ASSUME CredInit PROVE CredInv
  OBVIOUS
<1>1. CredTypeOK
  BY InitType
<1>2. Issued /\ InHand /\ Private
  BY DEF CredInit, Issued, InHand, Private, Unsaved
<1>3. LossAnswered
  BY DEF CredInit, LossAnswered
<1> QED BY <1>1, <1>2, <1>3 DEF CredInv

\* Every step keeps the inductive invariant.
LEMMA InvStep == CredInv /\ [CredNext]_credVars => CredInv'
BY TypeStep, IssuedStep, InHandStep, PrivateStep, LossStep DEF CredInv

\* The credential's state is typed in every behaviour.
THEOREM TypeCorrect == CredSpec => []CredTypeOK
<1>1. CredInv => CredTypeOK
  BY DEF CredInv
<1> QED BY <1>1, InvInit, InvStep, PTL DEF CredSpec

\* A refreshed pair reaches the database before anyone else has used, held or stored it: a login
\* stored meanwhile, or another tick's refresh, is never overwritten by a pair already consumed.
THEOREM UnsavedIsPrivate == CredSpec => []Private
<1>1. CredInv => Private
  BY DEF CredInv
<1> QED BY <1>1, InvInit, InvStep, PTL DEF CredSpec

\* The stored credential is never dead without a tick at work on it, a report of the loss, or a
\* crash of the process that held it (resolve_robinhood_credential, _agent_run's alert).
THEOREM LossIsKnown == CredSpec => []LossKnown
<1>1. CredInv => LossKnown
  BY DEF CredInv, LossAnswered, Accounted, Answers, LossKnown
<1> QED BY <1>1, InvInit, InvStep, PTL DEF CredSpec

-----------------------------------------------------------------------------
(* The conversation.  A follow-up turn that checks or repairs the output   *)
(* comes with the tools closed, so that no order is left behind it; the    *)
(* output at hand is the last one until a better one is restored.          *)

TurnKinds == {"report", "cleanup", "check", "repair"}

\* Behind an output that is looked at, no order work runs and none went unreported for want of
\* trying.
Quiet == phase \in {"settled", "finished"} => running = 0 /\ (early => turns.report = MaxReports)

\* Checks and repairs come last.
Last ==
  turns.check > 0 \/ turns.repair > 0 =>
    tools = "closed" /\ running = 0 /\ (unresolved => turns.cleanup = MaxCleanups)

\* The effective output is the last one while it is looked at, and a checked one is kept.
AtHand ==
  /\ phase \in {"waiting", "settled"} => effective = text
  /\ turns.check > 0 => best # NoBest

TalkTyped == TalkTypeOK /\ turns \in [TurnKinds -> Nat]
TalkInv == TalkTyped /\ Quiet /\ Last /\ AtHand /\ OutputSettled /\ FinalIsBest

LEMMA TalkBounds ==
  /\ MaxJobs \in Nat /\ MaxIssues \in Nat /\ MaxReports \in Nat
  /\ MaxCleanups \in Nat /\ MaxChecks \in Nat /\ MaxRepairs \in Nat
BY TalkAssumption

\* What is restored is an output, and so is the one there is before any.
LEMMA Restored ==
  /\ NoText \in Outputs
  /\ \A n \in 0..MaxIssues : [valid |-> TRUE, issues |-> n, same |-> TRUE] \in Outputs
BY TalkBounds DEF NoText, Outputs

\* A conversation begins so, also one that is left alone.
LEMMA TalkStarts ==
  ASSUME NEW from \in {"turn", "done"}, NEW left \in BOOLEAN, TalkBegins(from, left)
  PROVE  TalkInv
<1>0. turns \in [TurnKinds -> Nat] /\ \A kind \in TurnKinds : turns[kind] = 0
  BY DEF TalkBegins, TurnKinds
<1>3. unresolved \in BOOLEAN /\ stopped \in BOOLEAN /\ lost \in BOOLEAN /\ early \in BOOLEAN
      /\ checkFailed \in BOOLEAN
  BY DEF TalkBegins
<1>1. TalkTyped
  BY <1>0, <1>3, TalkBounds, Restored DEF TalkBegins, TalkTyped, TalkTypeOK, TurnKinds, NoBest
<1>2. Quiet /\ Last /\ AtHand /\ OutputSettled /\ FinalIsBest
  BY DEF TalkBegins, Quiet, Last, AtHand, OutputSettled, FinalIsBest, NoBest
<1> QED
  BY <1>1, <1>2 DEF TalkInv

\* Every step of the conversation, and of what is around it, keeps it so.
LEMMA TalkKeeps ==
  ASSUME TalkInv, [TalkNext]_talkVars
  PROVE  TalkInv'
<1>1. CASE TurnReturns
  <2>0. lost' \in BOOLEAN /\ unresolved' \in BOOLEAN /\ early' \in BOOLEAN
    BY <1>1 DEF TurnReturns, TalkInv, TalkTyped, TalkTypeOK, jobVars
  <2>1. TalkTyped'
    BY <1>1, <2>0, TalkBounds, Restored DEF TurnReturns, TalkInv, TalkTyped, TalkTypeOK, TurnKinds,
       NoBest, jobVars
  <2>2. Quiet' /\ Last' /\ AtHand'
    BY <1>1, TalkBounds DEF TurnReturns, TalkInv, TalkTyped, TalkTypeOK, TurnKinds, NoBest,
       Quiet, Last, AtHand, jobVars
  <2>3. OutputSettled' /\ FinalIsBest'
    BY <1>1, TalkBounds DEF TurnReturns, TalkInv, TalkTyped, TalkTypeOK, TurnKinds, NoBest,
       Outputs, Quiet, Last, AtHand, OutputSettled, FinalIsBest, jobVars
  <2> QED
    BY <2>1, <2>2, <2>3 DEF TalkInv
<1>2. CASE TurnFails
  <2>0. lost' \in BOOLEAN /\ unresolved' \in BOOLEAN /\ early' \in BOOLEAN
    BY <1>2 DEF TurnFails, TalkInv, TalkTyped, TalkTypeOK, jobVars
  <2>1. TalkTyped'
    BY <1>2, <2>0, TalkBounds, Restored DEF TurnFails, TalkInv, TalkTyped, TalkTypeOK, TurnKinds,
       NoBest, jobVars
  <2>2. Quiet' /\ Last' /\ AtHand'
    BY <1>2, TalkBounds DEF TurnFails, TalkInv, TalkTyped, TalkTypeOK, TurnKinds, NoBest,
       Quiet, Last, AtHand, jobVars
  <2>3. OutputSettled' /\ FinalIsBest'
    BY <1>2, TalkBounds DEF TurnFails, TalkInv, TalkTyped, TalkTypeOK, TurnKinds, NoBest,
       Outputs, Quiet, Last, AtHand, OutputSettled, FinalIsBest, jobVars
  <2> QED
    BY <2>1, <2>2, <2>3 DEF TalkInv
<1>3. CASE EndsOnStop
  <2>0. lost' \in BOOLEAN /\ unresolved' \in BOOLEAN /\ early' \in BOOLEAN
    BY <1>3 DEF EndsOnStop, TalkInv, TalkTyped, TalkTypeOK, jobVars
  <2>1. TalkTyped'
    BY <1>3, <2>0, TalkBounds, Restored DEF EndsOnStop, TalkInv, TalkTyped, TalkTypeOK, TurnKinds,
       NoBest, jobVars
  <2>2. Quiet' /\ Last' /\ AtHand'
    BY <1>3, TalkBounds DEF EndsOnStop, TalkInv, TalkTyped, TalkTypeOK, TurnKinds, NoBest,
       Quiet, Last, AtHand, jobVars
  <2>3. OutputSettled' /\ FinalIsBest'
    BY <1>3, TalkBounds DEF EndsOnStop, TalkInv, TalkTyped, TalkTypeOK, TurnKinds, NoBest,
       Outputs, Quiet, Last, AtHand, OutputSettled, FinalIsBest, jobVars
  <2> QED
    BY <2>1, <2>2, <2>3 DEF TalkInv
<1>4. CASE ReportsJobs
  <2>0. lost' \in BOOLEAN /\ unresolved' \in BOOLEAN /\ early' \in BOOLEAN
    BY <1>4 DEF ReportsJobs, Unreported, Prompt, TalkInv, TalkTyped, TalkTypeOK, jobVars
  <2>1. TalkTyped'
    BY <1>4, <2>0, TalkBounds, Restored DEF ReportsJobs, Unreported, Prompt, TalkInv, TalkTyped, TalkTypeOK, TurnKinds,
       NoBest, jobVars
  <2>2. Quiet' /\ Last' /\ AtHand'
    BY <1>4, TalkBounds DEF ReportsJobs, Unreported, Prompt, TalkInv, TalkTyped, TalkTypeOK, TurnKinds, NoBest,
       Quiet, Last, AtHand, jobVars
  <2>3. OutputSettled' /\ FinalIsBest'
    BY <1>4, TalkBounds DEF ReportsJobs, Unreported, Prompt, TalkInv, TalkTyped, TalkTypeOK, TurnKinds, NoBest,
       Outputs, Quiet, Last, AtHand, OutputSettled, FinalIsBest, jobVars
  <2> QED
    BY <2>1, <2>2, <2>3 DEF TalkInv
<1>5. CASE StopsReporting
  <2>0. lost' \in BOOLEAN /\ unresolved' \in BOOLEAN /\ early' \in BOOLEAN
    BY <1>5 DEF StopsReporting, Unreported, RestrictTools, TalkInv, TalkTyped, TalkTypeOK, jobVars
  <2>1. TalkTyped'
    BY <1>5, <2>0, TalkBounds, Restored DEF StopsReporting, Unreported, RestrictTools, TalkInv, TalkTyped, TalkTypeOK, TurnKinds,
       NoBest, jobVars
  <2>2. Quiet' /\ Last' /\ AtHand'
    BY <1>5, TalkBounds DEF StopsReporting, Unreported, RestrictTools, TalkInv, TalkTyped, TalkTypeOK, TurnKinds, NoBest,
       Quiet, Last, AtHand, jobVars
  <2>3. OutputSettled' /\ FinalIsBest'
    BY <1>5, TalkBounds DEF StopsReporting, Unreported, RestrictTools, TalkInv, TalkTyped, TalkTypeOK, TurnKinds, NoBest,
       Outputs, Quiet, Last, AtHand, OutputSettled, FinalIsBest, jobVars
  <2> QED
    BY <2>1, <2>2, <2>3 DEF TalkInv
<1>6. CASE CleansUp
  <2>0. lost' \in BOOLEAN /\ unresolved' \in BOOLEAN /\ early' \in BOOLEAN
    BY <1>6 DEF CleansUp, NeedsCleanup, RestrictTools, Prompt, TalkInv, TalkTyped, TalkTypeOK, jobVars
  <2>1. TalkTyped'
    BY <1>6, <2>0, TalkBounds, Restored DEF CleansUp, NeedsCleanup, RestrictTools, Prompt, TalkInv, TalkTyped, TalkTypeOK, TurnKinds,
       NoBest, jobVars
  <2>2. Quiet' /\ Last' /\ AtHand'
    BY <1>6, TalkBounds DEF CleansUp, NeedsCleanup, RestrictTools, Prompt, TalkInv, TalkTyped, TalkTypeOK, TurnKinds, NoBest,
       Quiet, Last, AtHand, jobVars
  <2>3. OutputSettled' /\ FinalIsBest'
    BY <1>6, TalkBounds DEF CleansUp, NeedsCleanup, RestrictTools, Prompt, TalkInv, TalkTyped, TalkTypeOK, TurnKinds, NoBest,
       Outputs, Quiet, Last, AtHand, OutputSettled, FinalIsBest, jobVars
  <2> QED
    BY <2>1, <2>2, <2>3 DEF TalkInv
<1>7. CASE RepairsOutput
  <2>0. lost' \in BOOLEAN /\ unresolved' \in BOOLEAN /\ early' \in BOOLEAN
    BY <1>7 DEF RepairsOutput, NeedsCleanup, Unrepairable, Finishes, Restore, Prompt, Close, TalkInv, TalkTyped, TalkTypeOK, jobVars
  <2>1. TalkTyped'
    BY <1>7, <2>0, TalkBounds, Restored DEF RepairsOutput, NeedsCleanup, Unrepairable, Finishes, Restore, Prompt, Close, TalkInv, TalkTyped, TalkTypeOK, TurnKinds,
       NoBest, jobVars
  <2>2. Quiet' /\ Last' /\ AtHand'
    BY <1>7, TalkBounds DEF RepairsOutput, NeedsCleanup, Unrepairable, Finishes, Restore, Prompt, Close, TalkInv, TalkTyped, TalkTypeOK, TurnKinds, NoBest,
       Quiet, Last, AtHand, jobVars
  <2>3. OutputSettled' /\ FinalIsBest'
    BY <1>7, TalkBounds DEF RepairsOutput, NeedsCleanup, Unrepairable, Finishes, Restore, Prompt, Close, TalkInv, TalkTyped, TalkTypeOK, TurnKinds, NoBest,
       Outputs, Quiet, Last, AtHand, OutputSettled, FinalIsBest, jobVars
  <2> QED
    BY <2>1, <2>2, <2>3 DEF TalkInv
<1>8. CASE JobStarts
  <2>0. lost' \in BOOLEAN /\ unresolved' \in BOOLEAN /\ early' \in BOOLEAN
    BY <1>8 DEF JobStarts, TalkInv, TalkTyped, TalkTypeOK, jobVars
  <2>1. TalkTyped'
    BY <1>8, <2>0, TalkBounds, Restored DEF JobStarts, TalkInv, TalkTyped, TalkTypeOK, TurnKinds,
       NoBest, jobVars
  <2>2. Quiet' /\ Last' /\ AtHand'
    BY <1>8, TalkBounds DEF JobStarts, TalkInv, TalkTyped, TalkTypeOK, TurnKinds, NoBest,
       Quiet, Last, AtHand, jobVars
  <2>3. OutputSettled' /\ FinalIsBest'
    BY <1>8, TalkBounds DEF JobStarts, TalkInv, TalkTyped, TalkTypeOK, TurnKinds, NoBest,
       Outputs, Quiet, Last, AtHand, OutputSettled, FinalIsBest, jobVars
  <2> QED
    BY <2>1, <2>2, <2>3 DEF TalkInv
<1>9. CASE JobEnds
  <2>0. lost' \in BOOLEAN /\ unresolved' \in BOOLEAN /\ early' \in BOOLEAN
    BY <1>9 DEF JobEnds, TalkInv, TalkTyped, TalkTypeOK, jobVars
  <2>1. TalkTyped'
    BY <1>9, <2>0, TalkBounds, Restored DEF JobEnds, TalkInv, TalkTyped, TalkTypeOK, TurnKinds,
       NoBest, jobVars
  <2>2. Quiet' /\ Last' /\ AtHand'
    BY <1>9, TalkBounds DEF JobEnds, TalkInv, TalkTyped, TalkTypeOK, TurnKinds, NoBest,
       Quiet, Last, AtHand, jobVars
  <2>3. OutputSettled' /\ FinalIsBest'
    BY <1>9, TalkBounds DEF JobEnds, TalkInv, TalkTyped, TalkTypeOK, TurnKinds, NoBest,
       Outputs, Quiet, Last, AtHand, OutputSettled, FinalIsBest, jobVars
  <2> QED
    BY <2>1, <2>2, <2>3 DEF TalkInv
<1>10. CASE OrdersResolved
  <2>0. lost' \in BOOLEAN /\ unresolved' \in BOOLEAN /\ early' \in BOOLEAN
    BY <1>10 DEF OrdersResolved, TalkInv, TalkTyped, TalkTypeOK, jobVars
  <2>1. TalkTyped'
    BY <1>10, <2>0, TalkBounds, Restored DEF OrdersResolved, TalkInv, TalkTyped, TalkTypeOK, TurnKinds,
       NoBest, jobVars
  <2>2. Quiet' /\ Last' /\ AtHand'
    BY <1>10, TalkBounds DEF OrdersResolved, TalkInv, TalkTyped, TalkTypeOK, TurnKinds, NoBest,
       Quiet, Last, AtHand, jobVars
  <2>3. OutputSettled' /\ FinalIsBest'
    BY <1>10, TalkBounds DEF OrdersResolved, TalkInv, TalkTyped, TalkTypeOK, TurnKinds, NoBest,
       Outputs, Quiet, Last, AtHand, OutputSettled, FinalIsBest, jobVars
  <2> QED
    BY <2>1, <2>2, <2>3 DEF TalkInv
<1>11. CASE RequestsStop
  <2>0. lost' \in BOOLEAN /\ unresolved' \in BOOLEAN /\ early' \in BOOLEAN
    BY <1>11 DEF RequestsStop, TalkInv, TalkTyped, TalkTypeOK, jobVars
  <2>1. TalkTyped'
    BY <1>11, <2>0, TalkBounds, Restored DEF RequestsStop, TalkInv, TalkTyped, TalkTypeOK, TurnKinds,
       NoBest, jobVars
  <2>2. Quiet' /\ Last' /\ AtHand'
    BY <1>11, TalkBounds DEF RequestsStop, TalkInv, TalkTyped, TalkTypeOK, TurnKinds, NoBest,
       Quiet, Last, AtHand, jobVars
  <2>3. OutputSettled' /\ FinalIsBest'
    BY <1>11, TalkBounds DEF RequestsStop, TalkInv, TalkTyped, TalkTypeOK, TurnKinds, NoBest,
       Outputs, Quiet, Last, AtHand, OutputSettled, FinalIsBest, jobVars
  <2> QED
    BY <2>1, <2>2, <2>3 DEF TalkInv
<1>12. CASE WindsDown
  <2>0. lost' \in BOOLEAN /\ unresolved' \in BOOLEAN /\ early' \in BOOLEAN
    BY <1>12 DEF WindsDown, RestrictTools, TalkInv, TalkTyped, TalkTypeOK, jobVars
  <2>1. TalkTyped'
    BY <1>12, <2>0, TalkBounds, Restored DEF WindsDown, RestrictTools, TalkInv, TalkTyped, TalkTypeOK, TurnKinds,
       NoBest, jobVars
  <2>2. Quiet' /\ Last' /\ AtHand'
    BY <1>12, TalkBounds DEF WindsDown, RestrictTools, TalkInv, TalkTyped, TalkTypeOK, TurnKinds, NoBest,
       Quiet, Last, AtHand, jobVars
  <2>3. OutputSettled' /\ FinalIsBest'
    BY <1>12, TalkBounds DEF WindsDown, RestrictTools, TalkInv, TalkTyped, TalkTypeOK, TurnKinds, NoBest,
       Outputs, Quiet, Last, AtHand, OutputSettled, FinalIsBest, jobVars
  <2> QED
    BY <2>1, <2>2, <2>3 DEF TalkInv
<1>13. CASE Cancelled
  <2>0. lost' \in BOOLEAN /\ unresolved' \in BOOLEAN /\ early' \in BOOLEAN
    BY <1>13 DEF Cancelled, TalkInv, TalkTyped, TalkTypeOK, jobVars
  <2>1. TalkTyped'
    BY <1>13, <2>0, TalkBounds, Restored DEF Cancelled, TalkInv, TalkTyped, TalkTypeOK, TurnKinds,
       NoBest, jobVars
  <2>2. Quiet' /\ Last' /\ AtHand'
    BY <1>13, TalkBounds DEF Cancelled, TalkInv, TalkTyped, TalkTypeOK, TurnKinds, NoBest,
       Quiet, Last, AtHand, jobVars
  <2>3. OutputSettled' /\ FinalIsBest'
    BY <1>13, TalkBounds DEF Cancelled, TalkInv, TalkTyped, TalkTypeOK, TurnKinds, NoBest,
       Outputs, Quiet, Last, AtHand, OutputSettled, FinalIsBest, jobVars
  <2> QED
    BY <2>1, <2>2, <2>3 DEF TalkInv
<1>14. CASE ChecksReferences
  <2>0. checkFailed' \in BOOLEAN
    BY <1>14 DEF ChecksReferences, TalkInv, TalkTyped, TalkTypeOK
  <2>1. Issues \in 0..MaxIssues /\ (checkFailed' \/ Issues = text.issues)
    BY <1>14, TalkBounds DEF ChecksReferences, Issues, TalkInv, TalkTyped, TalkTypeOK, Outputs
  <2>2. CASE best # NoBest /\ ~Improves /\ Restore /\ Finishes /\ UNCHANGED <<best, tools>>
    <3>1. TalkTyped'
      BY <1>14, <2>0, <2>1, <2>2, TalkBounds, Restored DEF ChecksReferences, Restore, Finishes, TalkInv, TalkTyped,
         TalkTypeOK, TurnKinds, NoBest, jobVars
    <3>2. Quiet' /\ Last' /\ AtHand'
      BY <1>14, <2>1, <2>2, TalkBounds DEF ChecksReferences, NeedsCleanup, Restore, Finishes, TalkInv,
         TalkTyped, TalkTypeOK, TurnKinds, NoBest, Quiet, Last, AtHand, jobVars
    <3>3. OutputSettled' /\ FinalIsBest'
      BY <1>14, <2>1, <2>2, TalkBounds DEF ChecksReferences, NeedsCleanup, Restore, Finishes, TalkInv,
         TalkTyped, TalkTypeOK, TurnKinds, NoBest, Outputs, Quiet, Last, AtHand, OutputSettled,
         FinalIsBest, jobVars
    <3> QED
      BY <3>1, <3>2, <3>3 DEF TalkInv
  <2>3. CASE (best = NoBest \/ Improves) /\ Accept /\ Finishes /\ UNCHANGED tools
    <3>1. TalkTyped'
      BY <1>14, <2>0, <2>1, <2>3, TalkBounds, Restored DEF ChecksReferences, Accept, Finishes, Improves, TalkInv, TalkTyped,
         TalkTypeOK, TurnKinds, NoBest, jobVars
    <3>2. Quiet' /\ Last' /\ AtHand'
      BY <1>14, <2>1, <2>3, TalkBounds DEF ChecksReferences, NeedsCleanup, Accept, Finishes, Improves, TalkInv,
         TalkTyped, TalkTypeOK, TurnKinds, NoBest, Quiet, Last, AtHand, jobVars
    <3>3. OutputSettled' /\ FinalIsBest'
      BY <1>14, <2>1, <2>3, TalkBounds DEF ChecksReferences, NeedsCleanup, Accept, Finishes, Improves, TalkInv,
         TalkTyped, TalkTypeOK, TurnKinds, NoBest, Outputs, Quiet, Last, AtHand, OutputSettled,
         FinalIsBest, jobVars
    <3> QED
      BY <3>1, <3>2, <3>3 DEF TalkInv
  <2>4. CASE /\ (best = NoBest \/ Improves) /\ Accept
             /\ turns.check < MaxChecks /\ Prompt("check") /\ Close
    <3>1. TalkTyped'
      BY <1>14, <2>0, <2>1, <2>4, TalkBounds, Restored DEF ChecksReferences, Accept, Prompt, Close, TalkInv, TalkTyped,
         TalkTypeOK, TurnKinds, NoBest, jobVars
    <3>2. Quiet' /\ Last' /\ AtHand'
      BY <1>14, <2>1, <2>4, TalkBounds DEF ChecksReferences, NeedsCleanup, Accept, Prompt, Close, TalkInv,
         TalkTyped, TalkTypeOK, TurnKinds, NoBest, Quiet, Last, AtHand, jobVars
    <3>3. OutputSettled' /\ FinalIsBest'
      BY <1>14, <2>1, <2>4, TalkBounds DEF ChecksReferences, NeedsCleanup, Accept, Prompt, Close, TalkInv,
         TalkTyped, TalkTypeOK, TurnKinds, NoBest, Outputs, Quiet, Last, AtHand, OutputSettled,
         FinalIsBest, jobVars
    <3> QED
      BY <3>1, <3>2, <3>3 DEF TalkInv
  <2> QED
    BY <1>14, <2>2, <2>3, <2>4, TalkBounds DEF ChecksReferences, TalkInv, TalkTyped, TalkTypeOK
<1>15. CASE UNCHANGED talkVars
  BY <1>15 DEF talkVars, jobVars, TalkInv, TalkTyped, TalkTypeOK, Quiet, Last, AtHand,
     OutputSettled, FinalIsBest
<1> QED
  BY <1>1, <1>2, <1>3, <1>4, <1>5, <1>6, <1>7, <1>8, <1>9, <1>10, <1>11, <1>12, <1>13, <1>14, <1>15
     DEF TalkNext, Converses

-----------------------------------------------------------------------------
(* Why the conversation ends: the turns it may still ask for run out, and  *)
(* so do the jobs it waits for.  This is the safety half of TalkEnds.      *)

\* How far a suspension of the loop is from its end, were no turn to follow.
PhaseRank == [turn |-> 3, waiting |-> 2, settled |-> 1, finished |-> 0, done |-> 0]

\* The follow-up turns left, each worth more than what the loop does with one output.
TurnsToCome ==
  (MaxReports - turns.report) + (MaxCleanups - turns.cleanup)
    + (MaxChecks - turns.check) + (MaxRepairs - turns.repair)
LeftToSay == 4 * TurnsToCome + PhaseRank[phase]

\* The jobs that run or may still be started.
JobsToEnd == running + (MaxJobs - started)

LEMMA PhaseRanks ==
  /\ PhaseRank["turn"] = 3 /\ PhaseRank["waiting"] = 2 /\ PhaseRank["settled"] = 1
  /\ PhaseRank["finished"] = 0 /\ PhaseRank["done"] = 0
BY DEF PhaseRank

\* What is left, as numbers.
LEMMA LeftBounds ==
  ASSUME TalkTyped
  PROVE  /\ TurnsToCome \in Nat /\ LeftToSay \in Nat /\ JobsToEnd \in Nat
         /\ PhaseRank[phase] \in 0..3
<1>1. PhaseRank[phase] \in 0..3
  BY PhaseRanks DEF TalkTyped, TalkTypeOK
<1>2. TurnsToCome \in Nat
  <2>1. /\ MaxReports - turns.report \in Nat /\ MaxCleanups - turns.cleanup \in Nat
        /\ MaxChecks - turns.check \in Nat /\ MaxRepairs - turns.repair \in Nat
    BY TalkBounds DEF TalkTyped, TalkTypeOK
  <2> QED
    BY <2>1 DEF TurnsToCome
<1>3. JobsToEnd \in Nat
  BY TalkBounds DEF TalkTyped, TalkTypeOK, JobsToEnd
<1> QED
  BY <1>1, <1>2, <1>3 DEF LeftToSay

LEMMA LeftNext == TalkTyped' => (JobsToEnd \in Nat /\ LeftToSay \in Nat)'
<1>1. TalkTyped => JobsToEnd \in Nat /\ LeftToSay \in Nat
  BY LeftBounds
<1> QED
  BY <1>1, PTL

\* A follow-up turn costs one of its kind.
LEMMA PromptCosts ==
  ASSUME TalkTyped, NEW kind \in TurnKinds, Prompt(kind), phase \in {"waiting", "settled"}
  PROVE  LeftToSay' < LeftToSay
<1>1. turns' = [turns EXCEPT ![kind] = turns[kind] + 1] /\ turns \in [TurnKinds -> Nat]
      /\ phase' = "turn"
  BY DEF Prompt, TalkTyped
<1>2. TurnsToCome' = TurnsToCome - 1
  BY <1>1, TalkBounds DEF TurnsToCome, TurnKinds
<1>3. PhaseRank[phase] >= 1 /\ PhaseRank[phase]' = 3
  BY <1>1, PhaseRanks
<1> QED
  BY <1>2, <1>3, LeftBounds DEF LeftToSay

\* Without one, the loop comes nearer to its end.
LEMMA PhaseFalls ==
  ASSUME TalkTyped, UNCHANGED turns, phase' = phase \/ PhaseRank[phase'] \in 0 .. PhaseRank[phase] - 1
  PROVE  LeftToSay' <= LeftToSay /\ (phase' # phase => LeftToSay' < LeftToSay)
<1>1. TurnsToCome' = TurnsToCome
  BY DEF TurnsToCome
<1> QED
  BY <1>1, LeftBounds DEF LeftToSay

\* Every step of the loop.
LEMMA ConversesForward ==
  ASSUME TalkTyped, Converses
  PROVE  LeftToSay' < LeftToSay
<1>1. CASE TurnReturns \/ TurnFails \/ EndsOnStop \/ StopsReporting
  <2>1. /\ UNCHANGED turns
        /\ \/ phase = "turn" /\ phase' \in {"done", "waiting", "settled"}
           \/ phase = "waiting" /\ phase' \in {"done", "settled"}
    BY <1>1 DEF TurnReturns, TurnFails, EndsOnStop, StopsReporting
  <2> QED
    BY <2>1, PhaseRanks, PhaseFalls
<1>2. CASE ReportsJobs
  BY <1>2, PromptCosts DEF ReportsJobs, TurnKinds
<1>3. CASE CleansUp
  BY <1>3, PromptCosts DEF CleansUp, TurnKinds
<1>4. CASE ChecksReferences \/ RepairsOutput
  <2>1. phase = "settled"
    BY <1>4 DEF ChecksReferences, RepairsOutput
  <2>2. CASE Finishes
    BY <2>1, <2>2, PhaseRanks, PhaseFalls DEF Finishes
  <2>3. CASE \E kind \in TurnKinds : Prompt(kind)
    BY <2>1, <2>3, PromptCosts
  <2> QED
    BY <1>4, <2>2, <2>3, Zenon DEF ChecksReferences, RepairsOutput, TurnKinds
<1> QED
  BY <1>1, <1>2, <1>3, <1>4 DEF Converses

LEMMA TalkForward ==
  ASSUME TalkTyped, TalkTyped', [TalkNext]_talkVars
  PROVE  /\ LeftToSay' <= LeftToSay /\ JobsToEnd' <= JobsToEnd
         /\ Converses => LeftToSay' < LeftToSay
         /\ JobEnds => JobsToEnd' < JobsToEnd
<1>1. running \in Nat /\ started \in Nat /\ MaxJobs \in Nat
  BY TalkBounds DEF TalkTyped, TalkTypeOK
<1>0. JobsToEnd \in Nat /\ JobsToEnd' \in Nat /\ LeftToSay \in Nat /\ LeftToSay' \in Nat
  BY LeftBounds, LeftNext
<1>2. JobsToEnd' <= JobsToEnd /\ (JobEnds => JobsToEnd' < JobsToEnd)
  <2>1. CASE UNCHANGED <<started, running>>
    <3>1. ~JobEnds
      <4>1. JobEnds => running' = running - 1
        BY DEF JobEnds
      <4>2. running' = running
        BY <2>1
      <4> QED
        BY <1>1, <4>1, <4>2
    <3>2. JobsToEnd' = JobsToEnd
      BY <2>1 DEF JobsToEnd
    <3> QED
      BY <1>0, <3>1, <3>2
  <2>2. CASE JobStarts
    <3>1. started' = started + 1 /\ (running' = running \/ running' = running + 1)
      BY <2>2 DEF JobStarts
    <3>2. ~JobEnds
      <4>1. JobEnds => started' = started
        BY DEF JobEnds
      <4> QED
        BY <1>1, <3>1, <4>1
    <3> QED
      BY <1>1, <3>1, <3>2 DEF JobsToEnd
  <2>3. CASE JobEnds
    <3>1. started' = started /\ running' = running - 1
      BY <2>3 DEF JobEnds
    <3> QED
      BY <1>1, <3>1 DEF JobsToEnd
  <2> QED
    BY <2>1, <2>2, <2>3 DEF TalkNext, Converses, TurnReturns, TurnFails, EndsOnStop, ReportsJobs,
       StopsReporting, CleansUp, ChecksReferences, RepairsOutput, OrdersResolved, RequestsStop,
       WindsDown, Cancelled, talkVars, jobVars
<1>3. Converses => LeftToSay' < LeftToSay
  BY ConversesForward
<1>4. LeftToSay' <= LeftToSay
  <2>1. CASE Converses
    BY <2>1, <1>0, <1>3
  <2>2. CASE UNCHANGED <<turns, phase>>
    BY <2>2, PhaseFalls
  <2>3. CASE Cancelled
    BY <2>3, PhaseRanks, PhaseFalls DEF Cancelled, TalkTyped, TalkTypeOK
  <2> QED
    BY <2>1, <2>2, <2>3 DEF TalkNext, JobStarts, JobEnds, OrdersResolved, RequestsStop, WindsDown,
       talkVars
<1> QED
  BY <1>2, <1>3, <1>4

\* The core of TalkEnds: whatever the agent answers, each step of the loop uses up some of a
\* finite store of turns, and each end of a job some of a finite store of jobs, and nothing (a
\* stop, the wind-down, a new job) ever gives any back: the loop cannot ask for ever.
THEOREM TalkRunsDown ==
  TalkSpec => [][/\ LeftToSay \in Nat /\ JobsToEnd \in Nat
                 /\ LeftToSay' <= LeftToSay /\ JobsToEnd' <= JobsToEnd
                 /\ Converses => LeftToSay' < LeftToSay
                 /\ JobEnds => JobsToEnd' < JobsToEnd]_talkVars
<1>1. TalkInit => TalkInv
  BY TalkStarts DEF TalkInit
<1>2. TalkInv /\ [TalkNext]_talkVars => TalkInv'
  BY TalkKeeps
<1>3. TalkInv /\ [TalkNext]_talkVars =>
        [/\ LeftToSay \in Nat /\ JobsToEnd \in Nat
         /\ LeftToSay' <= LeftToSay /\ JobsToEnd' <= JobsToEnd
         /\ Converses => LeftToSay' < LeftToSay
         /\ JobEnds => JobsToEnd' < JobsToEnd]_talkVars
  BY TalkKeeps, TalkForward, LeftBounds DEF TalkInv
<1> QED
  BY <1>1, <1>2, <1>3, PTL DEF TalkSpec

-----------------------------------------------------------------------------
(* The searches.  An entry is the record of one delivered search, and      *)
(* nothing on record is of a later time than the clock's.                  *)

Times == 0..MaxNow
Entries == [call : Searches, query : Queries, narrowing : Narrowings, at : Times]

\* What a search is, by how far it is.
IdleSearch == [is : {"idle"}]
PaidSearch == [is : {"sent", "recorded", "unrecorded"}, query : Queries,
               narrowing : Narrowings, at : Times]
DeniedSearch == [is : {"refused"}, query : Queries, narrowing : Narrowings, at : Times,
                 by : Entries]

CacheTyped ==
  /\ ruleSet \in BOOLEAN /\ now \in Times
  /\ search \in [Searches -> IdleSearch \cup PaidSearch \cup DeniedSearch]
  /\ entries \subseteq Entries /\ IsFiniteSet(entries)

\* Nothing is of a time to come, and each entry is of a search that was recorded.
OnRecord ==
  /\ \A s \in Searches : search[s].is # "idle" => search[s].at <= now
  /\ \A e \in entries : e.at <= now /\ search[e.call].is = "recorded"
  /\ looked # NoEntry => looked.at \in Times /\ looked.at <= now /\ looked.shown \subseteq entries

RuleOnly == ~ruleSet => entries = {} /\ looked = NoEntry

CacheInv == CacheTyped /\ OnRecord /\ PaidOnce /\ RefusedForCause /\ ShownIsNews /\ RuleOnly

LEMMA CacheBounds == NewsMaxAge \in Nat /\ LookupLimit \in Nat /\ MaxNow \in Nat
BY CacheAssumption

LEMMA CacheStarts ==
  ASSUME NEW busy \in BOOLEAN, CacheBegins(busy)
  PROVE  CacheInv
<1>1. CacheTyped
  <2>1. ruleSet \in BOOLEAN
    BY DEF CacheBegins
  <2>2. IsFiniteSet(entries)
    BY FS_EmptySet DEF CacheBegins
  <2> QED
    BY <2>1, <2>2, CacheBounds DEF CacheBegins, CacheTyped, IdleSearch, Times
<1>2. OnRecord /\ PaidOnce /\ RefusedForCause /\ ShownIsNews /\ RuleOnly
  BY DEF CacheBegins, OnRecord, PaidOnce, RefusedForCause, ShownIsNews, RuleOnly
<1> QED
  BY <1>1, <1>2 DEF CacheInv

\* A lookup shows the newest few, and all of them when they are few enough.
LEMMA ListedNewest ==
  ASSUME NEW es, IsFiniteSet(es), NEW picked \in Listed(es), NEW e \in es \ picked
  PROVE  Cardinality(picked) = LookupLimit /\ \A f \in picked : e.at <= f.at
<1>1. picked \subseteq es /\ Cardinality(picked) = Few(es) /\ \A f \in picked : e.at <= f.at
  BY DEF Listed
<1>2. Cardinality(picked) # Cardinality(es)
  BY <1>1, FS_Subset
<1> QED
  BY <1>1, <1>2 DEF Few

\* A search is sent: there was nothing fresh that answers it.
LEMMA SendKeeps ==
  ASSUME CacheInv, NEW s \in Searches, NEW q \in Queries, NEW n \in Narrowings,
         SendSearch(s, q, n)
  PROVE  CacheInv'
<1> DEFINE new == [is |-> "sent", query |-> q, narrowing |-> n, at |-> now]
<1>0. /\ search[s].is = "idle" /\ search' = [search EXCEPT ![s] = new]
      /\ ruleSet => Answering(q, n) = {}
      /\ UNCHANGED <<ruleSet, now, entries, looked>>
  BY DEF SendSearch
<1>1. new \in PaidSearch
  BY DEF PaidSearch, CacheInv, CacheTyped
<1>2. search'[s] = new /\ \A r \in Searches : r # s => search'[r] = search[r]
  BY <1>0 DEF CacheInv, CacheTyped
<1> HIDE DEF new
<1>3. CacheTyped'
  BY <1>0, <1>1 DEF CacheInv, CacheTyped
<1>4. new.is = "sent" /\ new.at = now /\ Key(new) = <<Question[q], n>>
  BY DEF new, Key
<1>5. OnRecord' /\ RuleOnly' /\ ShownIsNews'
  BY <1>0, <1>2, <1>4, CacheBounds
     DEF CacheInv, OnRecord, RuleOnly, ShownIsNews, CacheTyped, Times, Entries
<1>6. PaidOnce'
  <2> SUFFICES ASSUME NEW r \in Searches, NEW e \in entries,
                      search'[r].is \in {"sent", "recorded", "unrecorded"},
                      Key(search'[r]) = Key(e), e.at < search'[r].at,
                      search'[r].at <= e.at + NewsMaxAge
               PROVE  FALSE
    BY <1>0 DEF PaidOnce, Key
  <2>1. CASE r = s
    <3>1. ruleSet
      BY DEF CacheInv, RuleOnly
    <3>2. ~Fresh(e, now)
      BY <1>0, <1>2, <1>4, <2>1, <3>1 DEF Answering
    <3> QED
      BY <1>2, <1>4, <2>1, <3>2, CacheBounds DEF Fresh, CacheInv, CacheTyped, Entries, Times
  <2>2. CASE r # s
    BY <1>2, <2>2 DEF CacheInv, PaidOnce
  <2> QED
    BY <2>1, <2>2
<1>7. RefusedForCause'
  <2> SUFFICES ASSUME NEW r \in Searches, search'[r].is = "refused"
               PROVE  LET e == search'[r].by
                      IN  /\ e \in entries /\ search'[e.call].is = "recorded"
                          /\ Key(e) = Key(search'[r])
                          /\ e.at <= search'[r].at /\ search'[r].at <= e.at + NewsMaxAge
    BY <1>0 DEF RefusedForCause, Key
  <2>1. r # s /\ search'[r] = search[r]
    BY <1>2, <1>4
  <2>2. search[r].by \in entries /\ search[search[r].by.call].is = "recorded"
    BY <2>1 DEF CacheInv, RefusedForCause
  <2>3. search[r].by.call \in Searches /\ search[r].by.call # s
    BY <1>0, <2>2 DEF CacheInv, CacheTyped, Entries
  <2> QED
    BY <1>2, <2>1, <2>2, <2>3 DEF CacheInv, RefusedForCause
<1> QED
  BY <1>3, <1>5, <1>6, <1>7 DEF CacheInv

\* A search is refused: the entry that answers it is on record, and fresh.
LEMMA RefusalKeeps ==
  ASSUME CacheInv, NEW s \in Searches, NEW q \in Queries, NEW n \in Narrowings,
         RefuseSearch(s, q, n)
  PROVE  CacheInv'
<1>0. PICK by \in Newest(Answering(q, n)) :
        search' = [search EXCEPT ![s] = [is |-> "refused", query |-> q, narrowing |-> n,
                                         at |-> now, by |-> by]]
  BY DEF RefuseSearch
<1> DEFINE new == [is |-> "refused", query |-> q, narrowing |-> n, at |-> now, by |-> by]
<1>1. search[s].is = "idle" /\ UNCHANGED <<ruleSet, now, entries, looked>>
  BY DEF RefuseSearch
<1>2. by \in entries /\ Key(by) = <<Question[q], n>> /\ Fresh(by, now)
  BY DEF Newest, Answering
<1>3. new \in DeniedSearch
  BY <1>2 DEF DeniedSearch, CacheInv, CacheTyped
<1>4. search'[s] = new /\ \A r \in Searches : r # s => search'[r] = search[r]
  BY <1>0 DEF CacheInv, CacheTyped
<1>5. new.is = "refused" /\ new.at = now /\ Key(new) = <<Question[q], n>> /\ new.by = by
  BY DEF Key
<1>6. search' = [search EXCEPT ![s] = new]
  BY <1>0
<1> HIDE DEF new
<1>7. CacheTyped'
  BY <1>1, <1>3, <1>6 DEF CacheInv, CacheTyped
<1>8. OnRecord' /\ RuleOnly' /\ ShownIsNews'
  BY <1>1, <1>4, <1>5, CacheBounds
     DEF CacheInv, OnRecord, RuleOnly, ShownIsNews, CacheTyped, Times, Entries
<1>9. PaidOnce'
  <2> SUFFICES ASSUME NEW r \in Searches, NEW e \in entries,
                      search'[r].is \in {"sent", "recorded", "unrecorded"},
                      Key(search'[r]) = Key(e), e.at < search'[r].at,
                      search'[r].at <= e.at + NewsMaxAge
               PROVE  FALSE
    BY <1>1 DEF PaidOnce, Key
  <2> QED
    BY <1>4, <1>5 DEF CacheInv, PaidOnce
<1>10. RefusedForCause'
  <2> SUFFICES ASSUME NEW r \in Searches, search'[r].is = "refused"
               PROVE  LET e == search'[r].by
                      IN  /\ e \in entries /\ search'[e.call].is = "recorded"
                          /\ Key(e) = Key(search'[r])
                          /\ e.at <= search'[r].at /\ search'[r].at <= e.at + NewsMaxAge
    BY <1>1 DEF RefusedForCause, Key
  <2>1. \A e \in entries : e.call \in Searches /\ search'[e.call].is = "recorded"
    BY <1>1, <1>4 DEF CacheInv, OnRecord, CacheTyped, Entries
  <2>2. CASE r = s
    <3>1. by.at <= now /\ now <= by.at + NewsMaxAge
      BY <1>2, CacheBounds DEF Fresh, CacheInv, CacheTyped, Entries, Times
    <3> QED
      BY <1>2, <1>4, <1>5, <2>1, <2>2, <3>1
  <2>3. CASE r # s
    BY <1>4, <2>1, <2>3 DEF CacheInv, RefusedForCause
  <2> QED
    BY <2>2, <2>3
<1> QED
  BY <1>7, <1>8, <1>9, <1>10 DEF CacheInv

\* A search is delivered: what is recorded of it is no older than any search or lookup.
LEMMA DeliverKeeps ==
  ASSUME CacheInv, NEW s \in Searches, NEW recorded \in BOOLEAN, Deliver(s, recorded)
  PROVE  CacheInv'
<1> DEFINE is == IF recorded THEN "recorded" ELSE "unrecorded"
           new == [call |-> s, query |-> search[s].query, narrowing |-> search[s].narrowing,
                   at |-> now]
<1>0. /\ search[s].is = "sent" /\ (recorded => ruleSet)
      /\ search' = [search EXCEPT ![s].is = is]
      /\ UNCHANGED <<ruleSet, now, looked>>
  BY DEF Deliver
<1>1. entries' = entries \/ (recorded /\ entries' = entries \cup {new})
  BY DEF Deliver, Cached
<1>2. search[s] \in PaidSearch
  BY <1>0 DEF CacheInv, CacheTyped, IdleSearch, DeniedSearch, PaidSearch
<1>3. new \in Entries /\ new.call = s /\ new.at = now
  BY <1>2 DEF PaidSearch, Entries, CacheInv, CacheTyped
<1>4. search'[s] = [search[s] EXCEPT !.is = is] /\ \A r \in Searches : r # s => search'[r] = search[r]
  BY <1>0 DEF CacheInv, CacheTyped
<1>5. search'[s] \in PaidSearch /\ search'[s].is = is
  BY <1>2, <1>4 DEF PaidSearch
<1>6. search'[s].query = search[s].query /\ search'[s].narrowing = search[s].narrowing
      /\ search'[s].at = search[s].at
  BY <1>2, <1>4 DEF PaidSearch
<1>7. search' \in [Searches -> IdleSearch \cup PaidSearch \cup DeniedSearch]
  BY <1>0, <1>4, <1>5 DEF CacheInv, CacheTyped
<1> HIDE DEF new, is
<1>8. CacheTyped'
  <2>1. IsFiniteSet(entries')
    BY <1>1, FS_AddElement DEF CacheInv, CacheTyped
  <2> QED
    BY <1>0, <1>1, <1>3, <1>7, <2>1 DEF CacheInv, CacheTyped
<1>9. is \in {"recorded", "unrecorded"} /\ (recorded => is = "recorded")
  BY DEF is
<1>10. \A e \in entries' : e \in entries \/ (e = new /\ recorded)
  BY <1>1
<1>11. entries \subseteq entries'
  BY <1>1
<1>12. OnRecord'
  <2>1. \A r \in Searches : search'[r].is # "idle" => search'[r].at <= now
    BY <1>0, <1>4, <1>6 DEF CacheInv, OnRecord
  <2>2. \A e \in entries : e.call \in Searches /\ e.call # s
    BY <1>0 DEF CacheInv, OnRecord, CacheTyped, Entries
  <2>3. \A e \in entries' : e.at <= now /\ search'[e.call].is = "recorded"
    <3> TAKE e \in entries'
    <3>1. CASE e \in entries
      BY <1>4, <2>2, <3>1 DEF CacheInv, OnRecord
    <3>2. CASE e = new /\ recorded
      BY <1>3, <1>5, <1>9, <3>2, CacheBounds DEF CacheInv, CacheTyped, Times
    <3> QED
      BY <1>10, <3>1, <3>2
  <2> QED
    BY <1>0, <1>11, <2>1, <2>3 DEF CacheInv, OnRecord
<1>13. PaidOnce'
  <2> SUFFICES ASSUME NEW r \in Searches, NEW e \in entries',
                      search'[r].is \in {"sent", "recorded", "unrecorded"},
                      Key(search'[r]) = Key(e), e.at < search'[r].at,
                      search'[r].at <= e.at + NewsMaxAge
               PROVE  FALSE
    BY DEF PaidOnce, Key
  <2>1. search'[r].at = search[r].at /\ Key(search'[r]) = Key(search[r])
        /\ search[r].is \in {"sent", "recorded", "unrecorded"}
    BY <1>0, <1>4, <1>6 DEF Key
  <2>2. search[r].at \in Times /\ search[r].at <= now
    BY <2>1 DEF CacheInv, CacheTyped, OnRecord, IdleSearch, PaidSearch, DeniedSearch
  <2>3. e # new
    BY <1>3, <2>1, <2>2, CacheBounds DEF CacheInv, CacheTyped, Times
  <2> QED
    BY <1>10, <2>1, <2>3 DEF CacheInv, PaidOnce
<1>14. RefusedForCause'
  <2> SUFFICES ASSUME NEW r \in Searches, search'[r].is = "refused"
               PROVE  LET e == search'[r].by
                      IN  /\ e \in entries' /\ search'[e.call].is = "recorded"
                          /\ Key(e) = Key(search'[r])
                          /\ e.at <= search'[r].at /\ search'[r].at <= e.at + NewsMaxAge
    BY DEF RefusedForCause, Key
  <2>1. r # s /\ search'[r] = search[r]
    BY <1>4, <1>5, <1>9
  <2>2. search[r].by \in entries'
    BY <1>11, <2>1 DEF CacheInv, RefusedForCause
  <2> QED
    BY <1>12, <2>1, <2>2 DEF CacheInv, RefusedForCause, OnRecord
<1>15. ShownIsNews'
  <2> SUFFICES ASSUME looked # NoEntry
               PROVE  /\ \A e \in looked.shown :
                           looked.ticker \in Tagged[e.query] /\ e.at <= looked.at
                           /\ looked.at <= e.at + NewsMaxAge
                      /\ \A e \in entries' \ looked.shown :
                           looked.ticker \in Tagged[e.query] /\ e.at <= looked.at
                           /\ looked.at <= e.at + NewsMaxAge /\ e.at < looked.at =>
                           Cardinality({f \in looked.shown : f.at >= e.at}) = LookupLimit
    BY <1>0 DEF ShownIsNews
  <2>1. \A e \in entries' : e.at < looked.at => e \in entries
    BY <1>3, <1>10, CacheBounds DEF CacheInv, CacheTyped, OnRecord, Times
  <2> QED
    BY <2>1 DEF CacheInv, ShownIsNews
<1>16. RuleOnly'
  BY <1>0, <1>1 DEF CacheInv, RuleOnly
<1> QED
  BY <1>8, <1>12, <1>13, <1>14, <1>15, <1>16 DEF CacheInv

\* A lookup: what it leaves out is no newer than anything of a full answer.
LEMMA LookupKeeps ==
  ASSUME CacheInv, NEW t \in Tickers, Lookup(t)
  PROVE  CacheInv'
<1> DEFINE es == {e \in entries : t \in Tagged[e.query] /\ Fresh(e, now)}
<1>1. PICK picked \in Listed(es) : looked' = [ticker |-> t, at |-> now, shown |-> picked]
  BY DEF Lookup, ShownOf
<1>2. ruleSet /\ UNCHANGED <<ruleSet, now, search, entries>>
  BY DEF Lookup
<1>3. looked'.ticker = t /\ looked'.at = now /\ looked'.shown = picked
  BY <1>1
<1>4. picked \subseteq es /\ es \subseteq entries /\ IsFiniteSet(es)
  BY FS_Subset DEF Listed, CacheInv, CacheTyped
<1>5. \A e \in entries : e \in es <=> /\ t \in Tagged[e.query] /\ e.at <= now
                                     /\ now <= e.at + NewsMaxAge
  BY CacheBounds DEF Fresh, CacheInv, CacheTyped, Entries, Times
<1>6. \A e \in es \ picked : Cardinality(picked) = LookupLimit /\ \A f \in picked : e.at <= f.at
  BY <1>4, ListedNewest
<1> HIDE DEF es
<1>7. ShownIsNews'
  <2>1. \A e \in picked :
          t \in Tagged[e.query] /\ e.at <= now /\ now <= e.at + NewsMaxAge
    BY <1>4, <1>5
  <2>2. \A e \in entries \ picked :
          t \in Tagged[e.query] /\ e.at <= now /\ now <= e.at + NewsMaxAge =>
          Cardinality({f \in picked : f.at >= e.at}) = LookupLimit
    <3> SUFFICES ASSUME NEW e \in entries \ picked, e \in es
                 PROVE  Cardinality({f \in picked : f.at >= e.at}) = LookupLimit
      BY <1>5
    <3>1. \A f \in picked : f.at >= e.at
      BY <1>4, <1>6 DEF CacheInv, CacheTyped, Entries, Times
    <3>2. {f \in picked : f.at >= e.at} = picked
      BY <3>1
    <3> QED
      BY <1>6, <3>2
  <2> QED
    BY <1>2, <1>3, <2>1, <2>2 DEF ShownIsNews
<1>8. CacheTyped' /\ OnRecord' /\ RuleOnly'
  BY <1>2, <1>3, <1>4, CacheBounds DEF CacheInv, CacheTyped, OnRecord, RuleOnly, Times
<1>9. PaidOnce' /\ RefusedForCause'
  BY <1>2 DEF CacheInv, PaidOnce, RefusedForCause, Key
<1> QED
  BY <1>7, <1>8, <1>9 DEF CacheInv

LEMMA CacheKeeps ==
  ASSUME CacheInv, [CacheNext]_cacheVars
  PROVE  CacheInv'
<1>1. CASE ClockTicks
  <2>1. CacheTyped' /\ OnRecord' /\ RuleOnly'
    BY <1>1, CacheBounds DEF ClockTicks, CacheInv, CacheTyped, OnRecord, RuleOnly, Times, Entries,
       IdleSearch, PaidSearch, DeniedSearch
  <2>2. PaidOnce' /\ RefusedForCause' /\ ShownIsNews'
    BY <1>1 DEF ClockTicks, CacheInv, PaidOnce, RefusedForCause, ShownIsNews, Key
  <2> QED
    BY <2>1, <2>2 DEF CacheInv
<1>2. CASE UNCHANGED cacheVars
  BY <1>2 DEF cacheVars, CacheInv, CacheTyped, OnRecord, RuleOnly, PaidOnce, RefusedForCause,
     ShownIsNews, Key
<1> QED
  BY <1>1, <1>2, SendKeeps, RefusalKeeps, DeliverKeeps, LookupKeeps DEF CacheNext

LEMMA CacheIsTyped ==
  ASSUME CacheInv
  PROVE  CacheTypeOK
<1>1. CacheTyped
  BY DEF CacheInv
<1>2. ASSUME NEW s \in Searches
      PROVE  search[s].is \in {"idle", "sent", "refused", "recorded", "unrecorded"}
  <2>1. search[s] \in IdleSearch \cup PaidSearch \cup DeniedSearch
    BY <1>1 DEF CacheTyped
  <2> QED
    BY <2>1 DEF IdleSearch, PaidSearch, DeniedSearch
<1>3. entries \subseteq [call : Searches, query : Queries, narrowing : Narrowings, at : 0..MaxNow]
  BY <1>1 DEF CacheTyped, Entries, Times
<1> QED
  BY <1>1, <1>2, <1>3 DEF CacheTyped, CacheTypeOK, Times

-----------------------------------------------------------------------------
(* The beginning.  What was read of the account is true of it as far as it *)
(* was read; the outcome follows from that; and whatever leads to a prompt *)
(* passes the account check and the start condition.                       *)

Stages == {"planned", "opening", "account", "checked", "unread", "read cash", "read shares",
           "read shorts", "decide", "client", "polling", "connected", "talking", "closing", "over"}

StartTyped ==
  /\ setup \in Setups /\ account \in Accounts /\ stage \in Stages
  /\ untried \subseteq Sources /\ withheld \subseteq Sources
  /\ facts \in Facts
  /\ outcome \in {"none", "met", "not_met", "unavailable", "unchecked"}
  /\ status \in {"not_started", "skipped", "stopped", "failed", "completed"}

StartFlags ==
  /\ stopAsked \in BOOLEAN /\ prompted \in BOOLEAN /\ initSeen \in BOOLEAN
  /\ reply \in BOOLEAN /\ saved \in BOOLEAN

\* How Robinhood is served where the session is, and that its account was checked there.
Route ==
  /\ stage # "opening" => untried = {}
  /\ setup.serve[Robinhood] = "off" => Robinhood \in withheld
  /\ stage \in {"read cash", "read shares", "read shorts", "decide"} =>
       setup.serve[Robinhood] = "proxied" /\ setup.role # "wheel"
  /\ stage \in {"read cash", "read shares"} => setup.role = "sell"
  /\ stage = "unread" => setup.serve[Robinhood] = "direct"
  /\ stage \notin {"planned", "opening", "account"} /\ setup.serve[Robinhood] = "proxied" =>
       account.agentic \/ Robinhood \in withheld

\* get_portfolio after the simulated debits.
CashLeft == account.cash - (IF Simulated THEN account.debits ELSE 0)

FactsTrue ==
  /\ facts.cash = Unknown \/ facts.cash = CashLeft
  /\ facts.shares = Unknown \/ facts.shares = account.lots
  /\ facts.shorts = Unknown \/ facts.shorts = Overlay(account.short)
  /\ facts.paged => account.short > 0

OutcomeTrue ==
  /\ outcome = "met" => TrulyMet /\ setup.serve[Robinhood] = "proxied"
  /\ outcome = "not_met" => ~TrulyMet
  /\ outcome = "unchecked" => Venue = "none" /\ setup.serve[Robinhood] = "direct"
  /\ stage \in {"client", "polling", "connected"} \/ prompted =>
       setup.role = "wheel" \/ outcome \in {"met", "unchecked"}
  /\ status = "skipped" => outcome = "not_met" /\ stage = "over"

Ending ==
  /\ prompted => stage \in {"talking", "closing", "over"}
  /\ prompted => (setup.serve[Robinhood] = "proxied" => account.agentic)
  /\ prompted => initSeen \/ Robinhood \notin withheld
  /\ stage = "closing" => status \in {"completed", "stopped", "failed"}
  /\ stage = "over" /\ prompted => saved /\ status \in {"completed", "stopped", "failed"}

StartInv == StartTyped /\ StartFlags /\ Route /\ FactsTrue /\ OutcomeTrue /\ Ending

LEMMA StartBounds ==
  /\ MaxShort \in Nat /\ MaxLots \in Nat /\ MaxCash \in Nat /\ MinCash \in Nat
  /\ MinCash > 0 /\ MinCash <= MaxCash
  /\ Robinhood \in Sources
BY SessionAssumption

\* A plan serves each source in one of three ways.
LEMMA Served ==
  ASSUME NEW s0 \in Setups
  PROVE  /\ s0.serve \in [Sources -> {"proxied", "direct", "off"}]
         /\ s0.role \in {"close", "sell", "wheel"} /\ s0.live \in BOOLEAN
<1>1. PICK offers \in [Sources -> Offers], directAccepted \in BOOLEAN,
           role \in {"close", "sell", "wheel"}, live \in BOOLEAN :
        s0 = [role |-> role, live |-> live,
              serve |-> [s \in Sources |-> Serve(offers[s], directAccepted)]]
  BY DEF Setups
<1>2. \A s \in Sources : Serve(offers[s], directAccepted) \in {"proxied", "direct", "off"}
  BY DEF Serve
<1> QED
  BY <1>1, <1>2

LEMMA AccountTyped ==
  ASSUME account \in Accounts
  PROVE  /\ account.agentic \in BOOLEAN /\ account.cash \in 0..MaxCash
         /\ account.lots \in 0..MaxLots /\ account.short \in 0..MaxShort
         /\ account.delta \in -MaxShort..MaxShort /\ account.debits \in 0..1
BY DEF Accounts

\* What the account holds after the tick's fills, whatever is read of it.
LEMMA TrueFacts ==
  ASSUME account \in Accounts
  PROVE  /\ CashLeft \in -MaxCash..MaxCash /\ Overlay(account.short) \in Nat
         /\ Unknown \in Int /\ Unknown < -MaxCash
         /\ ~Simulated /\ account.short > 0 => Overlay(account.short) > 0
<1>1. CashLeft \in {account.cash, account.cash - account.debits}
  BY AccountTyped, StartBounds DEF CashLeft
<1>2. CashLeft \in -MaxCash..MaxCash
  BY <1>1, AccountTyped, StartBounds
<1>3. PICK d \in {account.delta, 0} : Overlay(account.short) = IF account.short + d > 0
                                                               THEN account.short + d ELSE 0
  BY DEF Overlay
<1>4. Overlay(account.short) \in Nat
  BY <1>3, AccountTyped, StartBounds
<1>5. Unknown \in Int /\ Unknown < -MaxCash
  BY StartBounds DEF Unknown
<1>6. ~Simulated /\ account.short > 0 => Overlay(account.short) > 0
  BY AccountTyped, StartBounds DEF Overlay
<1> QED
  BY <1>2, <1>4, <1>5, <1>6

\* The start condition of the account as it is.
LEMMA MetMeans ==
  ASSUME setup \in Setups
  PROVE  /\ setup.role = "close" => (TrulyMet <=> Overlay(account.short) > 0)
         /\ setup.role = "sell" =>
              (TrulyMet <=> CashLeft >= MinCash \/ account.lots > Overlay(account.short))
BY DEF TrulyMet, CashLeft

LEMMA StartsSo ==
  ASSUME NEW s0 \in Setups, NEW a0 \in Accounts, StartBegins(s0, a0)
  PROVE  StartInv
<1>1. StartTyped
  <2>1. facts \in Facts
    BY StartBounds DEF StartBegins, Facts
  <2> QED
    BY <2>1 DEF StartBegins, StartTyped, Stages
<1>2. StartFlags /\ Route /\ FactsTrue /\ OutcomeTrue /\ Ending
  BY StartBounds DEF StartBegins, StartFlags, Route, FactsTrue, OutcomeTrue, Ending
<1> QED
  BY <1>1, <1>2 DEF StartInv

\* A start condition that is decided is decided of the account as it is.
LEMMA DecidedTruly ==
  ASSUME StartInv, stage = "decide"
  PROVE  /\ setup.role = "close" => CloseOutcome \in {"met", "not_met", "unavailable"}
         /\ setup.role = "close" => (CloseOutcome = "met" => TrulyMet)
         /\ setup.role = "close" => (CloseOutcome = "not_met" => ~TrulyMet)
         /\ setup.role = "sell" => SellOutcome \in {"met", "not_met", "unavailable"}
         /\ setup.role = "sell" => (SellOutcome = "met" => TrulyMet)
         /\ setup.role = "sell" => (SellOutcome = "not_met" => ~TrulyMet)
<1>1. setup \in Setups /\ account \in Accounts /\ FactsTrue
  BY DEF StartInv, StartTyped
<1>2. CloseOutcome \in {"met", "not_met", "unavailable"} /\ SellOutcome \in {"met", "not_met", "unavailable"}
  BY DEF CloseOutcome, SellOutcome
<1>3. setup.role = "close" => (CloseOutcome = "met" => TrulyMet) /\ (CloseOutcome = "not_met" => ~TrulyMet)
  BY <1>1, TrueFacts, MetMeans, AccountTyped DEF CloseOutcome, FactsTrue
<1>4. setup.role = "sell" => (SellOutcome = "met" => TrulyMet) /\ (SellOutcome = "not_met" => ~TrulyMet)
  BY <1>1, TrueFacts, MetMeans, AccountTyped, StartBounds DEF SellOutcome, FactsTrue
<1> QED
  BY <1>2, <1>3, <1>4

\* Every step of a session keeps it so.
LEMMA StartKeeps ==
  ASSUME StartInv, [StartNext]_startVars
  PROVE  StartInv'
<1>0. /\ setup.serve \in [Sources -> {"proxied", "direct", "off"}]
      /\ setup.role \in {"close", "sell", "wheel"} /\ Robinhood \in Sources
      /\ account.agentic \in BOOLEAN
  BY Served, AccountTyped, StartBounds DEF StartInv, StartTyped
<1>1. CASE BeginsSession
  <2>1. StartTyped'
    BY <1>1, <1>0, StartBounds DEF BeginsSession, Ends, Goes, beginVars, endVars, StartInv, StartTyped,
       Stages
  <2>2. StartFlags'
    BY <1>1 DEF BeginsSession, Ends, Goes, beginVars, endVars, StartInv, StartFlags
  <2>3. Route'
    BY <1>1, <1>0 DEF BeginsSession, Ends, Goes, beginVars, endVars, StartInv, Route, StartTyped
  <2>4. FactsTrue'
    BY <1>1 DEF BeginsSession, Ends, Goes, beginVars, endVars, StartInv, FactsTrue, CashLeft, Overlay, Simulated, Venue
  <2>5. OutcomeTrue'
    BY <1>1, <1>0 DEF BeginsSession, Ends, Goes, beginVars, endVars, StartInv, Route, OutcomeTrue, Ending, TrulyMet, Overlay, Simulated, Venue
  <2>6. Ending'
    BY <1>1, <1>0 DEF BeginsSession, Ends, Goes, beginVars, endVars, StartInv, Route, Ending
  <2> QED
    BY <2>1, <2>2, <2>3, <2>4, <2>5, <2>6 DEF StartInv
<1>2. CASE \E s \in Sources : OpensUpstream(s)
  <2>1. StartTyped'
    BY <1>2, <1>0, StartBounds DEF OpensUpstream, Withhold, beginVars, endVars, StartInv, StartTyped,
       Stages
  <2>2. StartFlags'
    BY <1>2 DEF OpensUpstream, Withhold, beginVars, endVars, StartInv, StartFlags
  <2>3. Route'
    BY <1>2, <1>0 DEF OpensUpstream, Withhold, beginVars, endVars, StartInv, Route, StartTyped
  <2>4. FactsTrue'
    BY <1>2 DEF OpensUpstream, Withhold, beginVars, endVars, StartInv, FactsTrue, CashLeft, Overlay, Simulated, Venue
  <2>5. OutcomeTrue'
    BY <1>2, <1>0 DEF OpensUpstream, Withhold, beginVars, endVars, StartInv, Route, OutcomeTrue, Ending, TrulyMet, Overlay, Simulated, Venue
  <2>6. Ending'
    BY <1>2, <1>0 DEF OpensUpstream, Withhold, beginVars, endVars, StartInv, Route, Ending
  <2> QED
    BY <2>1, <2>2, <2>3, <2>4, <2>5, <2>6 DEF StartInv
<1>3. CASE UpstreamsOpened
  <2>1. StartTyped'
    BY <1>3, <1>0, StartBounds DEF UpstreamsOpened, Goes, Upstreams, beginVars, endVars, StartInv, StartTyped,
       Stages
  <2>2. StartFlags'
    BY <1>3 DEF UpstreamsOpened, Goes, Upstreams, beginVars, endVars, StartInv, StartFlags
  <2>3. Route'
    BY <1>3, <1>0 DEF UpstreamsOpened, Goes, Upstreams, beginVars, endVars, StartInv, Route, StartTyped
  <2>4. FactsTrue'
    BY <1>3 DEF UpstreamsOpened, Goes, Upstreams, beginVars, endVars, StartInv, FactsTrue, CashLeft, Overlay, Simulated, Venue
  <2>5. OutcomeTrue'
    BY <1>3, <1>0 DEF UpstreamsOpened, Goes, Upstreams, beginVars, endVars, StartInv, Route, OutcomeTrue, Ending, TrulyMet, Overlay, Simulated, Venue
  <2>6. Ending'
    BY <1>3, <1>0 DEF UpstreamsOpened, Goes, Upstreams, beginVars, endVars, StartInv, Route, Ending
  <2> QED
    BY <2>1, <2>2, <2>3, <2>4, <2>5, <2>6 DEF StartInv
<1>4. CASE ChecksAccount
  <2>1. StartTyped'
    BY <1>4, <1>0, StartBounds DEF ChecksAccount, Goes, Withhold, beginVars, endVars, StartInv, StartTyped,
       Stages
  <2>2. StartFlags'
    BY <1>4 DEF ChecksAccount, Goes, Withhold, beginVars, endVars, StartInv, StartFlags
  <2>3. Route'
    BY <1>4, <1>0 DEF ChecksAccount, Goes, Withhold, beginVars, endVars, StartInv, Route, StartTyped
  <2>4. FactsTrue'
    BY <1>4 DEF ChecksAccount, Goes, Withhold, beginVars, endVars, StartInv, FactsTrue, CashLeft, Overlay, Simulated, Venue
  <2>5. OutcomeTrue'
    BY <1>4, <1>0 DEF ChecksAccount, Goes, Withhold, beginVars, endVars, StartInv, Route, OutcomeTrue, Ending, TrulyMet, Overlay, Simulated, Venue
  <2>6. Ending'
    BY <1>4, <1>0 DEF ChecksAccount, Goes, Withhold, beginVars, endVars, StartInv, Route, Ending
  <2> QED
    BY <2>1, <2>2, <2>3, <2>4, <2>5, <2>6 DEF StartInv
<1>5. CASE AccountChecked
  <2>1. StartTyped'
    BY <1>5, <1>0, StartBounds DEF AccountChecked, Ends, Goes, Upstreams, beginVars, endVars, StartInv, StartTyped,
       Stages
  <2>2. StartFlags'
    BY <1>5 DEF AccountChecked, Ends, Goes, Upstreams, beginVars, endVars, StartInv, StartFlags
  <2>3. Route'
    BY <1>5, <1>0 DEF AccountChecked, Ends, Goes, Upstreams, beginVars, endVars, StartInv, Route, StartTyped
  <2>4. FactsTrue'
    BY <1>5 DEF AccountChecked, Ends, Goes, Upstreams, beginVars, endVars, StartInv, FactsTrue, CashLeft, Overlay, Simulated, Venue
  <2>5. OutcomeTrue'
    BY <1>5, <1>0 DEF AccountChecked, Ends, Goes, Upstreams, beginVars, endVars, StartInv, Route, OutcomeTrue, Ending, TrulyMet, Overlay, Simulated, Venue
  <2>6. Ending'
    BY <1>5, <1>0 DEF AccountChecked, Ends, Goes, Upstreams, beginVars, endVars, StartInv, Route, Ending
  <2> QED
    BY <2>1, <2>2, <2>3, <2>4, <2>5, <2>6 DEF StartInv
<1>6. CASE ReadsCash
  <2>0. /\ stage \in {"read cash", "read shares", "read shorts"}
        /\ stage' \in {"read shares", "read shorts", "decide"}
        /\ stage' = "read shares" => stage = "read cash"
        /\ UNCHANGED <<setup, account, outcome, untried, withheld, stopAsked, endVars>>
    BY <1>6 DEF ReadsCash, Read, Goes
  <2>1. StartTyped'
    <3>1. facts' \in Facts
      BY <1>6, <1>0, StartBounds, TrueFacts, AccountTyped DEF ReadsCash, Read, Goes, StartInv, StartTyped, Facts,
         CashLeft
    <3> QED
      BY <2>0, <3>1 DEF endVars, StartInv, StartTyped, Stages
  <2>2. StartFlags'
    BY <2>0 DEF endVars, StartInv, StartFlags
  <2>3. Route'
    BY <2>0 DEF endVars, StartInv, Route
  <2>4. FactsTrue'
    BY <1>6, <2>0 DEF ReadsCash, Read, Goes, StartInv, StartTyped, Facts, FactsTrue, CashLeft, Overlay,
       Simulated, Venue
  <2>5. OutcomeTrue'
    BY <2>0 DEF endVars, StartInv, Ending, OutcomeTrue, TrulyMet, Overlay, Simulated, Venue
  <2>6. Ending'
    BY <2>0 DEF endVars, StartInv, Ending
  <2> QED
    BY <2>1, <2>2, <2>3, <2>4, <2>5, <2>6 DEF StartInv
<1>7. CASE ReadsShares
  <2>0. /\ stage \in {"read cash", "read shares", "read shorts"}
        /\ stage' \in {"read shares", "read shorts", "decide"}
        /\ stage' = "read shares" => stage = "read cash"
        /\ UNCHANGED <<setup, account, outcome, untried, withheld, stopAsked, endVars>>
    BY <1>7 DEF ReadsShares, Read, Goes
  <2>1. StartTyped'
    <3>1. facts' \in Facts
      BY <1>7, <1>0, StartBounds, TrueFacts, AccountTyped DEF ReadsShares, Read, Goes, StartInv, StartTyped, Facts,
         CashLeft
    <3> QED
      BY <2>0, <3>1 DEF endVars, StartInv, StartTyped, Stages
  <2>2. StartFlags'
    BY <2>0 DEF endVars, StartInv, StartFlags
  <2>3. Route'
    BY <2>0 DEF endVars, StartInv, Route
  <2>4. FactsTrue'
    BY <1>7, <2>0 DEF ReadsShares, Read, Goes, StartInv, StartTyped, Facts, FactsTrue, CashLeft, Overlay,
       Simulated, Venue
  <2>5. OutcomeTrue'
    BY <2>0 DEF endVars, StartInv, Ending, OutcomeTrue, TrulyMet, Overlay, Simulated, Venue
  <2>6. Ending'
    BY <2>0 DEF endVars, StartInv, Ending
  <2> QED
    BY <2>1, <2>2, <2>3, <2>4, <2>5, <2>6 DEF StartInv
<1>8. CASE ReadsShorts
  <2>0. /\ stage \in {"read cash", "read shares", "read shorts"}
        /\ stage' \in {"read shares", "read shorts", "decide"}
        /\ stage' = "read shares" => stage = "read cash"
        /\ UNCHANGED <<setup, account, outcome, untried, withheld, stopAsked, endVars>>
    BY <1>8 DEF ReadsShorts, ShortsRead, Goes
  <2>1. StartTyped'
    <3>1. facts' \in Facts
      BY <1>8, <1>0, StartBounds, TrueFacts, AccountTyped DEF ReadsShorts, ShortsRead, Goes, StartInv, StartTyped, Facts,
         CashLeft
    <3> QED
      BY <2>0, <3>1 DEF endVars, StartInv, StartTyped, Stages
  <2>2. StartFlags'
    BY <2>0 DEF endVars, StartInv, StartFlags
  <2>3. Route'
    BY <2>0 DEF endVars, StartInv, Route
  <2>4. FactsTrue'
    <3>1. PICK shorts \in {Unknown} \cup 0..(2 * MaxShort), paged \in BOOLEAN :
            ShortsRead(shorts, paged) /\ facts' = [facts EXCEPT !.shorts = shorts, !.paged = paged]
      BY <1>8 DEF ReadsShorts
    <3>2. /\ facts'.shorts = shorts /\ facts'.paged = paged
          /\ facts'.cash = facts.cash /\ facts'.shares = facts.shares
      BY <3>1 DEF StartInv, StartTyped, Facts
    <3>3. paged => account.short > 0
      BY <3>1 DEF ShortsRead
    <3>4. shorts = Unknown \/ shorts = Overlay(account.short)
      BY <3>1 DEF ShortsRead
    <3> QED
      BY <2>0, <3>2, <3>3, <3>4 DEF StartInv, FactsTrue, CashLeft, Overlay, Simulated, Venue
  <2>5. OutcomeTrue'
    BY <2>0 DEF endVars, StartInv, Ending, OutcomeTrue, TrulyMet, Overlay, Simulated, Venue
  <2>6. Ending'
    BY <2>0 DEF endVars, StartInv, Ending
  <2> QED
    BY <2>1, <2>2, <2>3, <2>4, <2>5, <2>6 DEF StartInv
<1>9. CASE DecidesStart
  <2>0. /\ stage \in {"decide", "unread"}
        /\ UNCHANGED <<setup, account, facts, untried, withheld, stopAsked>>
        /\ UNCHANGED <<prompted, initSeen, reply, saved>>
    BY <1>9 DEF DecidesStart, Ends, Goes, endVars
  <2>1. /\ stage = "decide" => outcome' = IF setup.role = "close" THEN CloseOutcome ELSE SellOutcome
        /\ stage = "unread" => outcome' = IF Venue = "none" THEN "unchecked" ELSE "unavailable"
    BY <1>9, <2>0 DEF DecidesStart
  <2>2. outcome' \in {"met", "not_met", "unavailable", "unchecked"}
    BY <2>0, <2>1 DEF CloseOutcome, SellOutcome
  <2>3. \/ outcome' \in {"met", "unchecked"} /\ stage' = "client" /\ status' = status
        \/ outcome' = "not_met" /\ stage' = "over" /\ status' = "skipped"
        \/ outcome' = "unavailable" /\ stage' = "over" /\ status' = "not_started"
    BY <1>9, <2>2 DEF DecidesStart, Ends, Goes, endVars
  <2>4. stage = "decide" => setup.role \in {"close", "sell"}
    BY <1>0 DEF StartInv, Route
  <2>5. /\ outcome' = "met" => TrulyMet /\ setup.serve[Robinhood] = "proxied"
        /\ outcome' = "not_met" => ~TrulyMet
        /\ outcome' = "unchecked" => Venue = "none" /\ setup.serve[Robinhood] = "direct"
    <3>1. CASE stage = "decide"
      BY <2>1, <2>2, <2>4, <3>1, DecidedTruly DEF StartInv, Route
    <3>2. CASE stage = "unread"
      BY <2>1, <3>2 DEF StartInv, Route
    <3> QED
      BY <2>0, <3>1, <3>2
  <2>6. StartTyped'
    BY <2>0, <2>2, <2>3 DEF StartInv, StartTyped, Stages
  <2>7. StartFlags'
    BY <2>0 DEF StartInv, StartFlags
  <2>8. Route'
    BY <2>0, <2>3 DEF StartInv, Route
  <2>9. FactsTrue'
    BY <2>0 DEF StartInv, FactsTrue, CashLeft, Overlay, Simulated, Venue
  <2>10. TrulyMet' = TrulyMet /\ Venue' = Venue
    BY <2>0 DEF TrulyMet, Overlay, Simulated, Venue
  <2>11. ~prompted
    BY <2>0 DEF StartInv, Ending
  <2>12. OutcomeTrue'
    BY <2>0, <2>3, <2>5, <2>10, <2>11 DEF StartInv, OutcomeTrue
  <2>13. Ending'
    BY <2>0, <2>3, <2>11 DEF StartInv, Ending
  <2> QED
    BY <2>6, <2>7, <2>8, <2>9, <2>12, <2>13 DEF StartInv
<1>10. CASE StartsClient
  <2>1. StartTyped'
    BY <1>10, <1>0, StartBounds DEF StartsClient, Goes, ClosesWith, beginVars, endVars, StartInv, StartTyped,
       Stages
  <2>2. StartFlags'
    BY <1>10 DEF StartsClient, Goes, ClosesWith, beginVars, endVars, StartInv, StartFlags
  <2>3. Route'
    BY <1>10, <1>0 DEF StartsClient, Goes, ClosesWith, beginVars, endVars, StartInv, Route, StartTyped
  <2>4. FactsTrue'
    BY <1>10 DEF StartsClient, Goes, ClosesWith, beginVars, endVars, StartInv, FactsTrue, CashLeft, Overlay, Simulated, Venue
  <2>5. OutcomeTrue'
    BY <1>10, <1>0 DEF StartsClient, Goes, ClosesWith, beginVars, endVars, StartInv, Route, OutcomeTrue, Ending, TrulyMet, Overlay, Simulated, Venue
  <2>6. Ending'
    BY <1>10, <1>0 DEF StartsClient, Goes, ClosesWith, beginVars, endVars, StartInv, Route, Ending
  <2> QED
    BY <2>1, <2>2, <2>3, <2>4, <2>5, <2>6 DEF StartInv
<1>11. CASE PollsServers
  <2>1. StartTyped'
    BY <1>11, <1>0, StartBounds DEF PollsServers, Goes, Withhold, Direct, beginVars, endVars, StartInv, StartTyped,
       Stages
  <2>2. StartFlags'
    BY <1>11 DEF PollsServers, Goes, Withhold, Direct, beginVars, endVars, StartInv, StartFlags
  <2>3. Route'
    BY <1>11, <1>0 DEF PollsServers, Goes, Withhold, Direct, beginVars, endVars, StartInv, Route, StartTyped
  <2>4. FactsTrue'
    BY <1>11 DEF PollsServers, Goes, Withhold, Direct, beginVars, endVars, StartInv, FactsTrue, CashLeft, Overlay, Simulated, Venue
  <2>5. OutcomeTrue'
    BY <1>11, <1>0 DEF PollsServers, Goes, Withhold, Direct, beginVars, endVars, StartInv, Route, OutcomeTrue, Ending, TrulyMet, Overlay, Simulated, Venue
  <2>6. Ending'
    BY <1>11, <1>0 DEF PollsServers, Goes, Withhold, Direct, beginVars, endVars, StartInv, Route, Ending
  <2> QED
    BY <2>1, <2>2, <2>3, <2>4, <2>5, <2>6 DEF StartInv
<1>12. CASE Prompts
  <2>1. StartTyped'
    BY <1>12, <1>0, StartBounds DEF Prompts, Ends, beginVars, endVars, StartInv, StartTyped,
       Stages
  <2>2. StartFlags'
    BY <1>12 DEF Prompts, Ends, beginVars, endVars, StartInv, StartFlags
  <2>3. Route'
    BY <1>12, <1>0 DEF Prompts, Ends, beginVars, endVars, StartInv, Route, StartTyped
  <2>4. FactsTrue'
    BY <1>12 DEF Prompts, Ends, beginVars, endVars, StartInv, FactsTrue, CashLeft, Overlay, Simulated, Venue
  <2>5. OutcomeTrue'
    BY <1>12, <1>0 DEF Prompts, Ends, beginVars, endVars, StartInv, Route, OutcomeTrue, Ending, TrulyMet, Overlay, Simulated, Venue
  <2>6. Ending'
    BY <1>12, <1>0 DEF Prompts, Ends, beginVars, endVars, StartInv, Route, Ending
  <2> QED
    BY <2>1, <2>2, <2>3, <2>4, <2>5, <2>6 DEF StartInv
<1>13. CASE ChecksInit
  <2>1. StartTyped'
    BY <1>13, <1>0, StartBounds DEF ChecksInit, Withhold, Direct, Upstreams, beginVars, endVars, StartInv, StartTyped,
       Stages
  <2>2. StartFlags'
    BY <1>13 DEF ChecksInit, Withhold, Direct, Upstreams, beginVars, endVars, StartInv, StartFlags
  <2>3. Route'
    BY <1>13, <1>0 DEF ChecksInit, Withhold, Direct, Upstreams, beginVars, endVars, StartInv, Route, StartTyped
  <2>4. FactsTrue'
    BY <1>13 DEF ChecksInit, Withhold, Direct, Upstreams, beginVars, endVars, StartInv, FactsTrue, CashLeft, Overlay, Simulated, Venue
  <2>5. OutcomeTrue'
    BY <1>13, <1>0 DEF ChecksInit, Withhold, Direct, Upstreams, beginVars, endVars, StartInv, Route, OutcomeTrue, Ending, TrulyMet, Overlay, Simulated, Venue
  <2>6. Ending'
    BY <1>13, <1>0 DEF ChecksInit, Withhold, Direct, Upstreams, beginVars, endVars, StartInv, Route, Ending
  <2> QED
    BY <2>1, <2>2, <2>3, <2>4, <2>5, <2>6 DEF StartInv
<1>14. CASE EndsTalk
  <2>1. StartTyped'
    BY <1>14, <1>0, StartBounds DEF EndsTalk, ClosesWith, beginVars, endVars, StartInv, StartTyped,
       Stages
  <2>2. StartFlags'
    BY <1>14 DEF EndsTalk, ClosesWith, beginVars, endVars, StartInv, StartFlags
  <2>3. Route'
    BY <1>14, <1>0 DEF EndsTalk, ClosesWith, beginVars, endVars, StartInv, Route, StartTyped
  <2>4. FactsTrue'
    BY <1>14 DEF EndsTalk, ClosesWith, beginVars, endVars, StartInv, FactsTrue, CashLeft, Overlay, Simulated, Venue
  <2>5. OutcomeTrue'
    BY <1>14, <1>0 DEF EndsTalk, ClosesWith, beginVars, endVars, StartInv, Route, OutcomeTrue, Ending, TrulyMet, Overlay, Simulated, Venue
  <2>6. Ending'
    BY <1>14, <1>0 DEF EndsTalk, ClosesWith, beginVars, endVars, StartInv, Route, Ending
  <2> QED
    BY <2>1, <2>2, <2>3, <2>4, <2>5, <2>6 DEF StartInv
<1>15. CASE Persists
  <2>1. StartTyped'
    BY <1>15, <1>0, StartBounds DEF Persists, beginVars, endVars, StartInv, StartTyped,
       Stages
  <2>2. StartFlags'
    BY <1>15 DEF Persists, beginVars, endVars, StartInv, StartFlags
  <2>3. Route'
    BY <1>15, <1>0 DEF Persists, beginVars, endVars, StartInv, Route, StartTyped
  <2>4. FactsTrue'
    BY <1>15 DEF Persists, beginVars, endVars, StartInv, FactsTrue, CashLeft, Overlay, Simulated, Venue
  <2>5. OutcomeTrue'
    BY <1>15, <1>0 DEF Persists, beginVars, endVars, StartInv, Route, OutcomeTrue, Ending, TrulyMet, Overlay, Simulated, Venue
  <2>6. Ending'
    BY <1>15, <1>0 DEF Persists, beginVars, endVars, StartInv, Route, Ending
  <2> QED
    BY <2>1, <2>2, <2>3, <2>4, <2>5, <2>6 DEF StartInv
<1>16. CASE AsksStop
  <2>1. StartTyped'
    BY <1>16, <1>0, StartBounds DEF AsksStop, beginVars, endVars, StartInv, StartTyped,
       Stages
  <2>2. StartFlags'
    BY <1>16 DEF AsksStop, beginVars, endVars, StartInv, StartFlags
  <2>3. Route'
    BY <1>16, <1>0 DEF AsksStop, beginVars, endVars, StartInv, Route, StartTyped
  <2>4. FactsTrue'
    BY <1>16 DEF AsksStop, beginVars, endVars, StartInv, FactsTrue, CashLeft, Overlay, Simulated, Venue
  <2>5. OutcomeTrue'
    BY <1>16, <1>0 DEF AsksStop, beginVars, endVars, StartInv, Route, OutcomeTrue, Ending, TrulyMet, Overlay, Simulated, Venue
  <2>6. Ending'
    BY <1>16, <1>0 DEF AsksStop, beginVars, endVars, StartInv, Route, Ending
  <2> QED
    BY <2>1, <2>2, <2>3, <2>4, <2>5, <2>6 DEF StartInv
<1>17. CASE UNCHANGED startVars
  <2>1. StartTyped' /\ Route'
    BY <1>17 DEF startVars, beginVars, endVars, StartInv, StartTyped, Route
  <2>5. StartFlags'
    BY <1>17 DEF startVars, beginVars, endVars, StartInv, StartFlags
  <2>2. FactsTrue'
    BY <1>17 DEF startVars, beginVars, StartInv, FactsTrue, CashLeft, Overlay, Simulated, Venue
  <2>3. OutcomeTrue'
    BY <1>17 DEF startVars, beginVars, endVars, StartInv, OutcomeTrue, TrulyMet, Overlay,
       Simulated, Venue
  <2>4. Ending'
    BY <1>17 DEF startVars, beginVars, endVars, StartInv, Ending
  <2> QED
    BY <2>1, <2>2, <2>3, <2>4, <2>5 DEF StartInv
<1> QED
  BY <1>1, <1>2, <1>3, <1>4, <1>5, <1>6, <1>7, <1>8, <1>9, <1>10, <1>11, <1>12, <1>13, <1>14, <1>15, <1>16, <1>17
     DEF StartNext

\* What a beginning keeps is what is asked of it.
LEMMA StartIsSound ==
  ASSUME StartInv
  PROVE  StartTypeOK /\ StartSound
<1>1. StartTypeOK
  BY DEF StartInv, StartTyped, StartFlags, StartTypeOK
<1>2. StartSound
  BY DEF StartInv, OutcomeTrue, Ending, StartSound
<1> QED
  BY <1>1, <1>2

-----------------------------------------------------------------------------
(* The plan of a walk.  Rounding is in the trader's favour, so no step     *)
(* concedes more than the linear price; and every step kept lies strictly  *)
(* beyond the one before, between the two ends.                            *)

Gaps == ask.steps - 1
Within(p) == ~Moves(p, ask.start) /\ ~Moves(ask.worst, p)
AskFits == IsValid(ask.start) /\ IsValid(ask.worst) /\ ~Moves(ask.worst, ask.start)

\* What holds of every price in the plan.
PriceFits(e) ==
  /\ e.k \in 0..MaxWalk /\ e.price \in 1..MaxPrice
  /\ IsValid(e.price) /\ Within(e.price)
  /\ ask.steps > 1 => ~Moves(Linear(e.k), e.price * Gaps)

PricesFit == \A i \in 1..Len(prices) : PriceFits(prices[i])
Ordered == \A i, j \in 1..Len(prices) : i < j => Moves(prices[i].price, prices[j].price)

PlanTyped ==
  /\ ask \in Asks /\ step \in 0..MaxWalk
  /\ prices \in Seq([k : 0..MaxWalk, price : 1..MaxPrice])
  /\ verdict \in {"planning", "planned", "refused"}

\* How far the loop is, and what it has kept.
Looping ==
  /\ verdict = "planning" => step < ask.steps /\ Len(prices) <= step /\ (step = 0 <=> prices = <<>>)
  /\ step > 0 => AskFits /\ ask.steps > 1
  /\ Len(prices) <= MaxWalk
  /\ prices # <<>> => prices[1].price = ask.start
  /\ verdict = "planned" =>
       prices # <<>> /\ (ask.steps > 1 => prices[Len(prices)].price = ask.worst)

PlanInv == PlanTyped /\ Looping /\ PricesFit /\ Ordered

LEMMA AskTyped ==
  ASSUME ask \in Asks
  PROVE  /\ ask.start \in Nat /\ ask.start > 0 /\ ask.start <= MaxPrice
         /\ ask.worst \in Nat /\ ask.worst > 0 /\ ask.worst <= MaxPrice
         /\ ask.steps \in Nat /\ ask.steps > 0 /\ ask.steps <= MaxWalk
         /\ ask.selling \in BOOLEAN
         /\ ask.above \in Nat /\ ask.above > 0 /\ ask.below \in Nat /\ ask.below > 0
         /\ ask.cutoff \in Nat /\ MaxPrice \in Nat /\ MaxWalk \in Nat
<1>1. MaxPrice \in Nat /\ MaxWalk \in Nat /\ \A t \in TickSizes : t \in Nat /\ t > 0
  BY PlanAssumption
<1>2. ask.selling \in BOOLEAN
  BY DEF Asks
<1>3. /\ ask.start \in 1..MaxPrice /\ ask.worst \in 1..MaxPrice /\ ask.steps \in 1..MaxWalk
      /\ ask.above \in TickSizes /\ ask.below \in TickSizes /\ ask.cutoff \in 0..MaxPrice
  BY DEF Asks
<1> QED
  BY <1>1, <1>2, <1>3

\* Division rounds down.
LEMMA Divides ==
  ASSUME NEW a \in Int, NEW b \in Nat, b > 0
  PROVE  a \div b \in Int /\ (a \div b) * b <= a /\ a < (a \div b) * b + b
OBVIOUS

LEMMA TickTyped ==
  ASSUME ask \in Asks, NEW num \in Int, NEW den \in Nat
  PROVE  TickAt(num, den) \in Nat /\ TickAt(num, den) > 0
BY AskTyped DEF TickAt

\* A rounded price is no worse for the trader than the exact one.
LEMMA RoundOnFavours ==
  ASSUME ask \in Asks, NEW num \in Int, NEW den \in Nat, den > 0, NEW tick \in Nat, tick > 0
  PROVE  /\ RoundOn(num, den, tick) \in Int
         /\ ask.selling => num <= RoundOn(num, den, tick) * den
         /\ ~ask.selling => RoundOn(num, den, tick) * den <= num
<1>1. den * tick \in Nat /\ den * tick > 0
  OBVIOUS
<1>2. CASE ask.selling
  <2> DEFINE c == (-num) \div (den * tick)
  <2>1. c \in Int /\ c * (den * tick) <= -num
    BY <1>1, Divides
  <2>2. RoundOn(num, den, tick) = (-c) * tick
    BY <1>2 DEF RoundOn, CeilDiv
  <2> HIDE DEF c
  <2>3. ((-c) * tick) * den = -(c * (den * tick))
    BY <2>1
  <2> QED
    BY <1>2, <2>1, <2>2, <2>3
<1>3. CASE ~ask.selling
  <2> DEFINE c == num \div (den * tick)
  <2>1. c \in Int /\ c * (den * tick) <= num
    BY <1>1, Divides
  <2>2. RoundOn(num, den, tick) = c * tick
    BY <1>3 DEF RoundOn
  <2> HIDE DEF c
  <2>3. (c * tick) * den = c * (den * tick)
    BY <2>1
  <2> QED
    BY <1>3, <2>1, <2>2, <2>3
<1> QED
  BY <1>2, <1>3

\* A price on its tick is rounded to itself.
LEMMA RoundOnExact ==
  ASSUME ask \in Asks, NEW p \in Nat, NEW den \in Nat, den > 0, NEW tick \in Nat, tick > 0,
         p % tick = 0
  PROVE  RoundOn(p * den, den, tick) = p
<1> DEFINE m == p \div tick
<1>1. m \in Int /\ p = m * tick
  OBVIOUS
<1> HIDE DEF m
<1> DEFINE d == den * tick
<1>2. d \in Nat /\ d > 0 /\ p * den = m * d
  BY <1>1
<1>3. (m * d) \div d = m /\ (-(m * d)) \div d = -m
  <2> HIDE DEF d
  <2> QED
    BY <1>1, <1>2
<1> QED
  BY <1>1, <1>2, <1>3 DEF RoundOn, CeilDiv

LEMMA RoundedFavours ==
  ASSUME ask \in Asks, NEW num \in Int, NEW den \in Nat, den > 0
  PROVE  /\ Rounded(num, den) \in Int
         /\ ask.selling => num <= Rounded(num, den) * den
         /\ ~ask.selling => Rounded(num, den) * den <= num
<1> DEFINE once == RoundOn(num, den, TickAt(num, den))
<1>1. once \in Int
  BY TickTyped, RoundOnFavours
<1>2. TickAt(once, 1) \in Nat /\ TickAt(once, 1) > 0
  BY <1>1, TickTyped
<1>3. Rounded(num, den) \in {once, RoundOn(num, den, TickAt(once, 1))}
  BY DEF Rounded
<1> QED
  BY <1>2, <1>3, TickTyped, RoundOnFavours

\* The first price is start_price itself.
LEMMA FirstIsStart ==
  ASSUME ask \in Asks, IsValid(ask.start), ask.steps > 1
  PROVE  Rounded(Linear(0), Gaps) = ask.start
<1>1. Gaps \in Nat /\ Gaps > 0 /\ Linear(0) = ask.start * Gaps
  BY AskTyped DEF Gaps, Linear
<1>2. ask.start * Gaps >= ask.cutoff * Gaps <=> ask.start >= ask.cutoff * 1
  BY <1>1, AskTyped
<1>3. TickAt(ask.start * Gaps, Gaps) = TickAt(ask.start, 1)
  BY <1>2 DEF TickAt
<1>4. RoundOn(ask.start * Gaps, Gaps, TickAt(ask.start, 1)) = ask.start
  <2> DEFINE tick == TickAt(ask.start, 1)
  <2>1. tick \in Nat /\ tick > 0 /\ ask.start % tick = 0
    <3>1. tick \in Nat /\ tick > 0
      BY AskTyped DEF TickAt
    <3>2. ask.start % tick = 0
      BY DEF IsValid
    <3> QED
      BY <3>1, <3>2
  <2> HIDE DEF tick
  <2>2. RoundOn(ask.start * Gaps, Gaps, tick) = ask.start
    BY <1>1, <2>1, AskTyped, RoundOnExact
  <2> QED
    BY <2>2 DEF tick
<1> QED
  BY <1>1, <1>3, <1>4 DEF Rounded

LEMMA LinearTyped ==
  ASSUME ask \in Asks, NEW k \in Nat
  PROVE  Linear(k) \in Int
BY AskTyped DEF Linear

\* What a step of the loop may add: a valid price that concedes no more than the linear one and
\* does not pass the worst.
LEMMA StepFits ==
  ASSUME ask \in Asks, AskFits, ask.steps > 1, NEW k \in 0..Gaps, NEW p,
         p = IF k = Gaps THEN ask.worst ELSE Rounded(Linear(k), Gaps),
         k = Gaps \/ IsValid(p)
  PROVE  /\ Clamped(p) \in Int /\ IsValid(Clamped(p)) /\ ~Moves(ask.worst, Clamped(p))
         /\ ~Moves(Linear(k), Clamped(p) * Gaps)
         /\ k = Gaps => Clamped(p) = ask.worst
         /\ k = 0 => Clamped(p) = ask.start
<1>1. Gaps \in Nat /\ Gaps > 0
  BY AskTyped DEF Gaps
<1>2. Linear(k) \in Int
  BY <1>1, LinearTyped
<1>3. Linear(Gaps) = ask.worst * Gaps
  BY <1>1, AskTyped DEF Linear, Gaps
<1>4. p \in Int /\ (ask.selling => Linear(k) <= p * Gaps) /\ (~ask.selling => p * Gaps <= Linear(k))
  <2>1. CASE k = Gaps
    BY <1>1, <1>3, <2>1, AskTyped
  <2>2. CASE k # Gaps
    <3>1. p = Rounded(Linear(k), Gaps)
      BY <2>2
    <3> QED
      BY <1>1, <1>2, <3>1, RoundedFavours
  <2> QED
    BY <2>1, <2>2
<1>6. IsValid(p)
  BY DEF AskFits
<1>7. Clamped(p) \in {p, ask.worst} /\ Clamped(p) \in Int
  BY <1>4, AskTyped DEF Clamped
<1>8. IsValid(Clamped(p))
  BY <1>6, <1>7 DEF AskFits
<1>9. ~Moves(ask.worst, Clamped(p))
  BY <1>4, AskTyped DEF Clamped, Moves
<1>10. ~Moves(Linear(k), Clamped(p) * Gaps)
  <2>1. CASE ask.selling
    <3>1. p <= Clamped(p)
      BY <1>4, <2>1, AskTyped DEF Clamped
    <3>2. p * Gaps <= Clamped(p) * Gaps
      BY <1>1, <1>4, <1>7, <3>1
    <3> QED
      BY <1>1, <1>2, <1>4, <1>7, <2>1, <3>2 DEF Moves
  <2>2. CASE ~ask.selling
    <3>1. Clamped(p) <= p
      BY <1>4, <2>2, AskTyped DEF Clamped
    <3>2. Clamped(p) * Gaps <= p * Gaps
      BY <1>1, <1>4, <1>7, <3>1
    <3> QED
      BY <1>1, <1>2, <1>4, <1>7, <2>2, <3>2 DEF Moves
  <2> QED
    BY <2>1, <2>2
<1>11. k = Gaps => Clamped(p) = ask.worst
  BY DEF Clamped
<1>12. k = 0 => Clamped(p) = ask.start
  <2>1. k = 0 => p = ask.start
    BY <1>1, FirstIsStart DEF AskFits
  <2> QED
    BY <2>1, AskTyped DEF Clamped, Moves, AskFits
<1> QED
  BY <1>7, <1>8, <1>9, <1>10, <1>11, <1>12

\* One more price at the end of a plan.
LEMMA Appended ==
  ASSUME PlanTyped, PricesFit, Ordered, NEW e, e \in [k : 0..MaxWalk, price : 1..MaxPrice],
         PriceFits(e), prices # <<>> => Moves(prices[Len(prices)].price, e.price),
         prices' = Append(prices, e), UNCHANGED ask
  PROVE  /\ prices' \in Seq([k : 0..MaxWalk, price : 1..MaxPrice]) /\ PricesFit' /\ Ordered'
         /\ Len(prices') = Len(prices) + 1 /\ prices'[Len(prices')] = e
         /\ prices # <<>> => prices'[1] = prices[1]
<1>1. /\ prices' \in Seq([k : 0..MaxWalk, price : 1..MaxPrice])
      /\ Len(prices') = Len(prices) + 1 /\ Len(prices) \in Nat
      /\ \A i \in 1..Len(prices) : prices'[i] = prices[i]
      /\ prices'[Len(prices) + 1] = e
  BY DEF PlanTyped
<1>2. prices # <<>> => 1 \in 1..Len(prices)
  BY DEF PlanTyped
<1>3. \A x : PriceFits(x) => PriceFits(x)'
  BY DEF PriceFits, IsValid, TickAt, Within, Moves, Linear, Gaps
<1>4. PricesFit'
  <2> SUFFICES ASSUME NEW i \in 1..Len(prices')
               PROVE  PriceFits(prices[i])'
    BY DEF PricesFit
  <2>1. CASE i \in 1..Len(prices)
    BY <1>1, <1>3, <2>1 DEF PricesFit
  <2>2. CASE i = Len(prices) + 1
    BY <1>1, <1>3, <2>2
  <2> QED
    BY <1>1, <2>1, <2>2
<1>5. Ordered'
  <2> SUFFICES ASSUME NEW i \in 1..Len(prices'), NEW j \in 1..Len(prices'), i < j
               PROVE  Moves(prices'[i].price, prices'[j].price)
    BY DEF Ordered, Moves
  <2>1. i \in 1..Len(prices) /\ prices'[i] = prices[i] /\ prices # <<>>
    BY <1>1
  <2>2. CASE j \in 1..Len(prices)
    BY <1>1, <2>1, <2>2 DEF Ordered
  <2>3. CASE j = Len(prices) + 1
    <3>1. prices'[j].price = e.price
      BY <1>1, <2>3
    <3>2. i = Len(prices) \/ Moves(prices[i].price, prices[Len(prices)].price)
      BY <1>1, <2>1 DEF Ordered
    <3>3. prices[i].price \in Int /\ prices[Len(prices)].price \in Int /\ e.price \in Int
      BY <1>1, <2>1 DEF PricesFit, PriceFits
    <3> QED
      BY <2>1, <3>1, <3>2, <3>3 DEF Moves
  <2>4. j \in 1..Len(prices) \/ j = Len(prices) + 1
    BY <1>1
  <2> QED
    BY <2>2, <2>3, <2>4
<1> QED
  BY <1>1, <1>2, <1>4, <1>5

\* A plan of one price.
LEMMA PlansOneKeeps ==
  ASSUME PlanInv, PlansOne
  PROVE  PlanInv'
<1> DEFINE e == [k |-> 0, price |-> ask.start]
<1>1. ask \in Asks /\ AskFits /\ step = 0 /\ prices = <<>> /\ UNCHANGED <<ask, step>>
      /\ prices' = <<e>> /\ verdict' = "planned" /\ (ask.steps = 1 \/ ask.start = ask.worst)
  BY DEF PlansOne, PlanInv, PlanTyped, Looping, AskFits
<1>2. e \in [k : 0..MaxWalk, price : 1..MaxPrice] /\ e.k = 0 /\ e.price = ask.start
  BY <1>1, AskTyped
<1>3. PriceFits(e)
  <2>1. Linear(0) = ask.start * Gaps
    BY <1>1, AskTyped DEF Linear, Gaps
  <2>2. ask.start * Gaps \in Int
    BY <1>1, AskTyped DEF Gaps
  <2>3. Within(ask.start)
    BY <1>1, AskTyped DEF Within, Moves, AskFits
  <2> QED
    BY <1>1, <1>2, <2>1, <2>2, <2>3, AskTyped DEF PriceFits, Moves, AskFits
<1> HIDE DEF e
<1>4. /\ prices' \in Seq([k : 0..MaxWalk, price : 1..MaxPrice]) /\ PricesFit' /\ Ordered'
      /\ Len(prices') = 1 /\ prices'[1] = e
  BY <1>1, <1>2, <1>3, Appended DEF PlanInv
<1>5. PlanTyped' /\ Looping'
  BY <1>1, <1>2, <1>4, AskTyped DEF PlanInv, PlanTyped, Looping
<1> QED
  BY <1>4, <1>5 DEF PlanInv

\* A step of the loop: its price is kept if it moves on.
LEMMA PlansStepKeeps ==
  ASSUME PlanInv, PlansStep
  PROVE  PlanInv'
<1> DEFINE p == IF step = Gaps THEN ask.worst ELSE Rounded(Linear(step), Gaps)
           e == [k |-> step, price |-> Clamped(p)]
<1>1. /\ ask \in Asks /\ AskFits /\ ask.steps > 1 /\ verdict = "planning" /\ ask' = ask
      /\ step \in 0..Gaps /\ Len(prices) <= step /\ (step = 0 <=> prices = <<>>)
  BY AskTyped DEF PlansStep, PlanInv, PlanTyped, Looping, AskFits, Gaps
<1>2. IF step = Gaps \/ IsValid(p)
      THEN /\ prices' = IF Keeps(Clamped(p)) THEN Append(prices, e) ELSE prices
           /\ step' = step + 1 /\ verdict' = IF step = Gaps THEN "planned" ELSE verdict
      ELSE verdict' = "refused" /\ UNCHANGED <<step, prices>>
  BY DEF PlansStep, Gaps
<1>3. CASE ~(step = Gaps \/ IsValid(p))
  <2>1. UNCHANGED <<ask, step, prices>> /\ verdict' = "refused"
    BY <1>1, <1>2, <1>3
  <2> QED
    BY <2>1 DEF PlanInv, PlanTyped, Looping, PricesFit, Ordered, PriceFits, IsValid, TickAt,
       Within, Moves, Linear, Gaps, AskFits
<1>4. CASE step = Gaps \/ IsValid(p)
  <2> DEFINE q == Clamped(p)
  <2>1. /\ q \in Int /\ IsValid(q) /\ ~Moves(ask.worst, q) /\ ~Moves(Linear(step), q * Gaps)
        /\ step = Gaps => q = ask.worst
        /\ step = 0 => q = ask.start
    BY <1>1, <1>4, StepFits
  <2>2. /\ prices' = IF Keeps(q) THEN Append(prices, e) ELSE prices
        /\ step' = step + 1 /\ verdict' = IF step = Gaps THEN "planned" ELSE verdict
    BY <1>2, <1>4
  <2>3. e.k = step /\ e.price = q
    OBVIOUS
  <2>4. step \in 0..MaxWalk /\ step + 1 <= ask.steps /\ ask.steps <= MaxWalk /\ step \in Nat
        /\ ask.steps \in Nat /\ MaxWalk \in Nat /\ Gaps = ask.steps - 1
    BY <1>1, AskTyped DEF Gaps
  <2>5. e = [k |-> step, price |-> q]
    OBVIOUS
  <2> HIDE DEF e, q, p
  <2>6. Len(prices) \in Nat /\ (prices # <<>> => Len(prices) \in 1..Len(prices) /\ 1 \in 1..Len(prices))
    BY DEF PlanInv, PlanTyped
  <2>7. prices # <<>> => PriceFits(prices[Len(prices)])
    BY <2>6 DEF PlanInv, PricesFit
  <2>8. CASE Keeps(q)
    <3>1. prices # <<>> => Moves(prices[Len(prices)].price, q)
      BY <2>8 DEF Keeps
    <3>2. ~Moves(q, ask.start)
      <4>1. CASE prices = <<>>
        BY <1>1, <2>1, <4>1, AskTyped DEF Moves
      <4>2. CASE prices # <<>>
        BY <1>1, <2>1, <2>7, <3>1, <4>2, AskTyped DEF PriceFits, Within, Moves
      <4> QED
        BY <4>1, <4>2
    <3>3. q \in 1..MaxPrice
      BY <1>1, <2>1, <3>2, AskTyped DEF Moves
    <3>4. e \in [k : 0..MaxWalk, price : 1..MaxPrice] /\ PriceFits(e)
      BY <2>1, <2>3, <2>4, <2>5, <3>2, <3>3 DEF PriceFits, Within
    <3>5. prices' = Append(prices, e)
      BY <2>2, <2>8
    <3>6. /\ prices' \in Seq([k : 0..MaxWalk, price : 1..MaxPrice]) /\ PricesFit' /\ Ordered'
          /\ Len(prices') = Len(prices) + 1 /\ prices'[Len(prices')] = e
          /\ prices # <<>> => prices'[1] = prices[1]
      BY <1>1, <2>3, <3>1, <3>4, <3>5, Appended DEF PlanInv
    <3>7. PlanTyped'
      BY <1>1, <2>2, <2>4, <3>6 DEF PlanInv, PlanTyped
    <3>8. AskFits' /\ Len(prices') <= step' /\ prices' # <<>>
      <4>1. AskFits'
        BY <1>1 DEF AskFits, IsValid, TickAt, Moves
      <4>2. Len(prices') = Len(prices) + 1 /\ step' = step + 1
        BY <2>2, <3>6
      <4>3. Len(prices') <= step' /\ Len(prices') # 0
        BY <1>1, <2>4, <2>6, <4>2
      <4> QED
        BY <4>1, <4>3
    <3>9. prices'[1].price = ask.start
      <4>1. CASE prices = <<>>
        BY <1>1, <2>1, <2>3, <3>6, <4>1
      <4>2. CASE prices # <<>>
        BY <3>6, <4>2 DEF PlanInv, Looping
      <4> QED
        BY <4>1, <4>2
    <3>10. Looping'
      <4>1. Len(prices') <= MaxWalk
        BY <1>1, <2>4, <2>6, <3>6
      <4>2. verdict' = "planning" => step' < ask.steps
        BY <1>1, <2>2, <2>4
      <4>3. verdict' = "planned" => prices'[Len(prices')].price = ask.worst
        BY <1>1, <2>1, <2>2, <2>3, <3>6
      <4>4. step' # 0 /\ ask' = ask
        BY <1>1, <2>2, <2>4
      <4> QED
        BY <1>1, <3>8, <3>9, <4>1, <4>2, <4>3, <4>4 DEF Looping
    <3> QED
      BY <3>6, <3>7, <3>10 DEF PlanInv
  <2>9. CASE ~Keeps(q)
    <3>1. prices # <<>> /\ ~Moves(prices[Len(prices)].price, q)
      BY <2>9 DEF Keeps
    <3>2. UNCHANGED <<ask, prices>>
      BY <1>1, <2>2, <2>9
    <3>3. step = Gaps => prices[Len(prices)].price = ask.worst
      BY <1>1, <2>1, <2>7, <3>1, AskTyped DEF PriceFits, Within, Moves
    <3>4. PricesFit' /\ Ordered' /\ AskFits'
      BY <1>1, <3>2 DEF PlanInv, PricesFit, Ordered, PriceFits, IsValid, TickAt, Within, Moves,
         Linear, Gaps, AskFits
    <3>5. PlanTyped'
      BY <1>1, <2>2, <2>4, <3>2 DEF PlanInv, PlanTyped
    <3>6. Looping'
      BY <1>1, <2>2, <2>4, <2>6, <3>1, <3>2, <3>3, <3>4 DEF PlanInv, Looping
    <3> QED
      BY <3>4, <3>5, <3>6 DEF PlanInv
  <2> QED
    BY <2>8, <2>9
<1> QED
  BY <1>3, <1>4

LEMMA PlanStarts ==
  ASSUME NEW a \in Asks, PlanBegins(a)
  PROVE  PlanInv
<1>1. prices = <<>> /\ ask \in Asks /\ step = 0 /\ verdict = "planning"
  BY DEF PlanBegins
<1> QED
  BY <1>1, AskTyped DEF PlanInv, PlanTyped, Looping, PricesFit, Ordered

LEMMA PlanKeeps ==
  ASSUME PlanInv, [PlanNext]_planVars
  PROVE  PlanInv'
<1>1. CASE UNCHANGED <<ask, step, prices>> /\ verdict' \in {verdict, "refused"}
  BY <1>1 DEF PlanInv, PlanTyped, Looping, PricesFit, Ordered, PriceFits, IsValid, TickAt, Within,
     Moves, Linear, Gaps, AskFits
<1>2. RefusesAsk => UNCHANGED <<ask, step, prices>> /\ verdict' = "refused"
  BY DEF RefusesAsk
<1> QED
  BY <1>1, <1>2, PlansOneKeeps, PlansStepKeeps DEF PlanNext, planVars

\* The audit of a walk has nothing against any steps of a plan.
LEMMA NothingHeld ==
  ASSUME PlanInv, NEW placed \in SUBSET (1..Len(prices))
  PROVE  WalkHeld(placed) = {}
<1>1. Len(prices) \in Nat /\ Len(prices) <= MaxWalk /\ MaxWalk \in Nat
  BY AskTyped DEF PlanInv, PlanTyped, Looping
<1>2. Cardinality(placed) <= MaxWalk /\ Cardinality(placed) \in Nat
  <2> DEFINE n == Len(prices)
  <2>1. n \in Int /\ 1 \in Int /\ n >= 0 /\ n <= MaxWalk /\ MaxWalk \in Nat
    BY <1>1
  <2> HIDE DEF n
  <2>2. IsFiniteSet(1..n) /\ Cardinality(1..n) = IF 1 > n THEN 0 ELSE n - 1 + 1
    BY <2>1, FS_Interval
  <2>3. Cardinality(1..n) <= MaxWalk
    BY <2>1, <2>2
  <2>4. placed \subseteq 1..n
    BY DEF n
  <2>5. IsFiniteSet(placed) /\ Cardinality(placed) <= Cardinality(1..n)
    BY <2>2, <2>4, FS_Subset
  <2>6. Cardinality(placed) \in Nat /\ Cardinality(1..n) \in Nat
    BY <2>2, <2>5, FS_CardinalityType
  <2> QED
    BY <2>1, <2>3, <2>5, <2>6
<1>3. \A i, j \in placed : i < j => Moves(prices[i].price, prices[j].price)
  BY DEF PlanInv, Ordered
<1>4. \A i \in placed : Within(prices[i].price)
  BY DEF PlanInv, PricesFit, PriceFits
<1> QED
  BY <1>1, <1>2, <1>3, <1>4 DEF WalkHeld, Within

LEMMA PlanIsSound ==
  ASSUME PlanInv
  PROVE  PlanTypeOK /\ PlanSound
<1>1. PlanTypeOK
  BY DEF PlanInv, PlanTyped, PlanTypeOK
<1>2. DOMAIN prices = 1..Len(prices)
  BY DEF PlanInv, PlanTyped
<1>3. \A i \in DOMAIN prices :
        /\ IsValid(prices[i].price)
        /\ ~(ask.steps > 1 /\ Moves(Linear(prices[i].k), prices[i].price * (ask.steps - 1)))
  BY <1>2 DEF PlanInv, PricesFit, PriceFits, Gaps
<1>4. \A placed \in SUBSET DOMAIN prices : WalkHeld(placed) = {}
  BY <1>2, NothingHeld
<1>5. verdict = "planned" =>
        prices[1].price = ask.start /\ (ask.steps > 1 => prices[Len(prices)].price = ask.worst)
  BY DEF PlanInv, Looping
<1> QED
  BY <1>1, <1>3, <1>4, <1>5 DEF PlanSound

-----------------------------------------------------------------------------
(* The simulated venue.  The ref_id of a fill names it: a place call with  *)
(* one that is known is answered again.  What is kept of a contract is the *)
(* sum of its fills, so that a close that it covers is covered by them.    *)

\* The net change of the fills s up to n on a contract, and what one more fill does to it.
NetOf(s, c, n) ==
  SumFunctionOnSet([i \in 1..n |-> s[i].change], {i \in 1..n : s[i].option = c})

LEMMA NetIs ==
  ASSUME NEW s, NEW c, NEW n \in Nat, \A i \in 1..n : s[i].change \in Int
  PROVE  NetOf(s, c, n) \in Int
<1> DEFINE S == {i \in 1..n : s[i].option = c}
           f == [i \in 1..n |-> s[i].change]
<1>1. IsFiniteSet(S)
  <2>1. IsFiniteSet(1..n) /\ S \in SUBSET (1..n)
    BY FS_Interval
  <2> HIDE DEF S
  <2> QED
    BY <2>1, FS_Subset
<1>2. \A i \in S : f[i] \in Int
  OBVIOUS
<1> HIDE DEF S, f
<1>3. SumFunctionOnSet(f, S) \in Int
  BY <1>1, <1>2, SumIs
<1> QED
  BY <1>3 DEF NetOf, S, f

LEMMA NetOfNone ==
  ASSUME NEW s, NEW c PROVE NetOf(s, c, 0) = 0
<1> DEFINE S == {i \in 1..0 : s[i].option = c}
           f == [i \in 1..0 |-> s[i].change]
<1>1. IsFiniteSet(S) /\ \A i \in S : f[i] = 0
  <2>1. S = {}
    OBVIOUS
  <2> QED
    BY <2>1, FS_EmptySet
<1> HIDE DEF S, f
<1>2. SumFunctionOnSet(f, S) = 0
  BY <1>1, SumOfZeros
<1> QED
  BY <1>2 DEF NetOf, S, f

LEMMA NetAgrees ==
  ASSUME NEW s, NEW t, NEW c, NEW n \in Nat, \A i \in 1..n : t[i] = s[i]
  PROVE  NetOf(t, c, n) = NetOf(s, c, n)
<1>1. {i \in 1..n : t[i].option = c} = {i \in 1..n : s[i].option = c}
  OBVIOUS
<1>2. [i \in 1..n |-> t[i].change] = [i \in 1..n |-> s[i].change]
  OBVIOUS
<1> QED
  BY <1>1, <1>2 DEF NetOf

LEMMA NetOfNext ==
  ASSUME NEW s, NEW c, NEW n \in Nat, \A i \in 1..(n + 1) : s[i].change \in Int
  PROVE  NetOf(s, c, n + 1) = NetOf(s, c, n) + IF s[n + 1].option = c THEN s[n + 1].change ELSE 0
<1> DEFINE S == {i \in 1..n : s[i].option = c}
           T == {i \in 1..(n + 1) : s[i].option = c}
           f == [i \in 1..n |-> s[i].change]
           h == [i \in 1..(n + 1) |-> s[i].change]
<1>1. /\ IsFiniteSet(S) /\ IsFiniteSet(T)
      /\ \A i \in S : f[i] \in Int /\ h[i] = f[i]
      /\ \A i \in T : h[i] \in Int
  <2>1. IsFiniteSet(1..n) /\ S \in SUBSET (1..n)
    BY FS_Interval
  <2>2. IsFiniteSet(1..(n + 1)) /\ T \in SUBSET (1..(n + 1))
    BY FS_Interval
  <2>3. /\ \A i \in S : f[i] \in Int /\ h[i] = f[i]
        /\ \A i \in T : h[i] \in Int
    OBVIOUS
  <2> HIDE DEF S, T, f, h
  <2> QED
    BY <2>1, <2>2, <2>3, FS_Subset
<1>2. SumFunctionOnSet(h, S) = SumFunctionOnSet(f, S) /\ SumFunctionOnSet(f, S) \in Int
  <2> HIDE DEF S, f, h
  <2> QED
    BY <1>1, SumSame, SumIs
<1>3. CASE s[n + 1].option = c
  <2>1. n + 1 \in T /\ T \ {n + 1} = S /\ h[n + 1] = s[n + 1].change
    BY <1>3
  <2>2. SumFunctionOnSet(h, T) = h[n + 1] + SumFunctionOnSet(h, T \ {n + 1})
    <3> HIDE DEF T, h
    <3> QED
      BY <1>1, <2>1, SumIs
  <2>3. h[n + 1] \in Int
    BY <1>1, <2>1
  <2>4. SumFunctionOnSet(h, T) = SumFunctionOnSet(f, S) + s[n + 1].change
    <3> HIDE DEF S, T, f, h
    <3> QED
      BY <1>2, <2>1, <2>2, <2>3
  <2> QED
    BY <1>3, <2>4 DEF NetOf
<1>4. CASE s[n + 1].option # c
  <2>1. T = S
    BY <1>4
  <2>2. SumFunctionOnSet(h, T) = SumFunctionOnSet(f, S) + 0
    <3> HIDE DEF S, T, f, h
    <3> QED
      BY <1>2, <2>1
  <2> QED
    BY <1>4, <2>2 DEF NetOf
<1> QED
  BY <1>3, <1>4

\* A fill that closes was within the position last read, its own and all earlier fills included.
ClosesCovered ==
  \A i \in DOMAIN fills :
    fills[i].change < 0 => fills[i].read + NetOf(fills, fills[i].option, i) >= 0
DeltaIsNet == \A c \in Contracts : shortDelta[c] = NetOf(fills, c, Len(fills))

SimInv ==
  /\ SimTypeOK
  /\ \A i \in DOMAIN fills : fills[i].ref # NoRef => refOf[fills[i].ref] = i
  /\ ClosesCovered /\ DeltaIsNet

Fill == [ref : RefIds \cup {NoRef}, option : Contracts, change : Int, read : 0..MaxQuantity]

LEMMA SimStarts ==
  ASSUME NEW positions \in [Contracts -> 0..MaxQuantity], SimBegins(positions)
  PROVE  SimInv
<1>1. fills = <<>> /\ fills \in Seq(Fill)
  BY DEF SimBegins
<1>2. 0 \in 0..MaxQuantity /\ 0 \in 0..MaxSimulated
  BY SimAssumption
<1>3. SimTypeOK
  BY <1>1, <1>2 DEF SimBegins, SimTypeOK, Fill
<1>4. DeltaIsNet
  <2>1. \A c \in Contracts : NetOf(fills, c, 0) = 0
    BY NetOfNone
  <2> QED
    BY <1>1, <2>1 DEF SimBegins, DeltaIsNet
<1> QED
  BY <1>1, <1>3, <1>4 DEF SimInv, ClosesCovered

LEMMA FillKeeps ==
  ASSUME SimInv, NEW ref \in RefIds \cup {NoRef}, NEW c \in Contracts, NEW change \in Int,
         change < 0 => ShortHeld(c) + change >= 0,
         ~Replayed(ref), Fills(ref, c, change), UNCHANGED <<realShort, realHeld, ordersVars>>
  PROVE  SimInv'
<1> DEFINE new == [ref |-> ref, option |-> c, change |-> change, read |-> realShort[c]]
<1>1. SimTypeOK /\ fills \in Seq(Fill) /\ Len(fills) \in Nat /\ Len(fills) < MaxSimulated
  <2>1. SimTypeOK /\ Len(fills) < MaxSimulated
    BY DEF SimInv, Fills
  <2>2. fills \in Seq(Fill)
    BY <2>1 DEF SimTypeOK, Fill
  <2>3. Len(fills) \in Nat
    BY <2>2
  <2> QED
    BY <2>1, <2>2, <2>3
<1>2. new \in Fill
  BY <1>1 DEF SimTypeOK, Fill
<1>3. fills' = Append(fills, new)
  BY DEF Fills
<1> HIDE DEF new
<1>4. /\ fills' \in Seq(Fill) /\ Len(fills') = Len(fills) + 1 /\ fills'[Len(fills) + 1] = new
      /\ \A i \in DOMAIN fills : fills'[i] = fills[i]
      /\ DOMAIN fills = 1..Len(fills) /\ DOMAIN fills' = 1..(Len(fills) + 1)
  BY <1>1, <1>2, <1>3
<1>5. refOf' \in [RefIds -> 0..MaxSimulated]
  <2>1. Len(fills) + 1 \in 0..MaxSimulated
    BY <1>1, SimAssumption
  <2> QED
    BY <1>1, <2>1 DEF Fills, SimTypeOK
<1>6. shortDelta' \in [Contracts -> Int]
  BY <1>1 DEF Fills, SimTypeOK
<1>7. SimTypeOK'
  BY <1>1, <1>4, <1>5, <1>6 DEF SimTypeOK, Fill, ordersVars
<1>8. ASSUME NEW i \in DOMAIN fills', fills'[i].ref # NoRef
      PROVE  refOf'[fills'[i].ref] = i
  <2>1. CASE i \in DOMAIN fills
    <3>0. fills'[i] = fills[i] /\ i \in 1..Len(fills) /\ fills[i] \in Fill
      BY <1>1, <1>4, <2>1
    <3>1. refOf[fills[i].ref] = i /\ i # 0 /\ fills[i].ref \in RefIds
      BY <1>8, <2>1, <3>0 DEF SimInv, Fill
    <3>2. fills[i].ref # ref
      BY <1>8, <3>0, <3>1 DEF Replayed
    <3> QED
      BY <1>1, <3>0, <3>1, <3>2 DEF Fills, SimTypeOK
  <2>2. CASE i = Len(fills) + 1
    <3>1. fills'[i].ref = ref /\ ref \in RefIds
      BY <1>4, <1>8, <2>2 DEF new
    <3> QED
      BY <1>1, <1>8, <2>2, <3>1 DEF Fills, SimTypeOK
  <2> QED
    BY <1>1, <1>4, <2>1, <2>2
<1>9. ASSUME NEW k \in Contracts, NEW n \in 0..Len(fills)
      PROVE  NetOf(fills', k, n) = NetOf(fills, k, n)
  <2>1. n \in Nat /\ \A i \in 1..n : fills'[i] = fills[i]
    BY <1>1, <1>4
  <2> QED
    BY <2>1, NetAgrees
<1>10. ASSUME NEW k \in Contracts
       PROVE  NetOf(fills', k, Len(fills) + 1) = shortDelta[k] + IF k = c THEN change ELSE 0
  <2> DEFINE n == Len(fills)
  <2>1. ASSUME NEW i \in 1..(n + 1) PROVE fills'[i].change \in Int
    <3>1. fills'[i] \in Fill
      BY <1>4
    <3> QED
      BY <3>1 DEF Fill
  <2>2. fills'[n + 1].option = c /\ fills'[n + 1].change = change
    BY <1>4 DEF new
  <2>3. NetOf(fills', k, n + 1)
          = NetOf(fills', k, n) + IF fills'[n + 1].option = k THEN fills'[n + 1].change ELSE 0
    BY <1>1, <2>1, NetOfNext
  <2>4. NetOf(fills', k, n) = shortDelta[k]
    BY <1>1, <1>9 DEF SimInv, DeltaIsNet
  <2> QED
    BY <2>2, <2>3, <2>4
<1>11. DeltaIsNet'
  <2>1. Len(fills') = Len(fills) + 1
    BY <1>4
  <2>2. ASSUME NEW k \in Contracts PROVE shortDelta'[k] = shortDelta[k] + IF k = c THEN change ELSE 0
    BY <1>1 DEF Fills, SimTypeOK
  <2> QED
    BY <1>10, <2>1, <2>2 DEF DeltaIsNet
<1>12. ClosesCovered'
  <2>1. ASSUME NEW i \in DOMAIN fills', fills'[i].change < 0
        PROVE  fills'[i].read + NetOf(fills', fills'[i].option, i) >= 0
    <3>1. CASE i \in DOMAIN fills
      <4>1. /\ fills'[i] = fills[i] /\ i \in 0..Len(fills) /\ fills[i].option \in Contracts
        <5>1. fills'[i] = fills[i] /\ i \in 1..Len(fills)
          BY <1>4, <3>1
        <5>2. fills[i] \in Fill
          BY <1>1, <5>1
        <5>3. fills[i].option \in Contracts
          BY <5>2 DEF Fill
        <5>4. i \in 0..Len(fills)
          BY <1>1, <5>1
        <5> QED
          BY <5>1, <5>3, <5>4
      <4>2. fills[i].read + NetOf(fills, fills[i].option, i) >= 0
        BY <2>1, <3>1, <4>1 DEF SimInv, ClosesCovered
      <4>3. NetOf(fills', fills[i].option, i) = NetOf(fills, fills[i].option, i)
        BY <1>9, <4>1
      <4> QED
        BY <4>1, <4>2, <4>3
    <3>2. CASE i = Len(fills) + 1
      <4>1. /\ fills'[i].read = realShort[c] /\ fills'[i].option = c /\ fills'[i].change = change
        BY <1>4, <3>2 DEF new
      <4>2. NetOf(fills', c, i) = shortDelta[c] + change
        BY <1>10, <3>2
      <4>3. realShort[c] \in Int /\ shortDelta[c] \in Int
        BY <1>1, SimAssumption DEF SimTypeOK
      <4> QED
        BY <2>1, <4>1, <4>2, <4>3 DEF ShortHeld
    <3> QED
      BY <1>1, <1>4, <3>1, <3>2
  <2> QED
    BY <2>1 DEF ClosesCovered
<1> QED
  BY <1>7, <1>8, <1>11, <1>12 DEF SimInv

LEMMA SimKeeps ==
  ASSUME SimInv, [SimNext]_simVars
  PROVE  SimInv'
<1>1. ASSUME UNCHANGED bookVars, SimTypeOK' PROVE SimInv'
  BY <1>1 DEF SimInv, bookVars, ClosesCovered, DeltaIsNet
<1>2. CASE UNCHANGED simVars
  BY <1>1, <1>2 DEF simVars, bookVars, ordersVars, SimInv, SimTypeOK
<1>3. ASSUME NEW ref \in RefIds \cup {NoRef}, NEW c \in Contracts, NEW q \in Quantities,
             Place(ref, c, q)
      PROVE  SimInv'
  <2>1. q \in Int /\ -q \in Int
    BY SimAssumption DEF Quantities
  <2>2. CASE UNCHANGED bookVars
    BY <1>1, <1>3, <2>2 DEF Place, bookVars, ordersVars, SimInv, SimTypeOK
  <2>3. CASE ~Replayed(ref) /\ (Fills(ref, c, q) \/ (Closes(c, q) /\ Fills(ref, c, -q)))
    <3>1. UNCHANGED <<realShort, realHeld, ordersVars>>
      BY <1>3 DEF Place
    <3>2. CASE Fills(ref, c, q)
      <4>1. ~(q < 0)
        BY SimAssumption DEF Quantities
      <4> QED
        BY <2>1, <2>3, <3>1, <3>2, <4>1, FillKeeps
    <3>3. CASE Closes(c, q) /\ Fills(ref, c, -q)
      <4>1. ShortHeld(c) \in Int
        BY SimAssumption DEF SimInv, SimTypeOK, ShortHeld
      <4>2. ShortHeld(c) + (-q) >= 0
        BY <2>1, <3>3, <4>1 DEF Closes
      <4> QED
        BY <2>1, <2>3, <3>1, <3>3, <4>2, FillKeeps
    <3> QED
      BY <2>3, <3>2, <3>3
  <2> QED
    BY <1>3, <2>2, <2>3 DEF Place
<1>4. ASSUME NEW o \in RealOrders, CancelReal(o) PROVE SimInv'
  BY <1>1, <1>4 DEF CancelReal, SimInv, SimTypeOK, bookVars
<1>5. CASE ReadOrders
  <2>1. PICK listed \in SUBSET RealOrders :
          /\ realWorking' = realWorking \cup {o \in listed : realState[o] = "working"}
          /\ shown' = [o \in RealOrders |-> IF o \in listed THEN Observed(o) ELSE shown[o]]
          /\ UNCHANGED <<bookVars, realShort, realHeld, realState, realCancelled>>
    BY <1>5 DEF ReadOrders
  <2>2. \A o \in RealOrders : Observed(o) \in {"unread", "working", "filled", "cancelled"}
    BY DEF Observed, SimInv, SimTypeOK
  <2>3. SimTypeOK'
    BY <2>1, <2>2 DEF SimInv, SimTypeOK, bookVars
  <2> QED
    BY <1>1, <2>1, <2>3
<1>6. CASE ReadPositions
  <2>1. SimTypeOK' /\ UNCHANGED bookVars
    BY <1>6 DEF ReadPositions, SimInv, SimTypeOK, bookVars, ordersVars
  <2> QED
    BY <1>1, <2>1
<1>7. CASE AccountMoves
  <2>1. SimTypeOK' /\ UNCHANGED bookVars
    BY <1>7 DEF AccountMoves, SimInv, SimTypeOK, bookVars, ordersVars
  <2> QED
    BY <1>1, <2>1
<1> QED
  BY <1>2, <1>3, <1>4, <1>5, <1>6, <1>7 DEF SimNext

LEMMA SimIsSound ==
  ASSUME SimInv
  PROVE  SimTypeOK /\ FilledOnce /\ SimBook
<1>1. SimTypeOK
  BY DEF SimInv
<1>2. FilledOnce
  BY DEF SimInv, FilledOnce
<1>3. ProbeAgrees
  <2> SUFFICES ASSUME NEW c \in Contracts, NEW real \in 0..MaxQuantity, NEW listed \in BOOLEAN,
                      real > 0 => listed
               PROVE  /\ Position(c, listed, real) <= ProbedShort(c, real)
                      /\ (listed /\ real = 0) \/ Position(c, listed, real) = ProbedShort(c, real)
    BY DEF ProbeAgrees
  <2>1. shortDelta[c] \in Int /\ real \in Nat
    BY <1>1, SimAssumption DEF SimTypeOK
  <2> QED
    BY <2>1 DEF Position, ProbedShort
<1>4. \A c \in Contracts, n \in Nat : NetFilled(c, n) = NetOf(fills, c, n)
  BY DEF NetFilled, NetOf
<1>5. fills \in Seq(Fill)
  BY <1>1 DEF SimTypeOK, Fill
<1>6. ASSUME NEW i \in DOMAIN fills PROVE i \in Nat /\ fills[i].option \in Contracts
  <2>1. fills[i] \in Fill /\ i \in Nat
    BY <1>5
  <2> QED
    BY <2>1 DEF Fill
<1>7. Len(fills) \in Nat
  BY <1>5
<1>8. SimBook
  BY <1>2, <1>3, <1>4, <1>6, <1>7 DEF SimBook, SimInv, ClosesCovered, DeltaIsNet
<1> QED
  BY <1>1, <1>2, <1>8

-----------------------------------------------------------------------------
(* What is recorded and said of a tick's runs.  While a run is at work its *)
(* row is open, unless the connection is gone; a final row never changes,  *)
(* since only an open run is finalized and a new row is made of none; what *)
(* the process remembers of a finished run is what the ledger says; and    *)
(* each thing it found was told where it was found.                        *)

Working ==
  {"gate", "agent", "session", "closing", "assemble", "audit", "status", "except", "final"}
Places == Working \cup {"off", "begin", "beat", "mail", "over"}
Memory == [mode : {"absent", "new", "recover"}, verdict : Finals \cup {"none"},
           final : Finals \cup {"none"}, started : BOOLEAN, output : {"none", "parsed"},
           record : 0..MaxFires, auditOk : BOOLEAN, gated : BOOLEAN, violated : BOOLEAN,
           left : BOOLEAN, broke : BOOLEAN]

NoticesTyped ==
  /\ fire \in 0..MaxFires /\ tries \in 0..MaxAttempts /\ turn \in Agents /\ doing \in Places
  /\ result \in {"none", "sent", "failed", "skipped"}
  /\ row \in [Agents -> Finals \cup {"none", "running"}]
  /\ audited \in [Agents -> {"none", "completed", "failed"}]
  /\ mem \in [Agents -> Memory]
  /\ mailed \in [Agents -> SUBSET {"sent", "failed"}]
  /\ findings \in [Agents -> SUBSET [context : 0..MaxFires, whole : BOOLEAN]]

\* The ledger's rows, by where the process is.
RowsOpen ==
  /\ row["close"] = "none" => row["sell"] = "none"
  /\ doing = "off" => turn = "close" /\ \A r \in Agents : mem[r].final = "none"
  /\ doing = "begin" => mem[turn].final = "none" /\ row[turn] = "none"
  /\ doing \in Working => mem[turn].final = "none" /\ (online => row[turn] = "running")
  /\ \A r \in Agents : mem[r].final # "none" => row[r] = mem[r].final

\* The sell run follows a finished close run, and a recovered run fails.
InTurn ==
  /\ doing \in {"gate", "agent", "session", "closing", "status", "except"} => mem[turn].mode = "new"
  /\ doing \in Working => mem[turn].mode # "absent"
  /\ doing = "begin" \/ (doing \in Working /\ mem[turn].mode = "new") =>
       IF turn = "close" THEN row["sell"] = "none" ELSE mem["close"].final # "none"
  /\ doing = "final" => mem[turn].verdict # "none"
  /\ doing = "final" /\ mem[turn].mode = "recover" => mem[turn].verdict = "failed"

\* What was said of a run is final.
SaidOnce ==
  /\ \A p \in said : p[1] \in Agents /\ p[2] \in Finals /\ row[p[1]] = p[2]
  /\ beat \in {"none", "healthy", "failing"}
  /\ beat # "none" => doing \in {"mail", "over"}
  /\ beat = "healthy" => \A r \in Agents : row[r] \in Healthy \cup {"none"}
  /\ doing = "beat" =>
       \/ \E r \in Agents : mem[r].final \notin Healthy \cup {"none"}
       \/ \A r \in Agents : mem[r].final = "none" => row[r] = "none"

WholeAudit(r) == audited[r] = "completed" /\ \E f \in findings[r] : f.whole

AuditsKept ==
  /\ \A r \in Agents : row[r] = "none" => audited[r] = "none"
  /\ doing \in {"gate", "agent", "session", "closing", "assemble", "audit"} /\ mem[turn].mode = "new" =>
       audited[turn] = "none"
  /\ doing = "status" /\ mem[turn].auditOk => WholeAudit(turn)
  /\ doing = "final" /\ mem[turn].verdict = "completed" => WholeAudit(turn)
  /\ \A r \in Agents : row[r] = "completed" => WholeAudit(r)

\* What was found in a run was told; or the run closes and its orders left are told next, or it broke.
Answered(m, place, kinds) ==
  \/ place = "except" \/ (place = "final" /\ m.broke /\ m.verdict = "failed")
  \/ /\ m.auditOk \/ "audit_failure" \in kinds
     /\ m.violated => "audit_violation" \in kinds
     /\ m.left => place = "closing" \/ "orders_left" \in kinds

Told ==
  /\ doing \in Working => Answered(mem[turn], doing, raised)
  /\ doing = "final" /\ mem[turn].verdict = "timed_out" => "run_timeout" \in raised
  /\ shared \in {0, 1} /\ (shared = 1 => "needs_auth" \in tickAlerts)

MailTrue ==
  /\ letters \subseteq {0}
  /\ result = "sent" => letters # {}
  /\ \A r \in Agents : "sent" \in mailed[r] => letters # {}

NoticesInv == NoticesTyped /\ RowsOpen /\ InTurn /\ SaidOnce /\ AuditsKept /\ Told /\ MailTrue

LEMMA NoticesBounds == MaxFires \in Nat /\ MaxAttempts \in Nat /\ MaxAttempts > 0
BY NoticesAssumption

\* A run the process has just learnt of.
LEMMA JustMade ==
  /\ Absent \in Memory
  /\ \A mode \in {"new", "recover"} :
       /\ Made(mode) \in Memory /\ Made(mode).mode = mode /\ Made(mode).final = "none"
       /\ Made(mode).auditOk /\ ~Made(mode).violated /\ ~Made(mode).left
  /\ Absent.final = "none" /\ Absent.mode = "absent"
<1>1. Absent \in Memory
  BY NoticesBounds DEF Absent, Memory
<1>2. Absent.final = "none" /\ Absent.mode = "absent" /\ Absent.auditOk = TRUE
      /\ Absent.violated = FALSE /\ Absent.left = FALSE
  BY DEF Absent
<1>3. ASSUME NEW mode \in {"new", "recover"}
      PROVE  /\ Made(mode) \in Memory /\ Made(mode).mode = mode /\ Made(mode).final = "none"
             /\ Made(mode).auditOk = TRUE /\ Made(mode).violated = FALSE /\ Made(mode).left = FALSE
  BY <1>1, <1>2, <1>3 DEF Made, Memory
<1> QED
  BY <1>1, <1>2, <1>3

LEMMA NoticesStart ==
  ASSUME NEW open \in BOOLEAN, NoticesBegin(open)
  PROVE  NoticesInv
<1>1. fire \in 0..MaxFires
  BY NoticesBounds DEF NoticesBegin
<1>2. /\ doing = "off" /\ turn = "close" /\ tries = 0 /\ result = "none" /\ letters = {}
      /\ said = {} /\ beat = "none" /\ shared = 0
      /\ row = [r \in Agents |-> "none"] /\ audited = [r \in Agents |-> "none"]
      /\ mem = [r \in Agents |-> Absent] /\ mailed = [r \in Agents |-> {}]
      /\ findings = [r \in Agents |-> {}]
  BY DEF NoticesBegin
<1>3. NoticesTyped
  BY <1>1, <1>2, NoticesBounds, JustMade DEF NoticesTyped, Agents, Places
<1>4. RowsOpen /\ InTurn /\ SaidOnce /\ AuditsKept /\ Told /\ MailTrue
  BY <1>2, JustMade DEF RowsOpen, InTurn, SaidOnce, AuditsKept, Told, Answered, MailTrue, Agents, Working,
     Healthy
<1> QED
  BY <1>3, <1>4 DEF NoticesInv

\* What a memory of a run is after another part of it was written.
LEMMA Rewritten ==
  ASSUME NEW m \in Memory, NEW s \in Finals
  PROVE  /\ [m EXCEPT !.verdict = s] \in Memory /\ [m EXCEPT !.verdict = s].verdict = s
         /\ \A n : n = [m EXCEPT !.verdict = s] =>
              /\ n.mode = m.mode /\ n.final = m.final /\ n.auditOk = m.auditOk
              /\ n.violated = m.violated /\ n.left = m.left /\ n.broke = m.broke
BY DEF Memory

LEMMA RewrittenFlags ==
  ASSUME NEW m \in Memory
  PROVE  /\ [m EXCEPT !.gated = TRUE] \in Memory
         /\ [m EXCEPT !.gated = TRUE].verdict = m.verdict
         /\ \A n : n = [m EXCEPT !.gated = TRUE] =>
              /\ n.mode = m.mode /\ n.final = m.final /\ n.auditOk = m.auditOk
              /\ n.violated = m.violated /\ n.left = m.left
         /\ [m EXCEPT !.broke = TRUE] \in Memory
         /\ \A n : n = [m EXCEPT !.broke = TRUE] =>
              /\ n.mode = m.mode /\ n.final = m.final /\ n.broke
BY DEF Memory

\* What was told of a run at its work stays told of it, wherever it goes.
LEMMA AnsweredOn ==
  ASSUME NEW m, NEW n, NEW place, NEW next, NEW kinds, NEW more, Answered(m, place, kinds),
         place # "closing", place # "except", place # "final", kinds \subseteq more,
         n.auditOk = m.auditOk, n.violated = m.violated, n.left = m.left
  PROVE  Answered(n, next, more)
<1>1. (m.auditOk \/ "audit_failure" \in more) /\ (m.violated => "audit_violation" \in more)
      /\ (m.left => "orders_left" \in more)
  BY DEF Answered
<1> QED
  BY <1>1 DEF Answered

\* What the audit's status says of what was stored is not lost.
Unlost ==
  /\ \A r \in Agents : WholeAudit(r) => WholeAudit(r)'
  /\ \A r \in Agents : row[r] = "none" => audited'[r] = "none"

\* The run at work goes on: nothing is said or recorded of it yet, and what was found was told.
LEMMA WorkKeeps ==
  ASSUME NoticesInv, doing \in Working, NEW n \in Memory, mem' = [mem EXCEPT ![turn] = n],
         n.mode = mem[turn].mode, n.final = "none", doing' \in Working,
         doing' \in {"gate", "agent", "session", "closing", "status", "except"} => n.mode = "new",
         doing' = "final" => n.verdict # "none" /\ (n.mode = "recover" => n.verdict = "failed"),
         doing' = "final" /\ n.verdict = "completed" => WholeAudit(turn)',
         doing' = "final" /\ n.verdict = "timed_out" => "run_timeout" \in raised',
         doing' = "status" /\ n.auditOk => WholeAudit(turn)',
         doing' \in {"gate", "agent", "session", "closing", "assemble", "audit"} /\ n.mode = "new" =>
           audited'[turn] = "none",
         Answered(n, doing', raised'),
         shared' \in {0, 1} /\ (shared' = 1 => "needs_auth" \in tickAlerts'),
         audited' \in [Agents -> {"none", "completed", "failed"}],
         findings' \in [Agents -> SUBSET [context : 0..MaxFires, whole : BOOLEAN]],
         Unlost, online' => online, UNCHANGED <<fire, turn, row, mailed, mailVars, toldVars>>
  PROVE  NoticesInv'
<1>1. mem'[turn] = n /\ \A r \in Agents : r # turn => mem'[r] = mem[r]
  BY DEF NoticesInv, NoticesTyped
<1>2. mem' \in [Agents -> Memory] /\ turn \in Agents /\ turn' = turn /\ row' = row
  BY DEF NoticesInv, NoticesTyped
<1>3. NoticesTyped'
  BY <1>2 DEF NoticesInv, NoticesTyped, mailVars, Places
<1>4. RowsOpen'
  BY <1>1, <1>2 DEF NoticesInv, RowsOpen, Working
<1>5. InTurn'
  BY <1>1, <1>2 DEF NoticesInv, InTurn, Working, Agents
<1>6. SaidOnce'
  BY <1>2 DEF NoticesInv, SaidOnce, toldVars, Working
<1>7. AuditsKept'
  <2>1. \A r \in Agents : row'[r] = "completed" => WholeAudit(r)'
    BY <1>2 DEF NoticesInv, AuditsKept, Unlost
  <2>2. \A r \in Agents : row'[r] = "none" => audited'[r] = "none"
    BY <1>2 DEF Unlost
  <2>3. doing' = "status" /\ mem'[turn'].auditOk => WholeAudit(turn)'
    BY <1>1, <1>2
  <2>4. doing' = "final" /\ mem'[turn'].verdict = "completed" => WholeAudit(turn)'
    BY <1>1, <1>2
  <2>5. doing' \in {"gate", "agent", "session", "closing", "assemble", "audit"} /\ mem'[turn'].mode = "new" =>
           audited'[turn'] = "none"
    BY <1>1, <1>2
  <2> QED
    BY <2>1, <2>2, <2>3, <2>4, <2>5 DEF AuditsKept
<1>8. Told'
  BY <1>1, <1>2 DEF Told
<1>9. MailTrue'
  BY DEF NoticesInv, MailTrue, mailVars
<1> QED
  BY <1>3, <1>4, <1>5, <1>6, <1>7, <1>8, <1>9 DEF NoticesInv

\* The run goes to its final status: it is one the audit allows, and a timeout was told.
LEMMA VerdictKeeps ==
  ASSUME NoticesInv, doing \in Working, NEW m \in Memory, NEW s \in Finals, Verdict(turn, m, s),
         m.mode = mem[turn].mode, m.final = "none",
         m.mode = "recover" => s = "failed",
         s = "completed" => WholeAudit(turn),
         s = "timed_out" => "run_timeout" \in raised',
         Answered(m, doing, raised) \/ (m.broke /\ s = "failed"),
         doing = "closing" \/ doing = "except" \/ doing = "final" => m.broke /\ s = "failed",
         raised \subseteq raised',
         shared' \in {0, 1} /\ (shared' = 1 => "needs_auth" \in tickAlerts'),
         UNCHANGED <<fire, turn, online, mailVars, toldVars, ledgerVars>>
  PROVE  NoticesInv'
<1> DEFINE n == [m EXCEPT !.verdict = s]
<1>1. /\ n \in Memory /\ n.verdict = s /\ n.mode = m.mode /\ n.final = m.final
      /\ n.auditOk = m.auditOk /\ n.violated = m.violated /\ n.left = m.left /\ n.broke = m.broke
  BY Rewritten
<1>2. mem' = [mem EXCEPT ![turn] = n] /\ doing' = "final"
  BY DEF Verdict
<1> HIDE DEF n
<1>3. Unlost /\ audited' = audited /\ findings' = findings /\ (WholeAudit(turn) => WholeAudit(turn)')
  BY DEF Unlost, WholeAudit, ledgerVars, NoticesInv, AuditsKept
<1>4. /\ audited' \in [Agents -> {"none", "completed", "failed"}]
      /\ findings' \in [Agents -> SUBSET [context : 0..MaxFires, whole : BOOLEAN]]
  BY <1>3 DEF NoticesInv, NoticesTyped
<1>5. UNCHANGED <<fire, turn, online, row, mailed, mailVars, toldVars>>
  BY DEF ledgerVars
<1>6. Answered(n, doing', raised')
  <2>1. CASE m.broke /\ s = "failed"
    BY <1>1, <1>2, <2>1 DEF Answered
  <2>2. CASE ~(m.broke /\ s = "failed")
    BY <1>1, <2>2, AnsweredOn
  <2> QED
    BY <2>1, <2>2
<1>7. n.verdict # "none"
  BY <1>1 DEF Finals, GateStatuses
<1>8. online' => online
  OBVIOUS
<1>9. doing' \in Working /\ doing' = "final" /\ n.final = "none"
  BY <1>1, <1>2 DEF Working
<1>10. (n.mode = "recover" => n.verdict = "failed") /\ (n.verdict = "completed" => WholeAudit(turn)')
       /\ (n.verdict = "timed_out" => "run_timeout" \in raised')
  BY <1>1, <1>3
<1> HIDE DEF Verdict
<1> QED
  BY <1>1, <1>2, <1>3, <1>4, <1>5, <1>6, <1>7, <1>8, <1>9, <1>10, WorkKeeps

\* What is known of the run at work.
LEMMA AtWork ==
  ASSUME NoticesInv, doing \in Working
  PROVE  /\ mem[turn] \in Memory /\ mem[turn].final = "none" /\ turn \in Agents
         /\ mem[turn].mode \in {"new", "recover"}
         /\ Answered(mem[turn], doing, raised)
         /\ shared \in {0, 1} /\ (shared = 1 => "needs_auth" \in tickAlerts)
<1>1. mem[turn] \in Memory /\ turn \in Agents
  BY DEF NoticesInv, NoticesTyped
<1>2. mem[turn].mode \in {"absent", "new", "recover"}
  BY <1>1 DEF Memory
<1> QED
  BY <1>1, <1>2 DEF NoticesInv, RowsOpen, InTurn, Told

LEMMA GateKeepsNotices ==
  ASSUME NoticesInv, Gate
  PROVE  NoticesInv'
<1> DEFINE m == mem[turn]
<1>1. /\ doing = "gate" /\ doing \in Working
      /\ UNCHANGED <<shared, fire, turn, online, tickAlerts, mailVars, toldVars, ledgerVars>>
  BY DEF Gate, Working
<1>2. m.mode = "new" /\ audited[turn] = "none"
  BY <1>1 DEF NoticesInv, InTurn, AuditsKept
<1>3. {"skipped_gate", "skipped_killed", "timed_out"} \subseteq Finals
  BY DEF Finals, GateStatuses
<1>4. CASE Verdict(turn, m, "skipped_gate") /\ UNCHANGED raised
  BY <1>1, <1>2, <1>3, <1>4, AtWork, VerdictKeeps
<1>5. CASE /\ Verdict(turn, m, "skipped_killed")
           /\ Alerted(IF turn = "close" THEN {"kill_switch"} ELSE {})
  <2>1. raised \subseteq raised'
    BY <1>5 DEF Alerted
  <2> QED
    BY <1>1, <1>2, <1>3, <1>5, <2>1, AtWork, VerdictKeeps
<1>6. CASE Verdict(turn, [m EXCEPT !.gated = TRUE], "timed_out") /\ Alerted({"run_timeout"})
  <2> DEFINE n == [m EXCEPT !.gated = TRUE]
  <2>1. /\ n \in Memory /\ n.mode = m.mode /\ n.final = m.final /\ n.auditOk = m.auditOk
        /\ n.violated = m.violated /\ n.left = m.left
    BY <1>1, AtWork, RewrittenFlags
  <2>2. raised \subseteq raised' /\ "run_timeout" \in raised' /\ Verdict(turn, n, "timed_out")
    BY <1>6 DEF Alerted
  <2> HIDE DEF n
  <2>3. Answered(n, doing, raised)
    BY <1>1, <2>1, AtWork DEF Answered
  <2> QED
    BY <1>1, <1>2, <1>3, <2>1, <2>2, <2>3, AtWork, VerdictKeeps
<1>7. CASE doing' = "agent" /\ mem' = [mem EXCEPT ![turn].gated = TRUE] /\ UNCHANGED raised
  <2> DEFINE n == [m EXCEPT !.gated = TRUE]
  <2>1. /\ n \in Memory /\ n.mode = m.mode /\ n.final = m.final /\ n.auditOk = m.auditOk
        /\ n.violated = m.violated /\ n.left = m.left
    BY <1>1, AtWork, RewrittenFlags
  <2>2. mem' = [mem EXCEPT ![turn] = n]
    BY <1>7
  <2> HIDE DEF n
  <2>3. Unlost /\ audited' = audited
    BY <1>1 DEF Unlost, WholeAudit, ledgerVars, NoticesInv, AuditsKept
  <2>4. /\ audited' \in [Agents -> {"none", "completed", "failed"}]
        /\ findings' \in [Agents -> SUBSET [context : 0..MaxFires, whole : BOOLEAN]]
    BY <1>1 DEF NoticesInv, NoticesTyped, ledgerVars
  <2>5. UNCHANGED <<fire, turn, online, row, mailed, mailVars, toldVars>>
    BY <1>1 DEF ledgerVars
  <2>6. Answered(n, doing', raised')
    BY <1>1, <1>7, <2>1, AtWork, AnsweredOn
  <2>7. doing' \in Working /\ doing' = "agent" /\ (online' => online)
    BY <1>1, <1>7 DEF Working
  <2>8. /\ n.mode = "new" /\ n.final = "none" /\ n.mode = mem[turn].mode
        /\ shared' \in {0, 1} /\ (shared' = 1 => "needs_auth" \in tickAlerts')
    BY <1>1, <1>2, <2>1, AtWork
  <2> QED
    BY <1>1, <1>2, <2>1, <2>2, <2>3, <2>4, <2>5, <2>6, <2>7, <2>8, WorkKeeps
<1> QED
  BY <1>4, <1>5, <1>6, <1>7 DEF Gate

\* The tick's shared alert is sent once.
LEMMA SharedOnce ==
  ASSUME shared \in {0, 1}, shared = 1 => "needs_auth" \in tickAlerts, NEW auth \in BOOLEAN
  PROVE  LET s == shared + Cardinality(TickKinds(auth))
         IN  s \in {0, 1} /\ (s = 1 => "needs_auth" \in tickAlerts \cup TickKinds(auth))
<1>1. CASE TickKinds(auth) = {}
  <2>1. Cardinality(TickKinds(auth)) = 0
    BY <1>1, FS_EmptySet
  <2> QED
    BY <2>1
<1>2. CASE TickKinds(auth) = {"needs_auth"} /\ "needs_auth" \notin tickAlerts
  <2>1. Cardinality(TickKinds(auth)) = 1
    BY <1>2, FS_Singleton
  <2> QED
    BY <1>2, <2>1
<1> QED
  BY <1>1, <1>2 DEF TickKinds

\* A step that leaves the ledger, and what was told, alone.
LEMMA LedgerAtRest ==
  ASSUME NoticesInv, UNCHANGED ledgerVars
  PROVE  /\ Unlost /\ audited' = audited /\ UNCHANGED <<row, mailed>>
         /\ \A r \in Agents : WholeAudit(r)' <=> WholeAudit(r)
         /\ audited' \in [Agents -> {"none", "completed", "failed"}]
         /\ findings' \in [Agents -> SUBSET [context : 0..MaxFires, whole : BOOLEAN]]
BY DEF Unlost, WholeAudit, ledgerVars, NoticesInv, AuditsKept, NoticesTyped

\* The run goes on with what is remembered of it, and nothing is recorded.
LEMMA GoesOn ==
  ASSUME NoticesInv, doing \in {"agent", "session", "closing"}, UNCHANGED mem,
         doing' \in {"session", "closing", "assemble"},
         Answered(mem[turn], doing', raised'),
         shared' \in {0, 1} /\ (shared' = 1 => "needs_auth" \in tickAlerts'),
         UNCHANGED <<fire, turn, online, mailVars, toldVars, ledgerVars>>
  PROVE  NoticesInv'
<1> DEFINE m == mem[turn]
<1>1. doing \in Working /\ doing' \in Working
  BY DEF Working
<1>2. m.mode = "new" /\ audited[turn] = "none"
  BY DEF NoticesInv, InTurn, AuditsKept
<1>3. mem' = [mem EXCEPT ![turn] = m]
  BY DEF NoticesInv, NoticesTyped
<1> HIDE DEF m
<1> QED
  BY <1>1, <1>2, <1>3, AtWork, LedgerAtRest, WorkKeeps DEF m

LEMMA AgentRunKeeps ==
  ASSUME NoticesInv, AgentRun
  PROVE  NoticesInv'
<1>1. /\ doing = "agent" /\ doing \in Working /\ doing' \in {"session", "closing"} /\ UNCHANGED mem
      /\ UNCHANGED <<fire, turn, online, mailVars, toldVars, ledgerVars>>
  BY DEF AgentRun, Working
<1>2. PICK auth \in BOOLEAN : SharedAlerted(TickKinds(auth), {})
  BY DEF AgentRun
<1>3. shared' \in {0, 1} /\ (shared' = 1 => "needs_auth" \in tickAlerts') /\ raised \subseteq raised'
  BY <1>1, <1>2, AtWork, SharedOnce DEF SharedAlerted, Alerted
<1>4. Answered(mem[turn], doing', raised')
  BY <1>1, <1>3, AtWork DEF Answered
<1> QED
  BY <1>1, <1>3, <1>4, GoesOn

LEMMA ClosingKeeps ==
  ASSUME NoticesInv, Closing
  PROVE  NoticesInv'
<1>1. /\ doing = "closing" /\ doing \in Working /\ doing' = "assemble" /\ UNCHANGED mem
      /\ UNCHANGED <<fire, turn, online, mailVars, toldVars, ledgerVars>>
  BY DEF Closing, Working
<1>2. PICK auth \in BOOLEAN :
        SharedAlerted(TickKinds(auth), IF mem[turn].left THEN {"orders_left"} ELSE {})
  BY DEF Closing
<1>3. /\ shared' \in {0, 1} /\ (shared' = 1 => "needs_auth" \in tickAlerts')
      /\ raised \subseteq raised' /\ (mem[turn].left => "orders_left" \in raised')
  BY <1>1, <1>2, AtWork, SharedOnce DEF SharedAlerted, Alerted
<1>4. Answered(mem[turn], doing', raised')
  BY <1>1, <1>3, AtWork DEF Answered
<1> QED
  BY <1>1, <1>3, <1>4, GoesOn

LEMMA SessionRunsKeeps ==
  ASSUME NoticesInv, SessionRuns
  PROVE  NoticesInv'
<1> DEFINE m == mem[turn]
<1>1. /\ doing = "session" /\ doing \in Working
      /\ UNCHANGED <<fire, turn, online, tickAlerts, mailVars, alertVars, toldVars, ledgerVars>>
  BY DEF SessionRuns, Working
<1>2. m.mode = "new" /\ audited[turn] = "none"
  BY <1>1 DEF NoticesInv, InTurn, AuditsKept
<1>3. PICK s \in {"not_started", "skipped", "failed", "ran"}, left \in BOOLEAN, parsed \in BOOLEAN :
        LET begun == s \in {"failed", "ran"}
            after == [m EXCEPT !.started = begun, !.left = left,
                               !.output = IF begun /\ parsed THEN "parsed" ELSE "none",
                               !.verdict = IF s = "failed" THEN "failed" ELSE "none"]
        IN  /\ left => begun
            /\ IF s = "skipped" THEN Verdict(turn, m, "skipped_start")
               ELSE doing' = "closing" /\ mem' = [mem EXCEPT ![turn] = after]
  BY Zenon DEF SessionRuns
<1>4. shared' \in {0, 1} /\ (shared' = 1 => "needs_auth" \in tickAlerts') /\ raised' = raised
  BY <1>1, AtWork DEF alertVars
<1>5. CASE s = "skipped"
  BY <1>1, <1>2, <1>3, <1>4, <1>5, AtWork, VerdictKeeps DEF Finals, GateStatuses
<1>6. CASE s # "skipped"
  <2> DEFINE begun == s \in {"failed", "ran"}
             output == IF begun /\ parsed THEN "parsed" ELSE "none"
             told == IF s = "failed" THEN "failed" ELSE "none"
             n == [m EXCEPT !.started = begun, !.left = left, !.output = output, !.verdict = told]
  <2>1. mem' = [mem EXCEPT ![turn] = n] /\ doing' = "closing"
    BY <1>3, <1>6
  <2>2. begun \in BOOLEAN /\ output \in {"none", "parsed"} /\ told \in Finals \cup {"none"}
    BY DEF Finals
  <2> HIDE DEF begun, output, told
  <2>3. /\ n \in Memory /\ n.mode = m.mode /\ n.final = m.final /\ n.auditOk = m.auditOk
        /\ n.violated = m.violated
    BY <1>1, <2>2, AtWork DEF Memory
  <2> HIDE DEF n
  <2>4. Answered(n, doing', raised')
    BY <1>1, <1>4, <2>1, <2>3, AtWork DEF Answered
  <2> QED
    BY <1>1, <1>2, <1>4, <2>1, <2>3, <2>4, AtWork, LedgerAtRest, WorkKeeps DEF Working
<1> QED
  BY <1>5, <1>6

LEMMA AssembleKeeps ==
  ASSUME NoticesInv, Assemble
  PROVE  NoticesInv'
<1> DEFINE m == mem[turn]
<1>1. /\ doing = "assemble" /\ doing' = "audit" /\ doing \in Working
      /\ UNCHANGED <<fire, turn, online, mailVars, toldVars, ledgerVars, alertVars, tickAlerts>>
  BY DEF Assemble, Working, ledgerVars
<1>2. m.mode = "new" => audited[turn] = "none"
  BY <1>1 DEF NoticesInv, AuditsKept
<1>3. ASSUME NEW n \in Memory, mem' = [mem EXCEPT ![turn] = n], n.mode = m.mode,
             n.final = m.final, n.auditOk = m.auditOk, n.violated = m.violated, n.left = m.left
      PROVE  NoticesInv'
  <2>1. Answered(n, doing', raised')
    BY <1>1, <1>3, AtWork DEF Answered, alertVars
  <2> HIDE DEF m
  <2> QED
    BY <1>1, <1>2, <1>3, <2>1, AtWork, LedgerAtRest, WorkKeeps DEF Working, alertVars, m
<1>4. CASE online /\ mem' = [mem EXCEPT ![turn].record = fire]
  <2> DEFINE n == [m EXCEPT !.record = fire]
  <2>1. fire \in 0..MaxFires
    BY DEF NoticesInv, NoticesTyped
  <2>2. /\ n \in Memory /\ n.mode = m.mode /\ n.final = m.final /\ n.auditOk = m.auditOk
        /\ n.violated = m.violated /\ n.left = m.left
    BY <1>1, <2>1, AtWork DEF Memory
  <2>3. mem' = [mem EXCEPT ![turn] = n]
    BY <1>4
  <2> HIDE DEF n
  <2> QED
    BY <1>3, <2>2, <2>3
<1>5. CASE UNCHANGED mem
  <2>1. mem' = [mem EXCEPT ![turn] = m]
    BY <1>5 DEF NoticesInv, NoticesTyped
  <2> QED
    BY <1>1, <1>3, <2>1, AtWork
<1> QED
  BY <1>4, <1>5 DEF Assemble

\* The process leaves the run where it is: nothing is remembered of it as final.
LEMMA LeaveKeeps ==
  ASSUME NoticesInv, doing \in Working, doing' = "over", UNCHANGED <<row, mailed>>, Unlost,
         NEW n \in Memory, mem' = [mem EXCEPT ![turn] = n], n.final = "none",
         audited' \in [Agents -> {"none", "completed", "failed"}],
         findings' \in [Agents -> SUBSET [context : 0..MaxFires, whole : BOOLEAN]],
         UNCHANGED <<fire, turn, shared, tickAlerts, mailVars, toldVars>>
  PROVE  NoticesInv'
<1>0. /\ mem' \in [Agents -> Memory] /\ mem[turn].final = "none"
      /\ \A r \in Agents : mem'[r].final = mem[r].final
  BY AtWork DEF NoticesInv, NoticesTyped
<1>1. NoticesTyped'
  BY <1>0 DEF NoticesInv, NoticesTyped, mailVars, Places
<1>2. RowsOpen' /\ InTurn' /\ SaidOnce'
  BY <1>0 DEF NoticesInv, RowsOpen, InTurn, SaidOnce, Working, toldVars
<1>3. AuditsKept'
  BY DEF NoticesInv, AuditsKept, Unlost
<1>4. Told' /\ MailTrue'
  BY DEF NoticesInv, Told, MailTrue, Working, mailVars
<1> QED
  BY <1>1, <1>2, <1>3, <1>4 DEF NoticesInv

\* Findings are only added, and a whole set is there once it was stored whole.
LEMMA StoresMore ==
  ASSUME NoticesInv, doing \in Working, NEW whole \in BOOLEAN, Stores(turn, whole)
  PROVE  /\ findings' \in [Agents -> SUBSET [context : 0..MaxFires, whole : BOOLEAN]]
         /\ \A r \in Agents : findings[r] \subseteq findings'[r]
         /\ whole => \E f \in findings'[turn] : f.whole
<1> DEFINE f == [context |-> Context(turn), whole |-> whole]
<1>1. PICK more \in SUBSET {f} : /\ findings' = [findings EXCEPT ![turn] = @ \cup more]
                                 /\ whole => f \in more
  BY DEF Stores
<1>2. mem[turn] \in Memory /\ turn \in Agents
  BY AtWork
<1>3. f \in [context : 0..MaxFires, whole : BOOLEAN]
  BY <1>2 DEF Context, Memory
<1>4. whole => f.whole
  OBVIOUS
<1> HIDE DEF f
<1>5. findings'[turn] = findings[turn] \cup more /\ \A r \in Agents : r # turn => findings'[r] = findings[r]
  BY <1>1, <1>2 DEF NoticesInv, NoticesTyped
<1>6. findings' \in [Agents -> SUBSET [context : 0..MaxFires, whole : BOOLEAN]]
  BY <1>1, <1>2, <1>3, <1>5 DEF NoticesInv, NoticesTyped
<1> QED
  BY <1>1, <1>4, <1>5, <1>6

LEMMA AuditKeeps ==
  ASSUME NoticesInv, Audit
  PROVE  NoticesInv'
<1> DEFINE m == mem[turn]
<1>1. doing = "audit" /\ doing \in Working
      /\ UNCHANGED <<shared, fire, turn, row, mailed, tickAlerts, mailVars, toldVars>>
  BY DEF Audit, Working
<1>2. PICK o \in {"clean", "violation", "error", "broken"}, whole \in BOOLEAN :
        LET worth == AuditStatus(o, whole)
            recovers == mem[turn].mode = "recover"
            recorded == [audited EXCEPT ![turn] = IF @ = "none" THEN worth ELSE @]
        IN  /\ o = "broken" => ~whole
            /\ IF o = "broken" THEN UNCHANGED findings ELSE Stores(turn, whole)
            /\ mem' = [mem EXCEPT ![turn].auditOk = worth = "completed",
                                  ![turn].violated = o = "violation" /\ worth = "completed",
                                  ![turn].verdict = IF recovers THEN "failed" ELSE @]
            /\ \/ /\ online /\ UNCHANGED online /\ audited' = recorded
                  /\ Alerted(AuditKinds(turn, o, worth))
                  /\ doing' = IF recovers THEN "final" ELSE "status"
               \/ /\ \/ UNCHANGED <<audited, online>>
                     \/ online /\ online' = FALSE /\ audited' = recorded
                  /\ doing' = IF recovers THEN "over" ELSE "except"
                  /\ UNCHANGED raised
  BY Zenon DEF Audit
<1>3. /\ findings' \in [Agents -> SUBSET [context : 0..MaxFires, whole : BOOLEAN]]
      /\ \A r \in Agents : findings[r] \subseteq findings'[r]
      /\ whole => \E f \in findings'[turn] : f.whole
  <2>1. CASE o = "broken"
    BY <1>2, <2>1 DEF NoticesInv, NoticesTyped
  <2>2. CASE o # "broken"
    BY <1>1, <1>2, <2>2, StoresMore
  <2> QED
    BY <2>1, <2>2
<1>4. turn \in Agents /\ m \in Memory /\ m.mode \in {"new", "recover"} /\ m.final = "none"
      /\ (m.mode = "new" => audited[turn] = "none")
      /\ audited \in [Agents -> {"none", "completed", "failed"}]
  BY <1>1, AtWork DEF NoticesInv, NoticesTyped, AuditsKept
<1> DEFINE worth == AuditStatus(o, whole)
           ok == worth = "completed"
           bad == o = "violation" /\ worth = "completed"
           told == IF m.mode = "recover" THEN "failed" ELSE m.verdict
           recorded == [audited EXCEPT ![turn] = IF @ = "none" THEN worth ELSE @]
           n == [m EXCEPT !.auditOk = ok, !.violated = bad, !.verdict = told]
<1>5. worth \in {"completed", "failed"} /\ (ok => whole) /\ ok \in BOOLEAN /\ bad \in BOOLEAN
  BY DEF AuditStatus
<1>6. told \in Finals \cup {"none"} /\ (m.mode = "recover" => told = "failed")
  BY <1>4 DEF Finals, Memory
<1>7. mem' = [mem EXCEPT ![turn] = n]
  BY <1>2
<1>8. \/ /\ online /\ online' = online /\ audited' = recorded
         /\ Alerted(AuditKinds(turn, o, worth))
         /\ doing' = IF m.mode = "recover" THEN "final" ELSE "status"
      \/ /\ \/ UNCHANGED <<audited, online>>
            \/ online /\ online' = FALSE /\ audited' = recorded
         /\ doing' = IF m.mode = "recover" THEN "over" ELSE "except"
         /\ UNCHANGED raised
  BY <1>2
<1>9. /\ n \in Memory /\ n.mode = m.mode /\ n.final = "none" /\ n.left = m.left
      /\ n.verdict = told /\ (n.auditOk <=> ok) /\ (n.violated <=> bad)
  <2> HIDE DEF ok, bad, told
  <2> QED
    BY <1>4, <1>5, <1>6 DEF Memory
\* The status recorded first stands.
<1>10. /\ recorded \in [Agents -> {"none", "completed", "failed"}]
       /\ \A r \in Agents : audited[r] = "completed" => recorded[r] = "completed"
       /\ \A r \in Agents : r # turn => recorded[r] = audited[r]
       /\ audited[turn] = "none" => recorded[turn] = worth
  BY <1>4, <1>5
<1>11. /\ audited' \in [Agents -> {"none", "completed", "failed"}]
       /\ \A r \in Agents : audited[r] = "completed" => audited'[r] = "completed"
  BY <1>4, <1>8, <1>10
<1> HIDE DEF recorded
<1>12. Unlost
  <2>1. \A r \in Agents : WholeAudit(r) => WholeAudit(r)'
    BY <1>3, <1>11 DEF WholeAudit
  <2>2. \A r \in Agents : row[r] = "none" => audited'[r] = "none"
    <3>1. \A r \in Agents : row[r] = "none" => audited[r] = "none"
      BY DEF NoticesInv, AuditsKept
    <3>2. online => row[turn] # "none"
      BY <1>1 DEF NoticesInv, RowsOpen
    <3> QED
      BY <1>8, <1>10, <3>1, <3>2
  <2> QED
    BY <2>1, <2>2 DEF Unlost
<1>13. shared' \in {0, 1} /\ (shared' = 1 => "needs_auth" \in tickAlerts') /\ (online' => online)
  BY <1>1, <1>8, AtWork
<1> HIDE DEF n, m, ok, bad, told, worth
<1>14. CASE doing' = "over"
  BY <1>1, <1>3, <1>7, <1>9, <1>11, <1>12, <1>14, LeaveKeeps
<1>15. CASE doing' = "except"
  <2>1. m.mode = "new" /\ Answered(n, doing', raised')
    BY <1>4, <1>8, <1>15 DEF Answered
  <2> QED
    BY <1>1, <1>3, <1>7, <1>9, <1>11, <1>12, <1>13, <1>15, <2>1, WorkKeeps DEF Working, m
<1>16. CASE doing' \in {"final", "status"}
  <2>1. /\ Alerted(AuditKinds(turn, o, worth)) /\ audited' = recorded
        /\ doing' = IF m.mode = "recover" THEN "final" ELSE "status"
    BY <1>8, <1>16
  <2>2. raised \subseteq raised' /\ (~ok => "audit_failure" \in raised')
        /\ (bad => "audit_violation" \in raised')
    BY <1>5, <2>1 DEF Alerted, AuditKinds, ok, bad
  <2>3. m.left => "orders_left" \in raised'
    <3>1. Answered(mem[turn], "audit", raised)
      BY <1>1, AtWork
    <3> QED
      BY <2>2, <3>1 DEF Answered, m
  <2>4. Answered(n, doing', raised')
    BY <1>5, <1>9, <2>2, <2>3 DEF Answered
  <2>5. m.mode = "new" /\ n.auditOk => WholeAudit(turn)'
    <3> SUFFICES ASSUME m.mode = "new", n.auditOk PROVE WholeAudit(turn)'
      OBVIOUS
    <3>1. ok /\ whole /\ worth = "completed"
      BY <1>5, <1>9 DEF ok
    <3>2. audited'[turn] = "completed"
      BY <1>4, <1>10, <2>1, <3>1
    <3> QED
      BY <1>1, <1>3, <3>1, <3>2 DEF WholeAudit
  <2>6. (m.mode = "new" => doing' = "status") /\ (doing' = "final" => m.mode = "recover")
        /\ (doing' = "status" => m.mode = "new")
    BY <1>4, <2>1
  <2>7. /\ doing' \in Working /\ doing' \notin {"gate", "agent", "session", "closing", "except"}
        /\ doing' \notin {"gate", "agent", "session", "closing", "assemble", "audit"}
    BY <1>16 DEF Working
  <2>8. /\ n.mode = mem[turn].mode /\ (doing' = "status" => n.mode = "new")
        /\ doing' = "final" => n.verdict = "failed" /\ n.verdict # "none"
        /\ doing' = "status" /\ n.auditOk => WholeAudit(turn)'
    BY <1>6, <1>9, <2>5, <2>6 DEF m
  <2> QED
    BY <1>1, <1>3, <1>7, <1>9, <1>11, <1>12, <1>13, <2>4, <2>7, <2>8, WorkKeeps
<1> QED
  BY <1>8, <1>14, <1>15, <1>16

LEMMA StatusKeeps ==
  ASSUME NoticesInv, Status
  PROVE  NoticesInv'
<1> DEFINE m == mem[turn]
<1>1. /\ doing = "status" /\ doing \in Working
      /\ UNCHANGED <<fire, turn, online, shared, tickAlerts, mailVars, toldVars, ledgerVars>>
  BY DEF Status, Working
<1>2. PICK stop \in {"none", "deadline", "signal", "infrastructure"} :
        /\ Verdict(turn, m, FinalStatus(m, stop))
        /\ Alerted((IF stop = "deadline" THEN {"run_timeout"} ELSE {})
                   \cup IF stop = "none" /\ m.started /\ m.verdict # "failed" /\ m.output # "parsed"
                        THEN {"invalid_output"} ELSE {})
  BY Zenon DEF Status
<1>3. raised \subseteq raised' /\ (stop = "deadline" => "run_timeout" \in raised')
  BY <1>2 DEF Alerted
<1>4. FinalStatus(m, stop) \in {"timed_out", "stopped", "failed", "completed"}
  BY DEF FinalStatus, SessionStatus
<1>5. FinalStatus(m, stop) = "timed_out" => stop = "deadline"
  BY DEF FinalStatus, SessionStatus
<1>6. FinalStatus(m, stop) = "completed" => m.auditOk
  BY DEF FinalStatus
<1>7. m.mode = "new" /\ (m.auditOk => WholeAudit(turn))
  BY <1>1 DEF NoticesInv, InTurn, AuditsKept
<1>8. FinalStatus(m, stop) \in Finals
  BY <1>4 DEF Finals
<1> DEFINE s == FinalStatus(m, stop)
<1>9. Verdict(turn, m, s) /\ s \in Finals /\ (s = "completed" => WholeAudit(turn))
      /\ (s = "timed_out" => "run_timeout" \in raised')
  BY <1>2, <1>3, <1>5, <1>6, <1>7, <1>8
<1> HIDE DEF s
<1> QED
  BY <1>1, <1>3, <1>7, <1>9, AtWork, VerdictKeeps

LEMMA RaisesKeeps ==
  ASSUME NoticesInv, Raises
  PROVE  NoticesInv'
<1> DEFINE m == mem[turn]
<1>1. /\ doing \in Working /\ doing' = "except"
      /\ UNCHANGED <<fire, turn, online, mailVars, toldVars, ledgerVars, alertVars, tickAlerts>>
      /\ mem' = [mem EXCEPT ![turn] = m]
  BY DEF Raises, Working, NoticesInv, NoticesTyped
<1>2. m.mode = "new"
  BY DEF Raises, NoticesInv, InTurn
<1>3. Answered(m, doing', raised')
  BY <1>1 DEF Answered
<1> HIDE DEF m
<1> QED
  BY <1>1, <1>2, <1>3, AtWork, LedgerAtRest, WorkKeeps DEF Working, alertVars, m

LEMMA HandleKeeps ==
  ASSUME NoticesInv, Handle
  PROVE  NoticesInv'
<1> DEFINE m == [mem[turn] EXCEPT !.broke = TRUE]
<1>1. /\ doing = "except" /\ doing \in Working /\ Verdict(turn, m, "failed")
      /\ UNCHANGED <<fire, turn, online, tickAlerts, mailVars, alertVars, toldVars, ledgerVars>>
  BY DEF Handle, Working
<1>2. m \in Memory /\ m.mode = mem[turn].mode /\ m.final = mem[turn].final /\ m.broke
  BY <1>1, AtWork, RewrittenFlags
<1> HIDE DEF m
<1> QED
  BY <1>1, <1>2, AtWork, VerdictKeeps DEF Finals, alertVars

\* The final status is written: the run was open, and what is remembered is what is written.
LEMMA FinalizeKeeps ==
  ASSUME NoticesInv, Finalize
  PROVE  NoticesInv'
<1> DEFINE m == mem[turn]
           next == AfterFinal(turn)
<1>1. /\ doing = "final" /\ doing \in Working
      /\ UNCHANGED <<fire, tickAlerts, audited, findings, mailed, mailVars, shared, toldVars>>
  BY DEF Finalize, Working
<1>2. /\ m \in Memory /\ turn \in Agents /\ m.final = "none" /\ m.mode \in {"new", "recover"}
      /\ m.verdict \in Finals /\ (online => row[turn] = "running")
      /\ (m.mode = "recover" => m.verdict = "failed")
      /\ (m.verdict = "completed" => WholeAudit(turn))
      /\ m.verdict \notin {"none", "running"}
  BY <1>1, AtWork DEF NoticesInv, RowsOpen, InTurn, AuditsKept, Memory, Finals, GateStatuses
<1>3. row \in [Agents -> Finals \cup {"none", "running"}] /\ mem \in [Agents -> Memory]
  BY DEF NoticesInv, NoticesTyped
\* The row after the write.
<1>4. ASSUME online, row' = [row EXCEPT ![turn] = m.verdict]
      PROVE  /\ row' \in [Agents -> Finals \cup {"none", "running"}]
             /\ row'[turn] = m.verdict /\ \A r \in Agents : r # turn => row'[r] = row[r]
             /\ row["close"] = "none" => row["sell"] = "none"
             /\ row'["close"] = "none" => row'["sell"] = "none"
             /\ \A p \in said : p[1] \in Agents /\ p[2] \in Finals /\ row'[p[1]] = p[2]
             /\ \A r \in Agents : row'[r] = "none" => audited[r] = "none"
             /\ \A r \in Agents : row'[r] = "completed" => WholeAudit(r)
             /\ \A r \in Agents : mem[r].final # "none" => row'[r] = mem[r].final
  <2>1. row' \in [Agents -> Finals \cup {"none", "running"}]
        /\ row'[turn] = m.verdict /\ \A r \in Agents : r # turn => row'[r] = row[r]
    BY <1>2, <1>3, <1>4
  <2>2. row[turn] = "running" /\ "running" \notin Finals
    BY <1>2, <1>4 DEF Finals, GateStatuses
  <2>3. row["close"] = "none" => row["sell"] = "none"
    BY DEF NoticesInv, RowsOpen
  <2>4. row'["close"] = "none" => row'["sell"] = "none"
    BY <1>2, <2>1, <2>2, <2>3 DEF Agents
  <2>5. \A p \in said : p[1] \in Agents /\ p[2] \in Finals /\ row'[p[1]] = p[2]
    BY <2>1, <2>2 DEF NoticesInv, SaidOnce
  <2>6. \A r \in Agents : row'[r] = "none" => audited[r] = "none"
    BY <1>2, <2>1 DEF NoticesInv, AuditsKept
  <2>7. \A r \in Agents : row'[r] = "completed" => WholeAudit(r)
    BY <1>2, <2>1 DEF NoticesInv, AuditsKept
  <2>8. \A r \in Agents : mem[r].final # "none" => row'[r] = mem[r].final
    BY <1>2, <2>1 DEF NoticesInv, RowsOpen
  <2> QED
    BY <2>1, <2>3, <2>4, <2>5, <2>6, <2>7, <2>8
<1>5. \A r \in Agents : WholeAudit(r)' <=> WholeAudit(r)
  BY <1>1 DEF WholeAudit
<1>6. ASSUME UNCHANGED <<turn, mem, raised>>,
             \/ online /\ online' = FALSE /\ row' = [row EXCEPT ![turn] = m.verdict]
             \/ UNCHANGED <<row, online>>,
             doing' = IF m.broke \/ m.mode = "recover" THEN "over" ELSE "except"
      PROVE  NoticesInv'
  <2>1. /\ row' \in [Agents -> Finals \cup {"none", "running"}]
        /\ \A r \in Agents : r # turn => row'[r] = row[r]
        /\ row'["close"] = "none" => row'["sell"] = "none"
        /\ \A p \in said : p[1] \in Agents /\ p[2] \in Finals /\ row'[p[1]] = p[2]
        /\ \A r \in Agents : row'[r] = "none" => audited[r] = "none"
        /\ \A r \in Agents : row'[r] = "completed" => WholeAudit(r)
        /\ \A r \in Agents : mem[r].final # "none" => row'[r] = mem[r].final
        /\ online' => row'[turn] = "running"
    <3>1. CASE online /\ online' = FALSE /\ row' = [row EXCEPT ![turn] = m.verdict]
      BY <1>4, <3>1
    <3>2. CASE UNCHANGED <<row, online>>
      BY <1>2, <1>3, <3>2 DEF NoticesInv, RowsOpen, SaidOnce, AuditsKept
    <3> QED
      BY <1>6, <3>1, <3>2
  <2>2. doing' \in {"over", "except"} /\ (doing' = "except" => m.mode = "new")
    BY <1>2, <1>6
  <2>3. NoticesTyped'
    BY <1>1, <1>6, <2>1, <2>2 DEF NoticesInv, NoticesTyped, mailVars, Places, Working
  <2>4. RowsOpen'
    BY <1>2, <1>6, <2>1, <2>2 DEF RowsOpen, Working
  <2>5. InTurn'
    BY <1>1, <1>2, <1>6, <2>1, <2>2 DEF NoticesInv, InTurn, Working, Agents
  <2>6. SaidOnce'
    BY <1>1, <2>1, <2>2 DEF NoticesInv, SaidOnce, toldVars, Working
  <2>7. AuditsKept'
    BY <1>1, <1>5, <2>1, <2>2 DEF AuditsKept
  <2>8. Told' /\ MailTrue'
    BY <1>1, <1>6, <2>2 DEF NoticesInv, Told, Answered, MailTrue, mailVars, Working
  <2> QED
    BY <2>3, <2>4, <2>5, <2>6, <2>7, <2>8 DEF NoticesInv
<1>7. ASSUME online, row' = [row EXCEPT ![turn] = m.verdict], doing' = next,
             turn' = IF next = "beat" THEN turn ELSE "sell",
             mem' = [r \in Agents |->
                       IF r = turn THEN [Made(m.mode) EXCEPT !.final = m.verdict,
                                                             !.started = m.started]
                       ELSE IF next = "assemble" THEN Made("recover") ELSE mem[r]]
      PROVE  NoticesInv'
  <2> DEFINE n == [Made(m.mode) EXCEPT !.final = m.verdict, !.started = m.started]
  <2>1. n \in Memory /\ n.final = m.verdict /\ n.mode = m.mode
    <3>1. Made(m.mode) \in Memory /\ Made(m.mode).mode = m.mode /\ m.started \in BOOLEAN
      BY <1>2, JustMade DEF Memory
    <3> QED
      BY <1>2, <3>1 DEF Memory
  <2>2. mem'[turn] = n /\ \A r \in Agents : r # turn =>
          mem'[r] = IF next = "assemble" THEN Made("recover") ELSE mem[r]
    BY <1>2, <1>7
  <2>3. mem' \in [Agents -> Memory]
    BY <1>3, <1>7, <2>1, JustMade
  <2> HIDE DEF n
  <2>4. \/ /\ next = "assemble" /\ m.mode = "recover" /\ turn = "close" /\ row["sell"] = "running"
        \/ next = "beat" /\ m.mode = "recover"
        \/ next = "begin" /\ m.mode = "new" /\ turn = "close"
        \/ next = "beat" /\ m.mode = "new"
    BY <1>2 DEF AfterFinal
  <2>5. m.mode = "new" => IF turn = "close" THEN row["sell"] = "none" ELSE mem["close"].final # "none"
    BY <1>1 DEF NoticesInv, InTurn
  <2>6. "close" \in Agents /\ "sell" \in Agents /\ \A r \in Agents : r = "close" \/ r = "sell"
    BY DEF Agents
  <2>7. NoticesTyped'
    <3>1. turn' \in Agents /\ doing' \in Places
      BY <1>2, <1>7, <2>4, <2>6 DEF Places, Working
    <3> QED
      BY <1>1, <1>4, <1>7, <2>3, <3>1 DEF NoticesInv, NoticesTyped, mailVars
  <2>8. RowsOpen'
    <3>1. \A r \in Agents : mem'[r].final # "none" => row'[r] = mem'[r].final
      BY <1>4, <1>7, <2>1, <2>2, JustMade
    <3>2. doing' = "begin" => mem'["sell"].final = "none" /\ row'["sell"] = "none"
      <4> SUFFICES ASSUME doing' = "begin"
                   PROVE  mem'["sell"].final = "none" /\ row'["sell"] = "none"
        OBVIOUS
      <4>1. next = "begin" /\ m.mode = "new" /\ turn = "close"
        BY <1>7, <2>4
      <4>2. row'["sell"] = "none" /\ mem'["sell"] = mem["sell"]
        BY <1>4, <1>7, <2>2, <2>5, <2>6, <4>1
      <4>3. mem["sell"].final \notin {"running"}
        BY <1>3, <2>6 DEF Memory, Finals, GateStatuses
      <4> QED
        BY <2>6, <3>1, <4>2
    <3>3. doing' = "assemble" => mem'["sell"].final = "none" /\ row'["sell"] = "running"
      <4> SUFFICES ASSUME doing' = "assemble"
                   PROVE  mem'["sell"].final = "none" /\ row'["sell"] = "running"
        OBVIOUS
      <4>1. next = "assemble" /\ turn = "close" /\ row["sell"] = "running"
        BY <1>7, <2>4
      <4>2. row'["sell"] = "running" /\ mem'["sell"] = Made("recover")
        BY <1>4, <1>7, <2>2, <2>6, <4>1
      <4> QED
        BY <4>2, JustMade
    <3>4. doing' \in {"begin", "assemble", "beat"} /\ (doing' # "beat" => turn' = "sell")
      BY <1>7, <2>4
    <3>5. row'["close"] = "none" => row'["sell"] = "none"
      BY <1>4, <1>7
    <3> QED
      BY <3>1, <3>2, <3>3, <3>4, <3>5 DEF RowsOpen, Working
  <2>9. InTurn'
    <3>1. CASE next = "begin"
      <4>1. m.mode = "new" /\ turn = "close" /\ turn' = "sell" /\ doing' = "begin"
        BY <1>7, <2>4, <3>1
      <4>2. mem'["close"].final # "none"
        BY <1>2, <2>1, <2>2, <4>1
      <4> QED
        BY <4>1, <4>2 DEF InTurn, Working
    <3>2. CASE next = "assemble"
      <4>1. turn = "close" /\ turn' = "sell" /\ doing' = "assemble"
        BY <1>7, <2>4, <3>2
      <4>2. mem'["sell"].mode = "recover"
        BY <2>2, <2>6, <3>2, <4>1, JustMade
      <4> QED
        BY <4>1, <4>2 DEF InTurn, Working
    <3>3. CASE next = "beat"
      BY <1>7, <3>3 DEF InTurn, Working
    <3> QED
      BY <2>4, <3>1, <3>2, <3>3
  <2>10. SaidOnce'
    <3>1. beat = "none" /\ beat' = "none"
      BY <1>1 DEF NoticesInv, SaidOnce, toldVars
    <3>2. said' = said
      BY <1>1 DEF toldVars
    <3>3. doing' = "beat" => \/ \E r \in Agents : mem'[r].final \notin Healthy \cup {"none"}
                             \/ \A r \in Agents : mem'[r].final = "none" => row'[r] = "none"
      <4> SUFFICES ASSUME doing' = "beat"
                   PROVE  \/ \E r \in Agents : mem'[r].final \notin Healthy \cup {"none"}
                          \/ \A r \in Agents : mem'[r].final = "none" => row'[r] = "none"
        OBVIOUS
      <4>1. CASE m.mode = "recover"
        <5>1. mem'[turn].final = "failed"
          BY <1>2, <2>1, <2>2, <4>1
        <5> QED
          BY <1>2, <5>1 DEF Healthy
      <4>2. CASE m.mode = "new" /\ turn = "close"
        <5>1. row'["sell"] = "none" /\ mem'["close"].final # "none"
          BY <1>2, <1>4, <1>7, <2>1, <2>2, <2>5, <2>6, <4>2
        <5> QED
          BY <2>6, <5>1
      <4>3. CASE m.mode = "new" /\ turn = "sell"
        <5>1. mem'["sell"].final # "none" /\ mem'["close"] = mem["close"]
          BY <1>2, <1>7, <2>1, <2>2, <2>6, <4>3
        <5>2. mem["close"].final # "none"
          BY <2>5, <4>3
        <5> QED
          BY <2>6, <5>1, <5>2
      <4> QED
        BY <1>2, <2>6, <4>1, <4>2, <4>3
    <3> QED
      BY <1>4, <1>7, <3>1, <3>2, <3>3 DEF SaidOnce
  <2>11. AuditsKept'
    <3>1. doing' = "assemble" => mem'[turn'].mode = "recover"
      BY <1>7, <2>2, <2>4, <2>6, JustMade
    <3>2. doing' \in {"begin", "assemble", "beat"}
      BY <1>7, <2>4
    <3> QED
      BY <1>1, <1>4, <1>5, <1>7, <3>1, <3>2 DEF AuditsKept
  <2>12. Told' /\ MailTrue'
    <3>0. \A place, kinds : Answered(Made("recover"), place, kinds)
      BY JustMade DEF Answered
    <3>1. doing' = "assemble" => mem'[turn'] = Made("recover")
      BY <1>7, <2>2, <2>4, <2>6
    <3>2. doing' \in {"begin", "assemble", "beat"}
      BY <1>7, <2>4
    <3> QED
      BY <1>1, <3>0, <3>1, <3>2 DEF NoticesInv, Told, MailTrue, mailVars, Working
  <2> QED
    BY <2>7, <2>8, <2>9, <2>10, <2>11, <2>12 DEF NoticesInv
<1> QED
  BY <1>6, <1>7 DEF Finalize

LEMMA FireKeeps ==
  ASSUME NoticesInv, CronFires
  PROVE  NoticesInv'
<1>1. NoticesTyped'
  BY NoticesBounds, JustMade DEF CronFires, noticeVars, ledgerVars, mailVars, alertVars, toldVars, NoticesInv,
     NoticesTyped, Agents, Working, Places, Healthy
<1>2. RowsOpen'
  BY NoticesBounds, JustMade DEF CronFires, noticeVars, ledgerVars, mailVars, alertVars, toldVars, NoticesInv,
     NoticesTyped, RowsOpen, Agents, Working, Places, Healthy
<1>3. InTurn'
  <2>0. doing = "off" /\ turn = "close"
    BY DEF CronFires, NoticesInv, RowsOpen
  <2>1. CASE row["close"] = "none" /\ doing' = "begin" /\ UNCHANGED <<turn, mem>>
    <3>1. row["sell"] = "none" /\ row' = row
      BY <2>1 DEF CronFires, ledgerVars, NoticesInv, RowsOpen
    <3> QED
      BY <2>0, <2>1, <3>1 DEF InTurn, Working
  <2>2. CASE /\ doing' = "assemble"
             /\ \E r \in Agents : turn' = r /\ mem' = [mem EXCEPT ![r] = Made("recover")]
    <3>1. mem'[turn'].mode = "recover"
      BY <2>2, JustMade DEF NoticesInv, NoticesTyped
    <3> QED
      BY <2>2, <3>1 DEF InTurn
  <2>3. CASE doing' = "over"
    BY <2>3 DEF InTurn, Working
  <2> QED
    BY <2>1, <2>2, <2>3 DEF CronFires, Agents
<1>4. SaidOnce'
  BY NoticesBounds, JustMade DEF CronFires, noticeVars, ledgerVars, mailVars, alertVars, toldVars, NoticesInv,
     NoticesTyped, SaidOnce, Agents, Working, Places, Healthy, RowsOpen
<1>5. AuditsKept'
  BY NoticesBounds, JustMade DEF CronFires, noticeVars, ledgerVars, mailVars, alertVars, toldVars, NoticesInv,
     NoticesTyped, AuditsKept, Agents, Working, Places, Healthy, WholeAudit
<1>6. Told'
  BY NoticesBounds, JustMade DEF CronFires, noticeVars, ledgerVars, mailVars, alertVars, toldVars, NoticesInv,
     NoticesTyped, Told, Answered, Agents, Working, Places, Healthy
<1>7. MailTrue'
  BY NoticesBounds, JustMade DEF CronFires, noticeVars, ledgerVars, mailVars, alertVars, toldVars, NoticesInv,
     NoticesTyped, MailTrue, Agents, Working, Places, Healthy
<1> QED
  BY <1>1, <1>2, <1>3, <1>4, <1>5, <1>6, <1>7 DEF NoticesInv

LEMMA CannotStartKeeps ==
  ASSUME NoticesInv, CannotStart
  PROVE  NoticesInv'
<1>1. NoticesTyped'
  BY NoticesBounds, JustMade DEF CannotStart, noticeVars, ledgerVars, mailVars, alertVars, toldVars, NoticesInv,
     NoticesTyped, Agents, Working, Places, Healthy
<1>2. RowsOpen'
  BY NoticesBounds, JustMade DEF CannotStart, noticeVars, ledgerVars, mailVars, alertVars, toldVars, NoticesInv,
     NoticesTyped, RowsOpen, Agents, Working, Places, Healthy
<1>3. InTurn'
  BY NoticesBounds, JustMade DEF CannotStart, noticeVars, ledgerVars, mailVars, alertVars, toldVars, NoticesInv,
     NoticesTyped, InTurn, Agents, Working, Places, Healthy
<1>4. SaidOnce'
  BY NoticesBounds, JustMade DEF CannotStart, noticeVars, ledgerVars, mailVars, alertVars, toldVars, NoticesInv,
     NoticesTyped, SaidOnce, Agents, Working, Places, Healthy, RowsOpen
<1>5. AuditsKept'
  BY NoticesBounds, JustMade DEF CannotStart, noticeVars, ledgerVars, mailVars, alertVars, toldVars, NoticesInv,
     NoticesTyped, AuditsKept, Agents, Working, Places, Healthy, WholeAudit
<1>6. Told'
  BY NoticesBounds, JustMade DEF CannotStart, noticeVars, ledgerVars, mailVars, alertVars, toldVars, NoticesInv,
     NoticesTyped, Told, Answered, Agents, Working, Places, Healthy
<1>7. MailTrue'
  BY NoticesBounds, JustMade DEF CannotStart, noticeVars, ledgerVars, mailVars, alertVars, toldVars, NoticesInv,
     NoticesTyped, MailTrue, Agents, Working, Places, Healthy
<1> QED
  BY <1>1, <1>2, <1>3, <1>4, <1>5, <1>6, <1>7 DEF NoticesInv

LEMMA BeginKeeps ==
  ASSUME NoticesInv, Begin
  PROVE  NoticesInv'
<1>1. NoticesTyped'
  BY NoticesBounds, JustMade DEF Begin, noticeVars, ledgerVars, mailVars, alertVars, toldVars, NoticesInv,
     NoticesTyped, Agents, Working, Places, Healthy
<1>2. RowsOpen'
  <2>1. turn = "sell" => mem["close"].final # "none"
    BY DEF Begin, NoticesInv, InTurn
  <2>2. turn \in Agents /\ row[turn] = "none" /\ mem[turn].final = "none" /\ RowsOpen
    BY DEF Begin, NoticesInv, NoticesTyped, RowsOpen
  <2>3. row' = row \/ row' = [row EXCEPT ![turn] = "running"]
    BY DEF Begin
  <2>4. /\ row'["close"] = "none" => row'["sell"] = "none"
        /\ \A r \in Agents : mem[r].final # "none" => row'[r] = mem[r].final
    BY <2>1, <2>2, <2>3 DEF RowsOpen, NoticesInv, NoticesTyped, Agents
  <2>5. CASE doing' = "gate" /\ row' = [row EXCEPT ![turn] = "running"] /\ turn' = turn
             /\ mem' = [mem EXCEPT ![turn] = Made("new")]
    <3>1. row'[turn] = "running" /\ mem'[turn].final = "none"
          /\ \A r \in Agents \ {turn} : mem'[r] = mem[r]
      BY <2>2, <2>5, JustMade DEF NoticesInv, NoticesTyped
    <3> QED
      BY <2>4, <2>5, <3>1 DEF RowsOpen
  <2>6. CASE doing' = "over" /\ UNCHANGED <<mem, turn>>
    BY <2>4, <2>6 DEF RowsOpen, Working
  <2> QED
    BY <2>5, <2>6 DEF Begin
<1>3. InTurn'
  BY NoticesBounds, JustMade DEF Begin, noticeVars, ledgerVars, mailVars, alertVars, toldVars, NoticesInv,
     NoticesTyped, InTurn, Agents, Working, Places, Healthy
<1>4. SaidOnce'
  <2>1. SaidOnce /\ turn \in Agents /\ row[turn] = "none"
        /\ row \in [Agents -> Finals \cup {"none", "running"}]
    BY DEF Begin, NoticesInv, NoticesTyped, RowsOpen
  <2>2. row' = row \/ row' = [row EXCEPT ![turn] = "running"]
    BY DEF Begin
  <2>3. doing = "begin" /\ doing' # "beat" /\ UNCHANGED <<beat, said>>
    BY DEF Begin, toldVars
  <2>4. beat = "none"
    BY <2>1, <2>3 DEF SaidOnce
  <2>5. \A p \in said : row'[p[1]] = p[2]
    BY <2>1, <2>2 DEF SaidOnce, Finals, GateStatuses
  <2> QED
    BY <2>1, <2>3, <2>4, <2>5 DEF SaidOnce
<1>5. AuditsKept'
  <2>1. AuditsKept /\ turn \in Agents /\ row[turn] = "none"
        /\ row \in [Agents -> Finals \cup {"none", "running"}]
    BY DEF Begin, NoticesInv, NoticesTyped, RowsOpen
  <2>2. row' = row \/ row' = [row EXCEPT ![turn] = "running"]
    BY DEF Begin
  <2>3. doing' \in {"gate", "over"} /\ UNCHANGED <<turn, audited, findings>>
    BY DEF Begin
  <2>4. \A r \in Agents : /\ row'[r] = "none" => row[r] = "none"
                          /\ row'[r] = "completed" => row[r] = "completed"
    BY <2>1, <2>2
  <2>5. \A r \in Agents : WholeAudit(r)' <=> WholeAudit(r)
    BY <2>3 DEF WholeAudit
  <2>6. audited[turn] = "none"
    BY <2>1 DEF AuditsKept
  <2> HIDE DEF WholeAudit
  <2> QED
    BY <2>1, <2>3, <2>4, <2>5, <2>6 DEF AuditsKept
<1>6. Told'
  BY NoticesBounds, JustMade DEF Begin, noticeVars, ledgerVars, mailVars, alertVars, toldVars, NoticesInv,
     NoticesTyped, Told, Answered, Agents, Working, Places, Healthy
<1>7. MailTrue'
  BY NoticesBounds, JustMade DEF Begin, noticeVars, ledgerVars, mailVars, alertVars, toldVars, NoticesInv,
     NoticesTyped, MailTrue, Agents, Working, Places, Healthy
<1> QED
  BY <1>1, <1>2, <1>3, <1>4, <1>5, <1>6, <1>7 DEF NoticesInv

LEMMA BeatKeeps ==
  ASSUME NoticesInv, Heartbeat
  PROVE  NoticesInv'
<1>1. NoticesTyped'
  BY NoticesBounds, JustMade DEF Heartbeat, BeatHealthy, Finished, noticeVars, ledgerVars, mailVars, alertVars, toldVars, NoticesInv,
     NoticesTyped, Agents, Working, Places, Healthy
<1>2. RowsOpen'
  BY NoticesBounds, JustMade DEF Heartbeat, BeatHealthy, Finished, noticeVars, ledgerVars, mailVars, alertVars, toldVars, NoticesInv,
     NoticesTyped, RowsOpen, Agents, Working, Places, Healthy
<1>3. InTurn'
  BY NoticesBounds, JustMade DEF Heartbeat, BeatHealthy, Finished, noticeVars, ledgerVars, mailVars, alertVars, toldVars, NoticesInv,
     NoticesTyped, InTurn, Agents, Working, Places, Healthy
<1>4. SaidOnce'
  <2>1. /\ SaidOnce /\ RowsOpen /\ doing = "beat" /\ beat = "none" /\ row' = row
        /\ mem \in [Agents -> Memory]
    BY DEF Heartbeat, NoticesInv, NoticesTyped, SaidOnce, ledgerVars
  <2>2. beat' = IF BeatHealthy THEN "healthy" ELSE "failing"
    BY <2>1 DEF Heartbeat
  <2>3. doing' \in {"mail", "over"} /\ said' = said \cup {<<r, mem[r].final>> : r \in Finished}
    BY DEF Heartbeat
  <2>4. \A p \in said' : p[1] \in Agents /\ p[2] \in Finals /\ row[p[1]] = p[2]
    <3>1. \A r \in Finished : r \in Agents /\ mem[r].final \in Finals /\ row[r] = mem[r].final
      BY <2>1 DEF Finished, RowsOpen, Memory
    <3> QED
      BY <2>1, <2>3, <3>1 DEF SaidOnce
  <2>5. beat' = "healthy" => \A r \in Agents : row[r] \in Healthy \cup {"none"}
    <3> SUFFICES ASSUME BeatHealthy, NEW r \in Agents PROVE row[r] \in Healthy \cup {"none"}
      BY <2>2
    <3>1. \A o \in Agents : mem[o].final \in Healthy \cup {"none"}
      BY DEF BeatHealthy, Finished
    <3> QED
      BY <2>1, <3>1 DEF SaidOnce, RowsOpen
  <2> QED
    BY <2>1, <2>2, <2>3, <2>4, <2>5 DEF SaidOnce
<1>5. AuditsKept'
  BY NoticesBounds, JustMade DEF Heartbeat, BeatHealthy, Finished, noticeVars, ledgerVars, mailVars, alertVars, toldVars, NoticesInv,
     NoticesTyped, AuditsKept, Agents, Working, Places, Healthy, WholeAudit
<1>6. Told'
  BY NoticesBounds, JustMade DEF Heartbeat, BeatHealthy, Finished, noticeVars, ledgerVars, mailVars, alertVars, toldVars, NoticesInv,
     NoticesTyped, Told, Answered, Agents, Working, Places, Healthy
<1>7. MailTrue'
  BY NoticesBounds, JustMade DEF Heartbeat, BeatHealthy, Finished, noticeVars, ledgerVars, mailVars, alertVars, toldVars, NoticesInv,
     NoticesTyped, MailTrue, Agents, Working, Places, Healthy
<1> QED
  BY <1>1, <1>2, <1>3, <1>4, <1>5, <1>6, <1>7 DEF NoticesInv

LEMMA TryKeeps ==
  ASSUME NoticesInv, TryMail
  PROVE  NoticesInv'
<1>1. NoticesTyped'
  BY NoticesBounds, JustMade DEF TryMail, IdempotencyKey, noticeVars, ledgerVars, mailVars, alertVars, toldVars, NoticesInv,
     NoticesTyped, Agents, Working, Places, Healthy
<1>2. RowsOpen'
  BY NoticesBounds, JustMade DEF TryMail, IdempotencyKey, noticeVars, ledgerVars, mailVars, alertVars, toldVars, NoticesInv,
     NoticesTyped, RowsOpen, Agents, Working, Places, Healthy
<1>3. InTurn'
  BY NoticesBounds, JustMade DEF TryMail, IdempotencyKey, noticeVars, ledgerVars, mailVars, alertVars, toldVars, NoticesInv,
     NoticesTyped, InTurn, Agents, Working, Places, Healthy
<1>4. SaidOnce'
  BY NoticesBounds, JustMade DEF TryMail, IdempotencyKey, noticeVars, ledgerVars, mailVars, alertVars, toldVars, NoticesInv,
     NoticesTyped, SaidOnce, Agents, Working, Places, Healthy, RowsOpen
<1>5. AuditsKept'
  BY NoticesBounds, JustMade DEF TryMail, IdempotencyKey, noticeVars, ledgerVars, mailVars, alertVars, toldVars, NoticesInv,
     NoticesTyped, AuditsKept, Agents, Working, Places, Healthy, WholeAudit
<1>6. Told'
  BY NoticesBounds, JustMade DEF TryMail, IdempotencyKey, noticeVars, ledgerVars, mailVars, alertVars, toldVars, NoticesInv,
     NoticesTyped, Told, Answered, Agents, Working, Places, Healthy
<1>7. MailTrue'
  BY NoticesBounds, JustMade DEF TryMail, IdempotencyKey, noticeVars, ledgerVars, mailVars, alertVars, toldVars, NoticesInv,
     NoticesTyped, MailTrue, Agents, Working, Places, Healthy
<1> QED
  BY <1>1, <1>2, <1>3, <1>4, <1>5, <1>6, <1>7 DEF NoticesInv

LEMMA NoMailKeeps ==
  ASSUME NoticesInv, NoMail
  PROVE  NoticesInv'
<1>1. NoticesTyped'
  BY NoticesBounds, JustMade DEF NoMail, noticeVars, ledgerVars, mailVars, alertVars, toldVars, NoticesInv,
     NoticesTyped, Agents, Working, Places, Healthy
<1>2. RowsOpen'
  BY NoticesBounds, JustMade DEF NoMail, noticeVars, ledgerVars, mailVars, alertVars, toldVars, NoticesInv,
     NoticesTyped, RowsOpen, Agents, Working, Places, Healthy
<1>3. InTurn'
  BY NoticesBounds, JustMade DEF NoMail, noticeVars, ledgerVars, mailVars, alertVars, toldVars, NoticesInv,
     NoticesTyped, InTurn, Agents, Working, Places, Healthy
<1>4. SaidOnce'
  BY NoticesBounds, JustMade DEF NoMail, noticeVars, ledgerVars, mailVars, alertVars, toldVars, NoticesInv,
     NoticesTyped, SaidOnce, Agents, Working, Places, Healthy, RowsOpen
<1>5. AuditsKept'
  BY NoticesBounds, JustMade DEF NoMail, noticeVars, ledgerVars, mailVars, alertVars, toldVars, NoticesInv,
     NoticesTyped, AuditsKept, Agents, Working, Places, Healthy, WholeAudit
<1>6. Told'
  BY NoticesBounds, JustMade DEF NoMail, noticeVars, ledgerVars, mailVars, alertVars, toldVars, NoticesInv,
     NoticesTyped, Told, Answered, Agents, Working, Places, Healthy
<1>7. MailTrue'
  BY NoticesBounds, JustMade DEF NoMail, noticeVars, ledgerVars, mailVars, alertVars, toldVars, NoticesInv,
     NoticesTyped, MailTrue, Agents, Working, Places, Healthy
<1> QED
  BY <1>1, <1>2, <1>3, <1>4, <1>5, <1>6, <1>7 DEF NoticesInv

LEMMA RecordMailKeeps ==
  ASSUME NoticesInv, RecordMail
  PROVE  NoticesInv'
<1>1. NoticesTyped'
  BY NoticesBounds, JustMade DEF RecordMail, noticeVars, ledgerVars, mailVars, alertVars, toldVars, NoticesInv,
     NoticesTyped, Agents, Working, Places, Healthy
<1>2. RowsOpen'
  BY NoticesBounds, JustMade DEF RecordMail, noticeVars, ledgerVars, mailVars, alertVars, toldVars, NoticesInv,
     NoticesTyped, RowsOpen, Agents, Working, Places, Healthy
<1>3. InTurn'
  BY NoticesBounds, JustMade DEF RecordMail, noticeVars, ledgerVars, mailVars, alertVars, toldVars, NoticesInv,
     NoticesTyped, InTurn, Agents, Working, Places, Healthy
<1>4. SaidOnce'
  BY NoticesBounds, JustMade DEF RecordMail, noticeVars, ledgerVars, mailVars, alertVars, toldVars, NoticesInv,
     NoticesTyped, SaidOnce, Agents, Working, Places, Healthy, RowsOpen
<1>5. AuditsKept'
  BY NoticesBounds, JustMade DEF RecordMail, noticeVars, ledgerVars, mailVars, alertVars, toldVars, NoticesInv,
     NoticesTyped, AuditsKept, Agents, Working, Places, Healthy, WholeAudit
<1>6. Told'
  BY NoticesBounds, JustMade DEF RecordMail, noticeVars, ledgerVars, mailVars, alertVars, toldVars, NoticesInv,
     NoticesTyped, Told, Answered, Agents, Working, Places, Healthy
<1>7. MailTrue'
  BY NoticesBounds, JustMade DEF RecordMail, noticeVars, ledgerVars, mailVars, alertVars, toldVars, NoticesInv,
     NoticesTyped, MailTrue, Agents, Working, Places, Healthy
<1> QED
  BY <1>1, <1>2, <1>3, <1>4, <1>5, <1>6, <1>7 DEF NoticesInv

LEMMA EndKeeps ==
  ASSUME NoticesInv, ProcessEnds
  PROVE  NoticesInv'
<1>1. NoticesTyped'
  BY NoticesBounds, JustMade DEF ProcessEnds, noticeVars, ledgerVars, mailVars, alertVars, toldVars, NoticesInv,
     NoticesTyped, Agents, Working, Places, Healthy
<1>2. RowsOpen'
  BY NoticesBounds, JustMade DEF ProcessEnds, noticeVars, ledgerVars, mailVars, alertVars, toldVars, NoticesInv,
     NoticesTyped, RowsOpen, Agents, Working, Places, Healthy
<1>3. InTurn'
  BY NoticesBounds, JustMade DEF ProcessEnds, noticeVars, ledgerVars, mailVars, alertVars, toldVars, NoticesInv,
     NoticesTyped, InTurn, Agents, Working, Places, Healthy
<1>4. SaidOnce'
  BY NoticesBounds, JustMade DEF ProcessEnds, noticeVars, ledgerVars, mailVars, alertVars, toldVars, NoticesInv,
     NoticesTyped, SaidOnce, Agents, Working, Places, Healthy, RowsOpen
<1>5. AuditsKept'
  BY NoticesBounds, JustMade DEF ProcessEnds, noticeVars, ledgerVars, mailVars, alertVars, toldVars, NoticesInv,
     NoticesTyped, AuditsKept, Agents, Working, Places, Healthy, WholeAudit
<1>6. Told'
  BY NoticesBounds, JustMade DEF ProcessEnds, noticeVars, ledgerVars, mailVars, alertVars, toldVars, NoticesInv,
     NoticesTyped, Told, Answered, Agents, Working, Places, Healthy
<1>7. MailTrue'
  BY NoticesBounds, JustMade DEF ProcessEnds, noticeVars, ledgerVars, mailVars, alertVars, toldVars, NoticesInv,
     NoticesTyped, MailTrue, Agents, Working, Places, Healthy
<1> QED
  BY <1>1, <1>2, <1>3, <1>4, <1>5, <1>6, <1>7 DEF NoticesInv

LEMMA NoticesKeep ==
  ASSUME NoticesInv, [NoticesNext]_noticeVars
  PROVE  NoticesInv'
<1>1. CASE UNCHANGED noticeVars
  BY <1>1 DEF noticeVars, ledgerVars, mailVars, alertVars, toldVars, NoticesInv, NoticesTyped,
     RowsOpen, InTurn, SaidOnce, AuditsKept, Told, Answered, MailTrue, WholeAudit
<1>2. CASE NoticesNext
  BY <1>2, FireKeeps, CannotStartKeeps, BeginKeeps, GateKeepsNotices, AgentRunKeeps,
     SessionRunsKeeps, ClosingKeeps, AssembleKeeps, AuditKeeps, StatusKeeps, RaisesKeeps, HandleKeeps, FinalizeKeeps, BeatKeeps, TryKeeps,
     NoMailKeeps, RecordMailKeeps, EndKeeps DEF NoticesNext
<1> QED
  BY <1>1, <1>2

LEMMA NoticesIsSound ==
  ASSUME NoticesInv
  PROVE  NoticesTypeOK /\ NoticesSound
<1>1. NoticesTypeOK
  BY DEF NoticesInv, NoticesTyped, NoticesTypeOK, Memory
<1>2. MailedOnce
  <2>1. IsFiniteSet({0}) /\ Cardinality({0}) = 1
    BY FS_Singleton
  <2>2. letters \subseteq {0}
    BY DEF NoticesInv, MailTrue
  <2>3. Cardinality(letters) <= 1
    BY <2>1, <2>2, FS_Subset
  <2> QED
    BY <2>3 DEF MailedOnce, NoticesInv, MailTrue
<1>3. SaidTrue
  BY DEF NoticesInv, SaidOnce, SaidTrue
<1>4. CompletedAudited
  BY DEF NoticesInv, AuditsKept, WholeAudit, CompletedAudited
<1>5. AlertsSent
  BY DEF NoticesInv, Told, Answered, Heard, AlertsSent, Working
<1> QED
  BY <1>1, <1>2, <1>3, <1>4, <1>5 DEF NoticesSound

-----------------------------------------------------------------------------
(* The parts together.  A behaviour is about one of them; the others stay  *)
(* as they begin.                                                          *)

SessionInv ==
  /\ part = "talk" => TalkInv
  /\ part = "start" => StartInv
  /\ part = "searches" => CacheInv
  /\ IF part = "plan" THEN PlanInv ELSE verdict = "planning"
  /\ NoticesInv
  /\ part = "calls" => IInv
  /\ part = "credential" => CredInv
  /\ SimInv

LEMMA SessionBegins == Init => SessionInv
<1> SUFFICES ASSUME Init PROVE SessionInv
  OBVIOUS
<1>1. part = "talk" => TalkInv
  <2> SUFFICES ASSUME part = "talk" PROVE TalkInv
    OBVIOUS
  <2>1. TalkInit
    BY DEF Init, TalkBegin, Idle
  <2>2. PICK lasting \in BOOLEAN : TalkBegins("turn", lasting)
    BY <2>1 DEF TalkInit
  <2> QED
    BY <2>2, TalkStarts
<1>2. part = "start" => StartInv
  <2> SUFFICES ASSUME part = "start" PROVE StartInv
    OBVIOUS
  <2>1. StartInit
    BY DEF Init, StartBegin, Idle
  <2> QED
    BY <2>1, StartsSo DEF StartInit
<1>3. part = "searches" => CacheInv
  BY CacheStarts DEF Init
<1>4. IF part = "plan" THEN PlanInv ELSE verdict = "planning"
  <2>1. CASE part = "plan"
    <3>1. PlanInit
      BY <2>1 DEF Init, PlanBegin, Idle
    <3> QED
      BY <2>1, <3>1, PlanStarts DEF PlanInit
  <2>2. CASE part # "plan"
    BY <2>2 DEF Init, PlanBegin, Idle, PlanBegins
  <2> QED
    BY <2>1, <2>2
<1>5. NoticesInv
  BY NoticesStart DEF Init
<1>6. IInv /\ CredInv
  BY InitIInv, InvInit DEF Init, CallsBegin
<1>7. SimInv
  <2>1. CASE part = "sim"
    <3>1. SimInit
      BY <2>1 DEF Init, SimBegin, Idle
    <3> QED
      BY <3>1, SimStarts DEF SimInit
  <2>2. CASE part # "sim"
    <3>1. SimBegins([c \in Contracts |-> 0])
      BY <2>2 DEF Init, SimBegin, Idle
    <3>2. [c \in Contracts |-> 0] \in [Contracts -> 0..MaxQuantity]
      BY SimAssumption
    <3> QED
      BY <3>1, <3>2, SimStarts
  <2> QED
    BY <2>1, <2>2
<1> QED
  BY <1>1, <1>2, <1>3, <1>4, <1>5, <1>6, <1>7 DEF SessionInv

\* A step is one of the part at work.
LEMMA OnePartMoves ==
  ASSUME [Next]_sessionVars
  PROVE  /\ part' = part
         /\ part = "talk" => [TalkNext]_talkVars
         /\ part = "start" => [StartNext]_startVars
         /\ part = "searches" => [CacheNext]_cacheVars
         /\ IF part = "plan" THEN [PlanNext]_planVars ELSE UNCHANGED planVars
         /\ [NoticesNext]_noticeVars
         /\ part = "calls" => [CallsNext]_callVars
         /\ part = "credential" => [CredNext]_credVars
         /\ [SimNext]_simVars
<1>1. CASE UNCHANGED sessionVars
  BY <1>1 DEF sessionVars
<1>2. CASE Next
  BY <1>2 DEF Next
<1> QED
  BY <1>1, <1>2

LEMMA SessionMoves ==
  ASSUME SessionInv, [Next]_sessionVars
  PROVE  SessionInv'
<1>1. part = "talk" => TalkInv'
  BY OnePartMoves, TalkKeeps DEF SessionInv
<1>2. part = "start" => StartInv'
  BY OnePartMoves, StartKeeps DEF SessionInv
<1>3. part = "searches" => CacheInv'
  BY OnePartMoves, CacheKeeps DEF SessionInv
<1>4. IF part = "plan" THEN PlanInv' ELSE verdict' = "planning"
  <2>1. CASE part = "plan"
    BY <2>1, OnePartMoves, PlanKeeps DEF SessionInv
  <2>2. CASE part # "plan"
    BY <2>2, OnePartMoves DEF SessionInv, planVars
  <2> QED
    BY <2>1, <2>2
<1>5. NoticesInv'
  BY OnePartMoves, NoticesKeep DEF SessionInv
<1>6. part = "calls" => IInv'
  BY OnePartMoves, StepKeeps DEF SessionInv, Kept
<1>7. part = "credential" => CredInv'
  BY OnePartMoves, InvStep DEF SessionInv
<1>8. SimInv'
  BY OnePartMoves, SimKeeps DEF SessionInv
<1> QED
  BY <1>1, <1>2, <1>3, <1>4, <1>5, <1>6, <1>7, <1>8, OnePartMoves DEF SessionInv

LEMMA SessionInvariance == Spec => []SessionInv
<1>1. Init => SessionInv
  BY SessionBegins
<1>2. SessionInv /\ [Next]_sessionVars => SessionInv'
  BY SessionMoves
<1> QED
  BY <1>1, <1>2, PTL DEF Spec

\* Whatever the servers, the account and the agent do: an agent is prompted only with the account
\* checked and its start condition met, its final output is the best it gave and later than all it
\* ordered, and no search is paid for, refused or hidden without cause.
THEOREM SessionIsSound == Spec => []SessionSound
<1>1. SessionInv => SessionSound
  BY StartIsSound DEF SessionInv, SessionSound, TalkInv, TalkSound, CacheInv, CacheSound, RuleOnly
<1> QED
  BY <1>1, SessionInvariance, PTL

\* For every pair of prices, number of steps and schedule of ticks: a plan goes from start_price to
\* worst_price, strictly, on valid ticks, conceding no more than the linear walk; the audit has
\* nothing against it.
THEOREM PlanIsKept == Spec => []PlanSound
<1>1. SessionInv => PlanSound
  <2>1. verdict = "planning" => PlanSound
    BY DEF PlanSound
  <2> QED
    BY <2>1, PlanIsSound DEF SessionInv
<1> QED
  BY <1>1, SessionInvariance, PTL

\* Whatever fails or dies, however often the slot is fired: the owner gets one summary mail at most,
\* heartbeat and mail say what the ledger keeps for good, a run is completed only with an audit
\* whose findings are all stored, and what a process found was told before its run is final.
THEOREM NoticesAreSound == Spec => []NoticesSound
<1>1. SessionInv => NoticesSound
  BY NoticesIsSound DEF SessionInv
<1> QED
  BY <1>1, SessionInvariance, PTL

\* Every variable of the part at work has its type.
THEOREM SessionIsTyped == Spec => []TypeOK
<1>1. SessionInv => TypeOK
  <2> SUFFICES ASSUME SessionInv PROVE TypeOK
    OBVIOUS
  <2>1. /\ part = "talk" => TalkTypeOK
        /\ part = "searches" => CacheTypeOK
        /\ part = "calls" => CallsTypeOK
        /\ part = "credential" => CredTypeOK
        /\ part = "sim" => SimTypeOK
    BY CacheIsTyped DEF SessionInv, TalkInv, TalkTyped, IInv, CredInv, SimInv
  <2>2. /\ part = "start" => StartTypeOK
        /\ part = "plan" => PlanTypeOK
        /\ part = "notices" => NoticesTypeOK
    BY StartIsSound, PlanIsSound, NoticesIsSound DEF SessionInv
  <2> QED
    BY <2>1, <2>2 DEF TypeOK
<1> QED
  BY <1>1, SessionInvariance, PTL

\* However often place calls are retried and whatever the broker reports: each ref_id fills once, no
\* fill closes more than the short position its tick knows of, the simulated position is the net of
\* the fills, and the second run's start probe sees the positions that the model is shown.
THEOREM SimBookIsTrue == Spec => []SimBook
<1>1. SessionInv => SimBook
  BY SimIsSound DEF SessionInv
<1> QED
  BY <1>1, SessionInvariance, PTL
=============================================================================
