----------------------------- MODULE Credential -----------------------------
(***************************************************************************)
(* The rotating Robinhood credential (orchestrator/robinhood_credential.py,*)
(* integrations/robinhood/oauth.py, ledger/oauth_credentials.py).  A tick  *)
(* that holds the lock loads the latest stored pair, and when its access   *)
(* token is near its end exchanges the refresh token, once, for a new      *)
(* pair, which it stores before it uses it.  An operator may store a pair  *)
(* of a new login at any time.                                             *)
(*                                                                         *)
(* The process may end, and its connection, and with it the lock, may be   *)
(* lost, at any step; a reply of the token endpoint may be lost.           *)
(***************************************************************************)
EXTENDS Naturals, Sequences

CONSTANTS
  Ticks,      \* the cron fires
  MaxPairs    \* bound: token pairs issued

ASSUME CredAssumption == MaxPairs \in Nat

VARIABLES
  rows,       \* oauth_credentials: the pair of each row, in the order recorded
  issued,     \* pairs issued so far; a pair is named by its number
  nearEnd,    \* pairs whose access token is within REFRESH_MARGIN of its end
  dead,       \* pairs whose refresh token the endpoint has consumed
  at,         \* at[t]: where tick t is
  linked,     \* ticks with a connection, hence the lock
  held,       \* held[t]: the pair t loaded, 0 for none
  got,        \* got[t]: the pair t obtained, 0 for none
  resolution, \* resolution[t]: CredentialStatus
  presented,  \* presented[n]: times pair n's refresh token was presented
  reported,   \* pairs whose loss a run has alerted
  abandoned   \* dead pairs whose tick failed, or was killed, before any alert

credVars == <<rows, issued, nearEnd, dead, at, linked, held, got, resolution, presented,
              reported, abandoned>>

Pairs == 1..MaxPairs

\* latest_credential
Latest == rows[Len(rows)]

Resolves(t, st) == resolution' = [resolution EXCEPT ![t] = st] /\ at' = [at EXCEPT ![t] = "resolved"]

-----------------------------------------------------------------------------

\* seed_robinhood_credential, which takes no lock.
SeedCredential ==
  /\ issued < MaxPairs
  /\ issued' = issued + 1
  /\ rows' = Append(rows, issued')
  /\ UNCHANGED <<nearEnd, dead, at, linked, held, got, resolution, presented, reported, abandoned>>

AccessTokenAges ==
  /\ \E n \in 1..issued : n \notin nearEnd /\ nearEnd' = nearEnd \cup {n}
  /\ UNCHANGED <<rows, issued, dead, at, linked, held, got, resolution, presented, reported, abandoned>>

\* Steps 1 to 3: load, decrypt, and use a pair that lasts.
LoadCredential(t) ==
  /\ at[t] = "idle" /\ linked = {}
  /\ linked' = {t}
  /\ \/ rows = <<>> /\ Resolves(t, "missing") /\ UNCHANGED held
     \/ /\ rows # <<>>
        /\ held' = [held EXCEPT ![t] = Latest]
        /\ \/ Resolves(t, "undecryptable")
           \/ Latest \notin nearEnd /\ Resolves(t, "stored")
           \/ /\ Latest \in nearEnd
              /\ at' = [at EXCEPT ![t] = "refreshing"] /\ UNCHANGED resolution
  /\ UNCHANGED <<rows, issued, nearEnd, dead, got, presented, reported, abandoned>>

\* discover_token_endpoint raises: the refresh token was not presented.
DiscoveryFails(t) ==
  /\ at[t] = "refreshing"
  /\ Resolves(t, "refresh_failed")
  /\ UNCHANGED <<rows, issued, nearEnd, dead, linked, held, got, presented, reported, abandoned>>

\* refresh_access_token posts the token.  The endpoint consumes a live one, or fails first;
\* it refuses a dead one.
PresentToken(t) ==
  /\ at[t] = "refreshing"
  /\ at' = [at EXCEPT ![t] = "presented"]
  /\ presented' = [presented EXCEPT ![held[t]] = @ + 1]
  /\ \/ /\ held[t] \notin dead /\ issued < MaxPairs
        /\ dead' = dead \cup {held[t]}
        /\ issued' = issued + 1
        /\ got' = [got EXCEPT ![t] = issued']
     \/ UNCHANGED <<dead, issued, got>>
  /\ UNCHANGED <<rows, nearEnd, linked, held, resolution, reported, abandoned>>

\* The reply arrives and is usable, or else: whatever failed, the refresh is not retried.
TokenReply(t) ==
  /\ at[t] = "presented"
  /\ \/ got[t] # 0 /\ at' = [at EXCEPT ![t] = "saving"] /\ UNCHANGED <<resolution, got>>
     \/ Resolves(t, "refresh_failed") /\ got' = [got EXCEPT ![t] = 0]
  /\ UNCHANGED <<rows, issued, nearEnd, dead, linked, held, presented, reported, abandoned>>

\* Mutant of SaveFails: a pair that could not be saved is used.
SaveFailsQuietly(t) == Resolves(t, "refreshed")

SaveFails(t) == Resolves(t, "persist_failed")

\* insert_credential: the row may be stored although the insert raises.
SavePair(t) ==
  /\ at[t] = "saving"
  /\ \/ t \in linked /\ rows' = Append(rows, got[t]) /\ Resolves(t, "refreshed")
     \/ t \in linked /\ rows' = Append(rows, got[t]) /\ SaveFails(t)
     \/ UNCHANGED rows /\ SaveFails(t)
  /\ UNCHANGED <<issued, nearEnd, dead, linked, held, got, presented, reported, abandoned>>

\* _agent_run alerts a credential that is not usable, once the events of the resolution and
\* of the plan are recorded, in whichever run of the tick gets that far (tick_alert).
EndTick(t) ==
  /\ at[t] = "resolved" /\ t \in linked
  /\ at' = [at EXCEPT ![t] = "over"]
  /\ linked' = linked \ {t}
  /\ reported' = IF resolution[t] \in {"refresh_failed", "persist_failed", "undecryptable"}
                 THEN reported \cup {held[t]} ELSE reported
  /\ UNCHANGED <<rows, issued, nearEnd, dead, held, got, resolution, presented, abandoned>>

\* One of those events raises, as it must on a lost connection: the run is recorded as failed,
\* and the tick ends without the alert when its other run does not get there either, or when
\* that record cannot be written.
EndsUntold(t) ==
  /\ at[t] = "resolved"
  /\ at' = [at EXCEPT ![t] = "over"]
  /\ linked' = linked \ {t}
  /\ abandoned' = abandoned \cup ({held[t]} \cap dead)
  /\ UNCHANGED <<rows, issued, nearEnd, dead, held, got, resolution, presented, reported>>

LinkLost(t) ==
  /\ t \in linked
  /\ linked' = linked \ {t}
  /\ UNCHANGED <<rows, issued, nearEnd, dead, at, held, got, resolution, presented, reported, abandoned>>

TickCrash(t) ==
  /\ at[t] \notin {"idle", "over"}
  /\ at' = [at EXCEPT ![t] = "over"]
  /\ linked' = linked \ {t}
  /\ abandoned' = abandoned \cup ({held[t]} \cap dead)
  /\ UNCHANGED <<rows, issued, nearEnd, dead, held, got, resolution, presented, reported>>

CredInit ==
  /\ rows = <<>> /\ issued = 0 /\ nearEnd = {} /\ dead = {}
  /\ at = [t \in Ticks |-> "idle"] /\ linked = {}
  /\ held = [t \in Ticks |-> 0] /\ got = [t \in Ticks |-> 0]
  /\ resolution = [t \in Ticks |-> "none"]
  /\ presented = [n \in Pairs |-> 0] /\ reported = {} /\ abandoned = {}

CredNext ==
  \/ SeedCredential \/ AccessTokenAges
  \/ \E t \in Ticks :
       \/ LoadCredential(t) \/ DiscoveryFails(t) \/ PresentToken(t) \/ TokenReply(t)
       \/ SavePair(t) \/ EndTick(t) \/ EndsUntold(t) \/ LinkLost(t) \/ TickCrash(t)

CredSpec == CredInit /\ [][CredNext]_credVars

-----------------------------------------------------------------------------
(* Properties. *)

CredTypeOK ==
  /\ rows \in Seq(Pairs) /\ issued \in 0..MaxPairs
  /\ nearEnd \subseteq Pairs /\ dead \subseteq Pairs
  /\ at \in [Ticks -> {"idle", "refreshing", "presented", "saving", "resolved", "over"}]
  /\ linked \subseteq Ticks
  /\ held \in [Ticks -> 0..MaxPairs] /\ got \in [Ticks -> 0..MaxPairs]
  /\ resolution \in [Ticks -> {"none", "stored", "refreshed", "missing", "undecryptable",
                               "refresh_failed", "persist_failed"}]
  /\ presented \in [Pairs -> Nat]
  /\ reported \subseteq 0..MaxPairs /\ abandoned \subseteq Pairs

\* The stored credential is dead only while a tick is at work on it, or when a run has alerted
\* its loss, or when the tick that held it, dead, failed or was killed before its alert: never
\* behind a tick whose runs ended as they should.
LossKnown ==
  rows # <<>> /\ Latest \in dead =>
    \/ Latest \in reported \cup abandoned
    \/ \E t \in Ticks : held[t] = Latest /\ at[t] \in {"presented", "saving", "resolved"}

\* oauth.py: the old refresh token "must be treated as dead and never presented again".
PresentedOnce == \A n \in Pairs : presented[n] <= 1
=============================================================================
