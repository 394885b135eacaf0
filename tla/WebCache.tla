------------------------------ MODULE WebCache ------------------------------
(***************************************************************************)
(* The cache of web searches (agent/web_cache.py, ledger/web_cache.py,     *)
(* domain/web_cache.py): the hook refuses a search that a fresh recorded   *)
(* one answers, and says to read that one with the lookup tool instead.    *)
(* The check and the recording are two steps with the paid call between    *)
(* them, and Mignons of several runs search at once.                       *)
(***************************************************************************)
EXTENDS Integers, FiniteSets

CONSTANTS
  Searches,    \* bound: the search calls, identified
  Queries,     \* spellings of a query
  Question,    \* Question[q]: q case-folded, its spaces collapsed (normalize_query)
  Tagged,      \* Tagged[q]: the upper-case words of q (tickers_in), as it is spelled
  Tickers,     \* what is looked up
  Narrowings,  \* the other arguments of a search, which code completes and bounds
  NewsMaxAge,  \* data_quality.freshness.news_max_age_seconds, when it is set
  LookupLimit, \* DEFAULT_LOOKUP_LIMIT
  MaxNow,      \* bound: the clock
  NoEntry

ASSUME CacheAssumption ==
  Searches \subseteq Nat /\ {NewsMaxAge, LookupLimit, MaxNow} \subseteq Nat

VARIABLES
  ruleSet,     \* the rule is a number: TBD means no cache
  now,
  search,      \* each search: how far it is, what it asked, when it was sent and refused why
  entries,     \* web_cache_entries: [call, query, narrowing, at]
  looked       \* the last lookup: its ticker, when, and the entries it returned, as a set

cacheVars == <<ruleSet, now, search, entries, looked>>

\* search_cache_key
Key(e) == <<Question[e.query], e.narrowing>>

\* Mutant of Fresh: the newest entry will do, however old.
FreshEver(e, t) == e.at <= t

\* retrieved_at BETWEEN now - max age AND now
Fresh(e, t) == t - NewsMaxAge <= e.at /\ e.at <= t

\* Mutant of Answering: searches narrowed differently share an entry.
AnsweringAny(query, narrowing) ==
  {e \in entries : Question[e.query] = Question[query] /\ Fresh(e, now)}

\* fresh_entry_for_key
Answering(query, narrowing) ==
  {e \in entries : Key(e) = <<Question[query], narrowing>> /\ Fresh(e, now)}

Newest(es) == {e \in es : \A f \in es : f.at <= e.at}

CacheBegins(busy) ==
  /\ ruleSet \in (IF busy THEN BOOLEAN ELSE {FALSE})
  /\ now = 0 /\ entries = {}
  /\ search = [s \in Searches |-> [is |-> "idle"]]
  /\ looked = NoEntry

ClockTicks ==
  /\ now < MaxNow /\ now' = now + 1
  /\ UNCHANGED <<ruleSet, search, entries, looked>>

Begun(s) == \A r \in Searches : r < s => search[r].is # "idle"

\* The hook lets the search be sent when nothing fresh answers it; without the rule it does not ask.
SendSearch(s, q, n) ==
  /\ search[s].is = "idle" /\ Begun(s)
  /\ ruleSet => Answering(q, n) = {}
  /\ search' = [search EXCEPT ![s] = [is |-> "sent", query |-> q, narrowing |-> n, at |-> now]]
  /\ UNCHANGED <<ruleSet, now, entries, looked>>

\* cached_search_denial: it names the newest entry.
RefuseSearch(s, q, n) ==
  /\ ruleSet /\ search[s].is = "idle" /\ Begun(s)
  /\ \E e \in Newest(Answering(q, n)) :
       search' = [search EXCEPT ![s] =
                    [is |-> "refused", query |-> q, narrowing |-> n, at |-> now, by |-> e]]
  /\ UNCHANGED <<ruleSet, now, entries, looked>>

\* record_web_result, once for each call.
Cached(s) ==
  entries \cup
    {[call |-> s, query |-> search[s].query, narrowing |-> search[s].narrowing, at |-> now]}

\* capture_web: the delivered result is recorded when it is a validated one; a failure to record is
\* noted and the result delivered all the same.
Deliver(s, recorded) ==
  /\ search[s].is = "sent" /\ (recorded => ruleSet)
  /\ search' = [search EXCEPT ![s].is = IF recorded THEN "recorded" ELSE "unrecorded"]
  /\ entries' = IF recorded THEN Cached(s) ELSE entries
  /\ UNCHANGED <<ruleSet, now, looked>>

Few(es) == IF Cardinality(es) < LookupLimit THEN Cardinality(es) ELSE LookupLimit

\* Mutant of Listed: the oldest entries first.
ListedOldest(es) ==
  {shown \in SUBSET es :
     Cardinality(shown) = Few(es) /\ \A e \in shown, f \in es \ shown : f.at >= e.at}

\* fresh_entries_for_ticker: the newest few, ties broken by identifiers that say nothing.
Listed(es) ==
  {shown \in SUBSET es :
     Cardinality(shown) = Few(es) /\ \A e \in shown, f \in es \ shown : f.at <= e.at}

\* lookup_payload
ShownOf(t) == Listed({e \in entries : t \in Tagged[e.query] /\ Fresh(e, now)})

\* web_cache_lookup; without the rule its limit is 0, which is an error.
Lookup(t) ==
  /\ ruleSet
  /\ \E shown \in ShownOf(t) : looked' = [ticker |-> t, at |-> now, shown |-> shown]
  /\ UNCHANGED <<ruleSet, now, search, entries>>

CacheNext ==
  \/ ClockTicks
  \/ \E s \in Searches :
       \/ \E q \in Queries, n \in Narrowings : SendSearch(s, q, n) \/ RefuseSearch(s, q, n)
       \/ \E recorded \in BOOLEAN : Deliver(s, recorded)
  \/ \E t \in Tickers : Lookup(t)

-----------------------------------------------------------------------------
(* Properties. *)

CacheTypeOK ==
  /\ ruleSet \in BOOLEAN /\ now \in 0..MaxNow
  /\ \A s \in Searches : search[s].is \in {"idle", "sent", "refused", "recorded", "unrecorded"}
  /\ entries \subseteq [call : Searches, query : Queries, narrowing : Narrowings, at : 0..MaxNow]
\* No search is paid for while an answer to the same question, narrowed the same way, is on record
\* and fresh, however the two were spelled; two that run at once may both be.
PaidOnce ==
  \A s \in Searches, e \in entries :
    search[s].is \in {"sent", "recorded", "unrecorded"} /\ Key(search[s]) = Key(e)
    => ~(e.at < search[s].at /\ search[s].at <= e.at + NewsMaxAge)

\* A refused search has its answer on record, of another call, and fresh when it was refused.
RefusedForCause ==
  \A s \in Searches :
    search[s].is = "refused" =>
      LET e == search[s].by
      IN  /\ e \in entries /\ search[e.call].is = "recorded" /\ Key(e) = Key(search[s])
          /\ e.at <= search[s].at /\ search[s].at <= e.at + NewsMaxAge

\* A lookup shows nothing stale and nothing of another ticker, and leaves a fresh entry out only
\* for as many that are no older.
ShownIsNews ==
  looked # NoEntry =>
    LET about(e) == /\ looked.ticker \in Tagged[e.query]
                    /\ e.at <= looked.at /\ looked.at <= e.at + NewsMaxAge
    IN  /\ \A e \in looked.shown : about(e)
        /\ \A e \in entries \ looked.shown :
             about(e) /\ e.at < looked.at =>
               Cardinality({f \in looked.shown : f.at >= e.at}) = LookupLimit

\* The cache never hides research, and without the rule there is none.
CacheSound ==
  PaidOnce /\ RefusedForCause /\ ShownIsNews /\ (~ruleSet => entries = {} /\ looked = NoEntry)
=============================================================================
