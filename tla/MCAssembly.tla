----------------------------- MODULE MCAssembly -----------------------------
(* An instance of Assembly for TLC: a position on one share and a candidate that may replace *)
(* it, a job that closes the one and a job that opens the other, and one cancel of the agent. *)
EXTENDS RecordAudit

CONSTANTS wc, wo, ca, posn, cand, alien

Trades == [w \in {wc, wo} |-> IF w = wc THEN "close" ELSE "open"]
Traded == [w \in {wc, wo} |-> IF w = wc THEN 1 ELSE 2]
Priced == [r \in {posn, cand, alien} |-> IF r = posn THEN 1 ELSE IF r = cand THEN 2 ELSE 3]
Shares == [r \in {posn, cand, alien} |-> IF r = alien THEN 2 ELSE 1]
OfTheClose == [c \in {ca} |-> wc]

Choose(action, target, replacement, cites, proposed, size) ==
  [action |-> action, target |-> target, replacement |-> replacement, cites |-> cites,
   proposed |-> proposed, funding |-> {}, size |-> size]

Decided(ds, rs) == [status |-> "parsed", decisions |-> ds, rationales |-> rs]

\* Decisions that trade, each with several ways to cite, and one that is paid from a close.
Funded == [Choose("open", cand, Nothing, {wo}, {"open"}, 1) EXCEPT !.funding = {posn}]
Ways ==
  {Choose("close", posn, Nothing, c, p, 1) : c \in {{}, {wc}, {wc, ca}}, p \in {{}, {"close"}}}
  \cup {Choose("open", cand, Nothing, c, p, 1) : c \in {{}, {wo}}, p \in {{}, {"open"}}}
  \cup {Choose("roll", posn, cand, c, p, 1) :
          c \in {{wc, wo}, {wo}}, p \in {{}, {"close"}, Roles}}
  \cup {Choose("open", alien, Nothing, {wo}, {"open"}, 1),
        Choose("roll", posn, alien, {wc}, Roles, 1), Choose("hold", posn, Nothing, {ca}, {}, 0),
        Choose("close", Nothing, Nothing, {wc}, {"close"}, 1),
        Choose("open", cand, Nothing, {}, {"open"}, 0), Funded}

\* The decisions that an output combines.
Combined ==
  {Choose("close", posn, Nothing, {wc, ca}, {"close"}, 1), Funded,
   Choose("open", cand, Nothing, {wo}, {"open"}, 1), Choose("hold", posn, Nothing, {ca}, {}, 0)}

\* Every single decision, a few with a rationale as well, and pairs.
Answers ==
  {Decided(<<d>>, {}) : d \in Ways} \cup {Decided(<<d>>, {ca}) : d \in Combined}
  \cup {Decided(ds, {}) : ds \in {<<d, e>> : d, e \in Combined} \cup
                               {<<Choose("roll", posn, cand, {wc, wo}, Roles, 1), e>> : e \in Combined}}
=============================================================================
