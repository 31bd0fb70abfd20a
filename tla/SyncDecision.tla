---------------------------- MODULE SyncDecision ----------------------------
(***************************************************************************)
(* The pure decisions of one pass of the sync engine over one book: is a   *)
(* synchronisation due at all, and which client leads it                   *)
(* (sync_manager.py, _evaluate_sync_significance and _determine_leader).   *)
(*                                                                         *)
(* Numbers are fixed point with four decimals, the precision the code      *)
(* rounds a delta to (round(cfg.delta, 4)): the fraction 0.01 is 100, one  *)
(* second is 10000.  A config is a function from the clients that answered *)
(* to records [pct, prev, delta, threshold], what the decisions read of a  *)
(* sync_client_interface.ServiceState.  Every client that answers has a    *)
(* percentage: an audiobook whose duration is unknown is left out.         *)
(***************************************************************************)
EXTENDS Integers, FiniteSets

Unit == 10000          \* 100 percent, or one second

Gap(m, n) == IF m < n THEN n - m ELSE m - n

(***************************************************************************)
(* The ServiceState of a client that is at pct and was last recorded at    *)
(* prev.  ABS measures its delta in seconds of the audiobook and reports   *)
(* none at the very start; the others measure a fraction of the book.      *)
(***************************************************************************)
ServiceState(isAbs, pct, prev, duration) ==
    [pct       |-> pct,
     prev      |-> prev,
     delta     |-> IF ~isAbs THEN Gap(pct, prev)
                   ELSE IF pct = 0 THEN 0 ELSE Gap(pct, prev) * duration,
     threshold |-> IF isAbs THEN 60 * Unit ELSE Unit \div 100]

\* A jump back to 0 is a new or reset client, not reading: it is filtered.
JumpedToZero(s) == s.pct < 10 /\ s.prev > 100

\* Mutant: a jump back to 0 counts as reading.
SignificantEvenAtZero(s, duration) ==
    s.delta > 5 \/ s.delta * duration > 30 * Unit

(***************************************************************************)
(* _has_significant_delta: more than 0.0005, or more than 30 seconds of a  *)
(* book of the given duration (0 when the book has none).  The delta is    *)
(* compared as it comes, whatever unit the client measures it in.          *)
(***************************************************************************)
HasSignificantDelta(s, duration) ==
    /\ ~JumpedToZero(s)
    /\ s.delta > 5 \/ s.delta * duration > 30 * Unit

\* progress_diff >= sync_delta_between_clients
Discrepancy(config, between) ==
    \E c, d \in DOMAIN config : c # d /\ config[c].pct - config[d].pct >= between

\* Mutant: a discrepancy between clients does not count.
DeltasOnly(config, between) ==
    /\ \E c \in DOMAIN config : config[c].delta # 0
    /\ \/ \E c \in DOMAIN config : config[c].delta >= config[c].threshold
       \/ \A c \in DOMAIN config :
              ~(0 < config[c].delta /\ config[c].delta < config[c].threshold)

(***************************************************************************)
(* _evaluate_sync_significance: nothing to do when no client moved and all *)
(* agree, nor when every movement is below its client's threshold; a       *)
(* discrepancy between two clients overrides both.                         *)
(***************************************************************************)
EvaluateSyncSignificance(config, between) ==
    \/ Discrepancy(config, between)
    \/ /\ \E c \in DOMAIN config : config[c].delta # 0
       /\ \/ \E c \in DOMAIN config : config[c].delta >= config[c].threshold
          \/ \A c \in DOMAIN config :
                 ~(0 < config[c].delta /\ config[c].delta < config[c].threshold)

\* The elements of S where f is greatest; ties are broken by dict order,
\* which follows the order the fetches complete in: any of them may win.
ArgMax(f, S) == {c \in S : \A d \in S : f[d] =< f[c]}

\* Mutant: furthest wins, whoever moved.
AllCandidates(config, eligible, duration) == DOMAIN config \cap eligible

\* The clients that may lead, those that moved if there are any.
Candidates(config, eligible, duration) ==
    LET vals    == DOMAIN config \cap eligible
        changed == {c \in vals : HasSignificantDelta(config[c], duration)}
    IN  IF changed = {} THEN vals ELSE changed

(***************************************************************************)
(* _determine_leader: the set of clients that may come out as leader.      *)
(* eligible are the clients with can_be_leader(); norm maps the clients    *)
(* that could be normalised to a common axis (at most one entry means the  *)
(* normalisation failed).                                                  *)
(***************************************************************************)
Leaders(config, eligible, duration, norm) ==
    LET cand     == Candidates(config, eligible, duration)
        normCand == cand \cap DOMAIN norm
    IN  IF normCand # {} /\ \E c, d \in DOMAIN norm : c # d
        THEN ArgMax(norm, normCand)
        ELSE ArgMax([c \in cand |-> config[c].pct], cand)
=============================================================================
