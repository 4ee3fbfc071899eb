------------------------------- MODULE Redis --------------------------------
(***************************************************************************)
(* The Redis commands the broker uses (external: modelled from how         *)
(* queue_broker.go calls them).  A sorted set is a set of entries          *)
(* [member, score] with at most one entry per member.  Equal scores are    *)
(* ordered by the bytes of the members; that order is not modelled, so a   *)
(* command that must choose among equal scores may choose any of them.     *)
(***************************************************************************)
LOCAL INSTANCE Integers
LOCAL INSTANCE FiniteSets

\* ZADD: insert the member, or overwrite the score it has.
ZAdd(z, score, m) ==
  {e \in z : e.member # m} \cup {[member |-> m, score |-> score]}

\* ZREM: no effect if the member is absent.
ZRem(z, m) == {e \in z : e.member # m}

ZMembers(z) == {e.member : e \in z}

\* The entries ZPOPMIN may return: those of minimal score.
ZMin(z) == {e \in z : \A f \in z : e.score <= f.score}

\* The results ZRANGEBYSCORE z -inf max LIMIT 0 limit may return.
ZRangeByScore(z, max, limit) ==
  LET due == {e \in z : e.score <= max}
  IN  {B \in SUBSET due :
         /\ Cardinality(B) = limit \/ (B = due /\ Cardinality(B) < limit)
         /\ \A e \in B, f \in due \ B : e.score <= f.score}
=============================================================================
