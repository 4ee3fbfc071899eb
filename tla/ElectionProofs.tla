--------------------------- MODULE ElectionProofs ---------------------------
(***************************************************************************)
(* At most one leader still holds its key, for any number of schedulers,   *)
(* campaigns and failures.  The argument: revisions only grow, a candidate *)
(* is elected when its key is the oldest, so as long as that key is there  *)
(* it stays the oldest; two leaders with keys would both be the oldest.    *)
(***************************************************************************)
EXTENDS Election, TLAPS

\* Every key, and every revision a node remembers, was handed out before.
Past ==
  /\ \A r \in keys : r < rev
  /\ \A i \in Nodes : mine[i] # None => mine[i] < rev

\* A leader's key, while it is there, is the oldest.
LeaderOldest == \A i \in Nodes : Valid(i) => \A r \in keys : r >= mine[i]

Inv == TypeOK /\ Past /\ LeaderOldest

LEMMA InitInv == Init => Inv
BY ElectionAssumption DEF Init, Inv, TypeOK, Past, LeaderOldest, Valid, PCs

\* The steps that neither campaign nor elect: keys only go, flags only drop.
Shrinks ==
  /\ rev' = rev /\ keys' \subseteq keys
  /\ \A i \in Nodes : mine'[i] = mine[i] \/ mine'[i] = None
  /\ \A i \in Nodes : isLeader'[i] => isLeader[i]

(* Removing keys, forgetting revisions and clearing flags keeps Past and   *)
(* LeaderOldest.                                                           *)
LEMMA ShrinkKeeps == ASSUME Inv, Shrinks PROVE Past' /\ LeaderOldest'
<1>1. Past'
  BY DEF Inv, Past, Shrinks
<1>2. ASSUME NEW i \in Nodes, Valid(i)', NEW r \in keys' PROVE r >= mine'[i]
  <2>1. mine'[i] \in Nat
    BY <1>2 DEF Inv, TypeOK, Valid, Shrinks
  <2>2. mine'[i] = mine[i]
    BY <2>1, ElectionAssumption DEF Shrinks
  <2> QED
    BY <1>2, <2>2 DEF Inv, LeaderOldest, Valid, Shrinks
<1> QED
  BY <1>1, <1>2 DEF LeaderOldest

\* Every action but Campaign and Elected shrinks the state.
LEMMA OthersShrink ==
  ASSUME Inv, NEW i \in Nodes,
         \/ NewSession(i) \/ GiveUp(i) \/ SessionDone(i) \/ EndTerm(i) \/ Resign(i) \/ Close(i)
         \/ LoopsReturn(i) \/ Expire(i) \/ Notice(i) \/ Shutdown(i) \/ Exit(i) \/ Restart(i)
  PROVE  Shrinks
<1>1. CASE NewSession(i)
  BY <1>1 DEF NewSession, Shrinks, Inv, TypeOK
<1>2. CASE GiveUp(i) \/ SessionDone(i) \/ Resign(i) \/ LoopsReturn(i) \/ Expire(i) \/ Notice(i)
        \/ Shutdown(i) \/ Restart(i)
  BY <1>2 DEF GiveUp, SessionDone, Resign, LoopsReturn, Expire, Notice, Shutdown, Restart, Shrinks
<1>3. CASE EndTerm(i)
  BY <1>3 DEF EndTerm, Shrinks, Inv, TypeOK
<1>4. CASE Close(i)
  BY <1>4 DEF Close, Shrinks, Inv, TypeOK
<1>5. CASE Exit(i)
  BY <1>5 DEF Exit, Shrinks, Inv, TypeOK
<1> QED
  BY <1>1, <1>2, <1>3, <1>4, <1>5

\* The types of what the elector's steps change.
LEMMA ElectorTypes == ASSUME Inv, NEW i \in Nodes, Elector(i) PROVE TypeOK'
<1>1. CASE NewSession(i)
  BY <1>1, ElectionAssumption DEF NewSession, Goto, Inv, TypeOK, PCs
<1>2. CASE Campaign(i)
  <2>1. keys' \subseteq Nat /\ rev' \in Nat /\ mine' \in [Nodes -> Nat \cup {None}]
    <3>1. keys \subseteq Nat /\ rev \in Nat /\ mine \in [Nodes -> Nat \cup {None}]
      BY DEF Inv, TypeOK
    <3>2. CASE keys' = keys \cup {rev} /\ rev' = rev + 1 /\ mine' = [mine EXCEPT ![i] = rev]
      BY <3>1, <3>2
    <3>3. CASE UNCHANGED <<mine, keys, rev>>
      BY <3>1, <3>3
    <3> QED
      BY <1>2, <3>2, <3>3 DEF Campaign
  <2>2. pc' \in [Nodes -> PCs] /\ \A j \in Nodes : isLeader'[j] <=> pc'[j] = "leading"
    BY <1>2 DEF Campaign, Goto, Inv, TypeOK, PCs
  <2>3. ASSUME NEW j \in Nodes, NEW k \in Nodes, mine'[j] = mine'[k] PROVE j = k \/ mine'[j] = None
    BY <1>2, <2>3, ElectionAssumption DEF Campaign, Inv, TypeOK, Past
  <2> QED
    BY <1>2, <2>1, <2>2, <2>3 DEF Campaign, Inv, TypeOK
<1>3. CASE Elected(i)
  BY <1>3, ElectionAssumption DEF Elected, Goto, Inv, TypeOK, PCs
<1>4. CASE GiveUp(i)
  BY <1>4, ElectionAssumption DEF GiveUp, Goto, Inv, TypeOK, PCs
<1>5. CASE SessionDone(i)
  BY <1>5, ElectionAssumption DEF SessionDone, Cancelled, Inv, TypeOK, PCs
<1>6. CASE EndTerm(i)
  BY <1>6, ElectionAssumption DEF EndTerm, Goto, Inv, TypeOK, PCs
<1>7. CASE Resign(i)
  <2>1. keys' \subseteq Nat /\ losses' \in Nat
    <3>1. keys \subseteq Nat /\ losses \in Nat
      BY DEF Inv, TypeOK
    <3>2. keys' \subseteq keys /\ (losses' = losses \/ losses' = losses + 1)
      BY <1>7 DEF Resign, Loss
    <3> QED
      BY <3>1, <3>2
  <2>2. pc' \in [Nodes -> PCs] /\ \A j \in Nodes : isLeader'[j] <=> pc'[j] = "leading"
    BY <1>7 DEF Resign, Goto, Inv, TypeOK, PCs
  <2>3. mine' \in [Nodes -> Nat \cup {None}] /\ lease' \in [Nodes -> BOOLEAN]
    BY <1>7 DEF Resign, Inv, TypeOK
  <2>4. \A j, k \in Nodes : mine'[j] = mine'[k] => j = k \/ mine'[j] = None
    BY <1>7 DEF Resign, Inv, TypeOK
  <2> QED
    BY <1>7, <2>1, <2>2, <2>3, <2>4 DEF Resign, Inv, TypeOK
<1>8. CASE Close(i)
  <2>1. keys' \subseteq Nat /\ losses' \in Nat
    <3>1. keys \subseteq Nat /\ losses \in Nat
      BY DEF Inv, TypeOK
    <3>2. keys' \subseteq keys /\ (losses' = losses \/ losses' = losses + 1)
      BY <1>8 DEF Close, Loss
    <3> QED
      BY <3>1, <3>2
  <2>2. pc' \in [Nodes -> PCs] /\ \A j \in Nodes : isLeader'[j] <=> pc'[j] = "leading"
    BY <1>8 DEF Close, Goto, Inv, TypeOK, PCs
  <2>3. mine' \in [Nodes -> Nat \cup {None}] /\ lease' \in [Nodes -> BOOLEAN]
    BY <1>8 DEF Close, Inv, TypeOK
  <2>4. \A j, k \in Nodes : mine'[j] = mine'[k] => j = k \/ mine'[j] = None
    BY <1>8 DEF Close, Inv, TypeOK
  <2> QED
    BY <1>8, <2>1, <2>2, <2>3, <2>4 DEF Close, Inv, TypeOK
<1> QED
  BY <1>1, <1>2, <1>3, <1>4, <1>5, <1>6, <1>7, <1>8 DEF Elector

\* The types of what the environment changes.
LEMMA EnvironmentTypes ==
  ASSUME Inv, NEW i \in Nodes,
         LoopsReturn(i) \/ Expire(i) \/ Notice(i) \/ Shutdown(i) \/ Exit(i) \/ Restart(i)
  PROVE  TypeOK'
<1>1. CASE LoopsReturn(i)
  BY <1>1, ElectionAssumption DEF LoopsReturn, Inv, TypeOK, PCs
<1>2. CASE Expire(i)
  <2>1. keys' \subseteq Nat /\ losses' \in Nat
    <3>1. keys \subseteq Nat /\ losses \in Nat
      BY DEF Inv, TypeOK
    <3>2. keys' \subseteq keys /\ (losses' = losses \/ losses' = losses + 1)
      BY <1>2 DEF Expire, Loss
    <3> QED
      BY <3>1, <3>2
  <2> QED
    BY <1>2, <2>1 DEF Expire, Inv, TypeOK
<1>3. CASE Notice(i)
  BY <1>3, ElectionAssumption DEF Notice, Loss, Inv, TypeOK, PCs
<1>4. CASE Shutdown(i)
  BY <1>4, ElectionAssumption DEF Shutdown, Cancelled, Loss, Inv, TypeOK, PCs
<1>5. CASE Exit(i)
  BY <1>5, ElectionAssumption DEF Exit, Loss, Inv, TypeOK, PCs
<1>6. CASE Restart(i)
  BY <1>6, ElectionAssumption DEF Restart, Goto, Inv, TypeOK, PCs
<1> QED
  BY <1>1, <1>2, <1>3, <1>4, <1>5, <1>6

(* A new key is younger than all, so it leaves every leader the oldest.    *)
LEMMA CampaignKeeps == ASSUME Inv, NEW i \in Nodes, Campaign(i) PROVE Past' /\ LeaderOldest'
<1>1. CASE mine' = [mine EXCEPT ![i] = rev] /\ keys' = keys \cup {rev} /\ rev' = rev + 1 /\ Goto(i, "session", "waiting")
  <2>1. Past'
    BY <1>1, ElectionAssumption DEF Inv, TypeOK, Past
  <2>2. ASSUME NEW j \in Nodes, Valid(j)', NEW r \in keys' PROVE r >= mine'[j]
    <3>1. isLeader[j] /\ j # i
      BY <1>1, <2>2 DEF Campaign, Goto, Valid, Inv, TypeOK
    <3>2. mine'[j] = mine[j]
      BY <1>1, <3>1 DEF Inv, TypeOK
    <3>3. mine[j] \in keys \cup {rev} /\ mine[j] \in Nat
      BY <1>1, <2>2, <3>2 DEF Valid, Inv, TypeOK
    <3>4. mine[j] < rev
      BY <3>3, ElectionAssumption DEF Inv, Past
    <3>5. mine[j] \in keys
      BY <3>3, <3>4 DEF Inv, TypeOK
    <3> QED
      BY <1>1, <3>1, <3>2, <3>3, <3>4, <3>5 DEF Inv, LeaderOldest, Valid, TypeOK
  <2> QED
    BY <2>1, <2>2 DEF LeaderOldest
<1>2. CASE UNCHANGED <<mine, keys, rev>>
  <2>1. Shrinks
    BY <1>2 DEF Campaign, Shrinks
  <2> QED
    BY <2>1, ShrinkKeeps
<1> QED
  BY <1>1, <1>2 DEF Campaign

\* The elected node has waited until no older key was left.
LEMMA ElectedKeeps == ASSUME Inv, NEW i \in Nodes, Elected(i) PROVE Past' /\ LeaderOldest'
<1>1. Past'
  BY DEF Elected, Inv, Past
<1>2. ASSUME NEW j \in Nodes, Valid(j)', NEW r \in keys' PROVE r >= mine'[j]
  <2>1. CASE j = i
    BY <1>2, <2>1 DEF Elected, Oldest
  <2>2. CASE j # i
    BY <1>2, <2>2 DEF Elected, Valid, Inv, LeaderOldest, TypeOK
  <2> QED
    BY <2>1, <2>2
<1> QED
  BY <1>1, <1>2 DEF LeaderOldest

LEMMA NextInv == Inv /\ [Next]_electionVars => Inv'
<1> SUFFICES ASSUME Inv, [Next]_electionVars PROVE Inv'
  OBVIOUS
<1>1. ASSUME NEW i \in Nodes, Elector(i) PROVE Inv'
  BY <1>1, ElectorTypes, CampaignKeeps, ElectedKeeps, OthersShrink, ShrinkKeeps DEF Elector, Inv
<1>2. ASSUME NEW i \in Nodes,
             LoopsReturn(i) \/ Expire(i) \/ Notice(i) \/ Shutdown(i) \/ Exit(i) \/ Restart(i)
      PROVE  Inv'
  BY <1>2, EnvironmentTypes, OthersShrink, ShrinkKeeps DEF Inv
<1>3. ASSUME NEW r \in keys, OrphanExpires(r) PROVE Inv'
  <2>1. Shrinks
    BY <1>3 DEF OrphanExpires, Shrinks
  <2>2. TypeOK'
    BY <1>3 DEF OrphanExpires, Inv, TypeOK
  <2> QED
    BY <2>1, <2>2, ShrinkKeeps DEF Inv
<1>4. CASE UNCHANGED electionVars
  BY <1>4 DEF electionVars, Inv, TypeOK, Past, LeaderOldest, Valid
<1> QED
  BY <1>1, <1>2, <1>3, <1>4 DEF Next

(* However many schedulers campaign and whatever fails, no two processes   *)
(* that lead both hold a key: a second leader exists only next to one that *)
(* has lost its session and is about to notice.                            *)
THEOREM ElectionSafe == Spec => [](TypeOK /\ OneValidLeader)
<1>1. Inv => OneValidLeader
  <2> SUFFICES ASSUME Inv, NEW i \in Nodes, NEW j \in Nodes, Valid(i), Valid(j) PROVE i = j
    BY DEF OneValidLeader
  <2>1. mine[i] >= mine[j] /\ mine[j] >= mine[i] /\ mine[i] \in Nat /\ mine[j] \in Nat
    BY DEF Inv, LeaderOldest, Valid, TypeOK
  <2> QED
    BY <2>1, ElectionAssumption DEF Inv, TypeOK
<1>2. Inv => TypeOK
  BY DEF Inv
<1> QED
  BY <1>1, <1>2, InitInv, NextInv, PTL DEF Spec

(* A process calls itself leader exactly from the return of Campaign to    *)
(* the end of its term, and no two keys were created with one revision,    *)
(* for any number of schedulers.                                           *)
THEOREM ElectionTypes == Spec => []TypeOK
  BY ElectionSafe, PTL
=============================================================================
