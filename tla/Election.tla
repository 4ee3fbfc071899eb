------------------------------ MODULE Election ------------------------------
(***************************************************************************)
(* Leader election of the scheduler                                        *)
(* (internal/scheduler/infrastructure/election/election.go, callbacks of   *)
(* cmd/scheduler/main.go) over etcd's concurrency.Election.  A candidate   *)
(* puts a key under its session's lease and leads when no older key is     *)
(* left; etcd deletes a key with its lease.  What etcd knows (the lease    *)
(* expired) and what the client knows (session.Done) are different state.  *)
(*                                                                         *)
(* Scheduler loops are goroutines started by SchedulerAppService.Run with  *)
(* leaderCtx; Run returns without waiting for them, so a loop may still    *)
(* finish its iteration after the leadership ended.                        *)
(***************************************************************************)
EXTENDS Naturals

CONSTANTS
  Nodes,      \* scheduler processes
  MaxRev,     \* bound on campaigns
  MaxLosses,  \* bound on sessions lost, calls that fail, crashes and shutdowns
  None

ASSUME ElectionAssumption ==
  /\ MaxRev \in Nat /\ MaxLosses \in Nat
  /\ None \notin Nat

VARIABLES
  pc,        \* node -> where Run and campaign are
  lease,     \* node -> does etcd still have the lease of its session?
  noticed,   \* node -> is session.Done() closed?
  mine,      \* node -> revision of the key it campaigns with
  keys,      \* revisions of the keys under the election prefix
  rev,       \* the next revision
  isLeader,  \* node -> the elector's flag
  loops,     \* node -> scheduler loops: "live", or "dying" once leaderCtx is done
  stopped,   \* node -> is the root context cancelled?
  losses

electionVars == <<pc, lease, noticed, mine, keys, rev, isLeader, loops, stopped, losses>>

PCs == {"out", "idle", "session", "waiting", "leading", "resigning", "closing"}

Init ==
  /\ pc = [i \in Nodes |-> "idle"]
  /\ lease = [i \in Nodes |-> FALSE]
  /\ noticed = [i \in Nodes |-> FALSE]
  /\ mine = [i \in Nodes |-> None]
  /\ keys = {} /\ rev = 1
  /\ isLeader = [i \in Nodes |-> FALSE]
  /\ loops = [i \in Nodes |-> {}]
  /\ stopped = [i \in Nodes |-> FALSE]
  /\ losses = 0

Goto(i, from, to) == pc[i] = from /\ pc' = [pc EXCEPT ![i] = to]
Loss == losses < MaxLosses /\ losses' = losses + 1
\* Cancelling leaderCtx: the loops started with it are told to stop.
Cancelled(i) == [loops EXCEPT ![i] = IF "live" \in @ THEN {"dying"} ELSE @]

-----------------------------------------------------------------------------
(* campaign.                                                               *)

\* Mutant: after a lost session the elector does not campaign again.
NewSessionOnce(i) ==
  /\ Goto(i, "idle", "session")
  /\ ~stopped[i] /\ ~noticed[i]
  /\ lease' = [lease EXCEPT ![i] = TRUE]
  /\ UNCHANGED <<noticed, mine, keys, rev, isLeader, loops, stopped, losses>>

\* The head of Run's loop and NewSession; an error is retried after 3 s.
NewSession(i) ==
  /\ Goto(i, "idle", "session")
  /\ ~stopped[i]
  /\ lease' = [lease EXCEPT ![i] = TRUE]
  /\ noticed' = [noticed EXCEPT ![i] = FALSE]
  /\ mine' = [mine EXCEPT ![i] = None]
  /\ UNCHANGED <<keys, rev, isLeader, loops, stopped, losses>>

\* Campaign puts the key, which fails without the lease.
Campaign(i) ==
  /\ \/ /\ lease[i] /\ rev < MaxRev
        /\ Goto(i, "session", "waiting")
        /\ mine' = [mine EXCEPT ![i] = rev]
        /\ keys' = keys \cup {rev} /\ rev' = rev + 1
     \/ /\ ~lease[i] \/ stopped[i]
        /\ Goto(i, "session", "closing")
        /\ UNCHANGED <<mine, keys, rev>>
  /\ UNCHANGED <<lease, noticed, isLeader, loops, stopped, losses>>

\* Mutant: older keys are not waited for.
OldestAnyway(i) == TRUE

\* Campaign waits for the deletion of the older keys, not for its own key to be there.
Oldest(i) == \A r \in keys : r >= mine[i]

\* Campaign returns: isLeader is set and onStartedLeading starts the loops.
Elected(i) ==
  /\ Goto(i, "waiting", "leading")
  /\ Oldest(i)
  /\ isLeader' = [isLeader EXCEPT ![i] = TRUE]
  /\ loops' = [loops EXCEPT ![i] = @ \cup {IF stopped[i] THEN "dying" ELSE "live"}]
  /\ UNCHANGED <<lease, noticed, mine, keys, rev, stopped, losses>>

\* Campaign gives up when the root context ends, and deletes its key.
GiveUp(i) ==
  /\ Goto(i, "waiting", "closing")
  /\ stopped[i]
  /\ keys' = keys \ {mine[i]}
  /\ UNCHANGED <<lease, noticed, mine, rev, isLeader, loops, stopped, losses>>

\* Mutant: nobody watches session.Done().
SessionDoneIgnored(i) == FALSE /\ UNCHANGED electionVars

\* The goroutine that watches session.Done() cancels leaderCtx.
SessionDone(i) ==
  /\ pc[i] = "leading" /\ noticed[i]
  /\ "live" \in loops[i]
  /\ loops' = Cancelled(i)
  /\ UNCHANGED <<pc, lease, noticed, mine, keys, rev, isLeader, stopped, losses>>

\* Mutant: the flag is not cleared.
EndTermKeepsFlag(i) ==
  /\ Goto(i, "leading", "resigning")
  /\ "live" \notin loops[i]
  /\ UNCHANGED <<lease, noticed, mine, keys, rev, isLeader, loops, stopped, losses>>

\* leaderCtx is done: Run of the scheduler returns, the flag is cleared.
EndTerm(i) ==
  /\ Goto(i, "leading", "resigning")
  /\ "live" \notin loops[i]
  /\ isLeader' = [isLeader EXCEPT ![i] = FALSE]
  /\ UNCHANGED <<lease, noticed, mine, keys, rev, loops, stopped, losses>>

\* Resign deletes the key; its error is ignored.
Resign(i) ==
  /\ Goto(i, "resigning", "closing")
  /\ \/ keys' = keys \ {mine[i]} /\ UNCHANGED losses
     \/ Loss /\ UNCHANGED keys
  /\ UNCHANGED <<lease, noticed, mine, rev, isLeader, loops, stopped>>

\* The deferred session.Close stops the keepalive and revokes the lease, if it can.
Close(i) ==
  /\ Goto(i, "closing", "idle")
  /\ \/ keys' = keys \ {mine[i]} /\ UNCHANGED losses
     \/ Loss /\ UNCHANGED keys
  /\ lease' = [lease EXCEPT ![i] = FALSE]
  /\ mine' = [mine EXCEPT ![i] = None]
  /\ UNCHANGED <<noticed, rev, isLeader, loops, stopped>>

\* A loop sees that its context is done and returns.
LoopsReturn(i) ==
  /\ "dying" \in loops[i]
  /\ loops' = [loops EXCEPT ![i] = @ \ {"dying"}]
  /\ UNCHANGED <<pc, lease, noticed, mine, keys, rev, isLeader, stopped, losses>>

-----------------------------------------------------------------------------
(* etcd and the environment.                                               *)

\* No keepalive arrives for a TTL: the key goes with the lease.
Expire(i) ==
  /\ lease[i] /\ Loss
  /\ lease' = [lease EXCEPT ![i] = FALSE]
  /\ keys' = keys \ {mine[i]}
  /\ UNCHANGED <<pc, noticed, mine, rev, isLeader, loops, stopped>>

\* The client's keepalive ends: the lease is gone, or (a loss) no answer came for a TTL.
Notice(i) ==
  /\ pc[i] \in {"session", "waiting", "leading"} /\ ~noticed[i]
  /\ (~lease[i] /\ UNCHANGED losses) \/ (lease[i] /\ Loss)
  /\ noticed' = [noticed EXCEPT ![i] = TRUE]
  /\ UNCHANGED <<pc, lease, mine, keys, rev, isLeader, loops, stopped>>

\* The lease of a session that nobody keeps alive any more expires.
OrphanExpires(r) ==
  /\ \A i \in Nodes : mine[i] # r
  /\ keys' = keys \ {r}
  /\ UNCHANGED <<pc, lease, noticed, mine, rev, isLeader, loops, stopped, losses>>

\* SIGTERM cancels the root context and with it leaderCtx.
Shutdown(i) ==
  /\ pc[i] # "out" /\ ~stopped[i] /\ Loss
  /\ stopped' = [stopped EXCEPT ![i] = TRUE]
  /\ loops' = Cancelled(i)
  /\ UNCHANGED <<pc, lease, noticed, mine, keys, rev, isLeader>>

\* The process is gone: main returned without waiting for le.Run, or a crash.
Exit(i) ==
  /\ pc[i] # "out"
  /\ (stopped[i] /\ UNCHANGED losses) \/ (~stopped[i] /\ Loss)
  /\ pc' = [pc EXCEPT ![i] = "out"]
  /\ lease' = [lease EXCEPT ![i] = FALSE]
  /\ mine' = [mine EXCEPT ![i] = None]
  /\ isLeader' = [isLeader EXCEPT ![i] = FALSE]
  /\ loops' = [loops EXCEPT ![i] = {}]
  /\ UNCHANGED <<noticed, keys, rev, stopped>>

\* A new process takes its place.
Restart(i) ==
  /\ Goto(i, "out", "idle")
  /\ stopped' = [stopped EXCEPT ![i] = FALSE]
  /\ UNCHANGED <<lease, noticed, mine, keys, rev, isLeader, loops, losses>>

-----------------------------------------------------------------------------
Elector(i) ==
  \/ NewSession(i) \/ Campaign(i) \/ Elected(i) \/ GiveUp(i) \/ SessionDone(i)
  \/ EndTerm(i) \/ Resign(i) \/ Close(i)

Next ==
  \/ \E i \in Nodes : Elector(i) \/ LoopsReturn(i)
  \/ \E i \in Nodes : Expire(i) \/ Notice(i) \/ Shutdown(i) \/ Exit(i) \/ Restart(i)
  \/ \E r \in keys : OrphanExpires(r)

Spec == Init /\ [][Next]_electionVars

(* Goroutines run, calls to etcd return, a lost session is noticed within  *)
(* a TTL and an abandoned lease expires.  Nothing obliges a process to     *)
(* fail, stop or come back.                                                *)
Fairness ==
  /\ \A i \in Nodes : /\ WF_electionVars(Elector(i)) /\ WF_electionVars(LoopsReturn(i))
                      /\ WF_electionVars(Notice(i) /\ ~lease[i])
  /\ \A r \in 1..MaxRev : WF_electionVars(r \in keys /\ OrphanExpires(r))

FairSpec == Spec /\ Fairness

-----------------------------------------------------------------------------
(* Types; the flag is set from the return of Campaign to the end of the    *)
(* term; revisions are unique.                                             *)
TypeOK ==
  /\ pc \in [Nodes -> PCs]
  /\ lease \in [Nodes -> BOOLEAN]
  /\ noticed \in [Nodes -> BOOLEAN]
  /\ mine \in [Nodes -> Nat \cup {None}]
  /\ keys \subseteq Nat
  /\ rev \in Nat
  /\ isLeader \in [Nodes -> BOOLEAN]
  /\ loops \in [Nodes -> SUBSET {"live", "dying"}]
  /\ stopped \in [Nodes -> BOOLEAN]
  /\ losses \in Nat
  /\ \A i \in Nodes : isLeader[i] <=> pc[i] = "leading"
  /\ \A i, j \in Nodes : mine[i] = mine[j] => i = j \/ mine[i] = None

(* Two leaders never both hold a key: at most one process that leads has   *)
(* not lost its session, however sessions expire, fail to close or outlive *)
(* their process.                                                          *)
Valid(i) == isLeader[i] /\ mine[i] \in keys
OneValidLeader == \A i, j \in Nodes : Valid(i) /\ Valid(j) => i = j

(* A leader whose session is gone stops its loops.                         *)
DeposedStops == \A i \in Nodes : (isLeader[i] /\ mine[i] \notin keys) ~> ~isLeader[i]

(* As long as a process is there to lead, somebody leads.                  *)
Candidate(i) == pc[i] # "out" /\ ~stopped[i]
Takeover ==
  (\E i \in Nodes : Candidate(i)) ~>
    ((\E i \in Nodes : isLeader[i]) \/ (\A i \in Nodes : ~Candidate(i)))
=============================================================================
