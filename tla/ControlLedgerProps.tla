---- MODULE ControlLedgerProps ----
(***************************************************************************)
(* What the contents of the protected control store must satisfy.          *)
(***************************************************************************)
EXTENDS ControlLedger

Txns ==
  {"generation-pair.activation", "generation-pair.revocation", "registry.bundle_seal",
   "registry.revocation", "permit.issuance", "permit.transition", "operation.begin",
   "operation.no-effect", "operation.recovery-required", "recovery.lock", "recovery.terminal-lock",
   "recovery.operation-no-effect", "recovery.publish"}

StepNames == {"claim", "withdraw", "effect", "noEffect", "ambiguous"}

RecoveryActions ==
  {"finalized_durable_unanchored_commit", "completed_durable_head_commit_cleanup",
   "discarded_uncommitted_pending", "discarded_abandoned_append_lock",
   "discarded_incomplete_lock", "removed_terminal_operation_lock"}

Event ==
  [kind : {"activated"}, gen : Nat, expires : Nat]
  \cup [kind : {"pairRevoked"}, gen : Nat]
  \cup [kind : {"sealed"}, seal : Seals, gen : Nat, nonce : Nonces, op : Ops, expires : Nat]
  \cup [kind : {"sealRevoked"}, seal : Seals]
  \cup [kind : {"issued"}, permit : Permits, gen : Nat, nonce : Nonces, seal : Seals,
        issued : Nat, notBefore : Nat, expires : Nat]
  \cup [kind : {"transition"}, permit : Permits, step : StepNames, op : Ops \cup {None}]
  \cup [kind : {"started"}, op : Ops, nonce : Nonces, gen : Nat, permit : Permits \cup {None}]
  \cup [kind : {"noEffect", "ambiguous"}, op : Ops]
  \cup [kind : {"recovered"}, action : RecoveryActions, affected : Nat, op : Ops \cup {None}]

Commits == [txn : Txns, at : Nat, gen : Nat, events : Seq(Event)]
Leases == [op : Ops \cup {None}, nonce : Nonces \cup {None}, at : Nat, alive : BOOLEAN, whole : BOOLEAN]
Mutexes == [whole : BOOLEAN, seq : Nat, at : Nat, txn : Txns]

All == Facts(log)

\* Whatever was linked, by whatever sequence of appends, deaths and recoveries,
\* is accepted when the store is read again (_refresh, replayCommits): an append
\* and a recovery judge a commit by other code than a replay does.
Reopens == Replays(log)

NonceOnce ==
  /\ \A o, q \in Operations(All) : o.nonce = q.nonce \/ o.op = q.op => o = q
  /\ \A r, q \in Issuances(All) : r.nonce = q.nonce \/ r.permit = q.permit => r = q
  /\ \A o \in Operations(All), r \in Issuances(All) : o.nonce = r.nonce => o.permit = r.permit

EndedAs(o, kind) == \E f \in Said(All, kind) : f.says.op = o.op

PermitFollowsOperation ==
  \A r \in Issuances(All) :
    LET claims == { o \in Operations(All) : o.permit = r.permit }
        state == PermitState(All, r.permit) IN
    /\ state \in {"ready", "revoked"} <=> claims = {}
    /\ state = "in_progress" <=> \E o \in claims : o \in InProgress(All)
    /\ state = "recovery_required" <=> \E o \in claims : EndedAs(o, "ambiguous")
    /\ \A o \in claims : ~EndedAs(o, "noEffect")

\* Permits and operations share one space of nonces (state-store.mjs:786,787,
\* 819,832): a nonce serves one permit, one operation, and that operation only
\* through that permit.  And the state of a permit and that of the operation
\* that claimed it never part, in any prefix a crash may leave.
PermitsServeOnce == NonceOnce /\ PermitFollowsOperation

Superseded(n, g) ==
  \E j \in DOMAIN log[n].events :
    LET e == log[n].events[j] IN
    (e.kind = "pairRevoked" /\ e.gen = g) \/ (e.kind = "activated" /\ e.gen > g)

CleanupTxns == HistoricalTxns \cup {"recovery.publish"}

\* Once a generation is revoked or replaced, all that is ever written in its name
\* is the cleanup of what was begun under it.
RevokedIsSilent ==
  \A m, n \in DOMAIN log :
    (m < n /\ Superseded(m, log[n].gen)) =>
      /\ log[n].txn \in CleanupTxns
      /\ \A j \in DOMAIN log[n].events : log[n].events[j].kind \in {"noEffect", "recovered"}

OrphanRecoverable ==
  \A o \in InProgress(Now) :
    (Orphan(o) /\ o.permit = None /\ OtherReasons = {}) =>
      /\ WasValid(Now, o.started, o.gen)
      /\ Appendable(log, "recovery.operation-no-effect", <<NoEffect(o.op)>>, clock + 1, o.gen)

OrdinaryPublishRecoverable ==
  (/\ mutex # None /\ mutex.whole => mutex.txn \notin HistoricalTxns
   /\ Len(log) > head => log[head + 1].txn \notin HistoricalTxns
   /\ Interrupted /\ log # <<>> /\ Correlated)
    => \E g \in 1..LastGen(All) : PublishAuthority(g)

\* An unpermitted operation whose owner died can always be ended without effect,
\* and an interrupted publish of an ordinary commit can be recovered by the
\* authority of its own time, even if the generation has since expired or been
\* revoked or replaced.
CleanupPossible == OrphanRecoverable /\ OrdinaryPublishRecoverable
====
