-------------------------- MODULE CanonicalLedger --------------------------
\* What every canonical kernel of proof_kernel shares: an authoritative record, a causal
\* ledger, and a driver (run_scenario, run_case, run_branch, run_fixture) that resolves its
\* steps in a fixed order. A record stands for its own hash: two records are the same exactly
\* when their hashes are.
EXTENDS Integers, Sequences, FiniteSets

VARIABLES
  plan,    \* the driver's remaining steps
  record,  \* the authoritative record
  ledger   \* the causal ledger, oldest entry first

canonVars == <<plan, record, ledger>>

NoSource == [schema |-> "none"]     \* an autonomous action is bound to no source record
Unknown == [schema |-> "unknown"] \* a source hash of no record of this run

Due(step) == plan # <<>> /\ Head(plan) = step

\* deterministic_scheduler_advance: only the clock changes.
AdvanceClock(rec, t) == [rec EXCEPT !.clock = t]

\* One canonical transaction: the gates are revalidated on the working record and either the
\* effect or the failure effect is committed, in one step, with its ledger entry. batch is
\* the record the proposal had to be made from, pre the record it is revalidated against.
Resolve(step, id, source, batch, pre, gates, effect, otherwise) ==
  /\ Due(step)
  /\ \E accepted \in {gates} :
       /\ record' = IF accepted THEN effect ELSE otherwise
       /\ ledger' = Append(ledger, [step |-> step, id |-> id, source |-> source,
                                    batch |-> batch, pre |-> pre, post |-> record',
                                    accepted |-> accepted])
  /\ plan' = Tail(plan)

\* An action of the city itself: due at its boundary, revalidated, never proposed from a record.
Autonomous(step, pre, gates, effect, otherwise) ==
  Resolve(step, step, NoSource, pre, pre, gates, effect, otherwise)

\* Every record whose hash has been published in this run.
Published == {record} \cup {e.pre : e \in {ledger[i] : i \in DOMAIN ledger}}
                      \cup {e.post : e \in {ledger[i] : i \in DOMAIN ledger}}

\* What a proposer may hand over: one of the ids, made from a record of this run or of none,
\* with or without exactly the fields its contract authorizes.
Proposals(ids, pre) ==
  [id : ids, source : {pre, Unknown} \cup Published, exact : BOOLEAN]
=============================================================================
