----------------------------- MODULE AuditChain -----------------------------
(***************************************************************************)
(* The audit chains, one per workflow run: appends are chained behind one  *)
(* another by promises (InMemoryAuditChainService), checkpoints of a chain *)
(* are signed and kept in storage that is written once                     *)
(* (AuditCheckpointWriter), and a verifier compares the two                *)
(* (CheckpointVerifier), each awaiting its reads.  Rows can be altered or  *)
(* lost underneath.                                                        *)
(*                                                                         *)
(* A hash stands for what was hashed: the sequence of bodies from the      *)
(* first record on.  Records of one chain are listed by creation time; the *)
(* clock is taken not to step back, so that is the order they came in.     *)
(***************************************************************************)
EXTENDS Naturals, Sequences

CONSTANTS
    Chains,             \* workflow runs
    CheckpointWriters,  \* writes of a checkpoint at the same time
    AuditBounds,        \* bounds, one per behaviour: [appends : [Chains -> Nat], checkpoints : Nat]
    MaxVerifications,   \* bound: verifications begun
    MaxFaults           \* bound: rows altered or lost

ASSUME AuditAssumption ==
    /\ \A b \in AuditBounds : b \in [appends : [Chains -> Nat], checkpoints : Nat]
    /\ MaxVerifications \in Nat /\ MaxFaults \in Nat

VARIABLES
    pending,        \* per chain: the appends behind its queue, oldest first
    rejected,       \* per chain: the queue is a rejected promise, not cleaned up yet
    records,        \* per chain: rows of audit_records
    tails,          \* per chain: the hash of the last record
    accepted,       \* history, per chain: the bodies append() returned a record for
    checkpoints,    \* the immutable storage: checkpoints by sequence number
    checkpointing,  \* per writer: the checkpoint it makes
    verifying,      \* the verification at work
    verdict,        \* the last verdict, with what it is about
    left,           \* what the behaviour's bound leaves of appends and checkpoints
    verifications, faults

auditVars == <<pending, rejected, records, tails, accepted, checkpoints, checkpointing, verifying,
               verdict, left, verifications, faults>>

chainVars == <<pending, rejected, records, tails, accepted, faults>>
verifierVars == <<verifying, verdict, verifications>>
writerVars == <<checkpoints, checkpointing>>

(* What a record says, its kind and payload, is a number of its own.        *)
Altered == 0
Bodies ==
    {Altered} \union UNION {UNION {0 .. b.appends[c] : c \in Chains} : b \in AuditBounds}

Idle == [pc |-> "idle"]

AuditInit ==
    /\ pending = [c \in Chains |-> <<>>] /\ rejected = [c \in Chains |-> FALSE]
    /\ records = [c \in Chains |-> <<>>]
    /\ tails = [c \in Chains |-> <<>>] /\ accepted = [c \in Chains |-> <<>>]
    /\ checkpoints = <<>> /\ checkpointing = [w \in CheckpointWriters |-> Idle]
    /\ verifying = Idle /\ verdict = [ok |-> TRUE, reason |-> "none"]
    /\ left \in AuditBounds /\ verifications = 0 /\ faults = 0

-----------------------------------------------------------------------------

(* computeRecordHash. *)
RecordHash(previous, body) == Append(previous, body)

(* append() looks at the tail and queues; hashable is FALSE for a payload   *)
(* canonicalize throws on.  Behind a rejected promise it is rejected too,   *)
(* without a turn.                                                          *)
AskToAppend(c) ==
    /\ left.appends[c] > 0
    /\ left' = [left EXCEPT !.appends[c] = @ - 1]
    /\ IF rejected[c] THEN UNCHANGED pending
       ELSE \E hashable \in BOOLEAN :
              pending' = [pending EXCEPT ![c] =
                 Append(@, [body |-> left.appends[c], hashable |-> hashable, tail |-> tails[c]])]
    /\ UNCHANGED <<rejected, records, tails, accepted, faults, verifierVars, writerVars>>

(* setQueue: once the newest promise has settled the queue is dropped, some *)
(* continuations after it rejected.                                         *)
CleanUp(c) ==
    /\ rejected[c]
    /\ rejected' = [rejected EXCEPT ![c] = FALSE]
    /\ UNCHANGED <<pending, records, tails, accepted, faults, left, verifierVars, writerVars>>

PreviousHash_Mutant(c, append) == append.tail

(* The tail is read again when the append's turn comes.                     *)
PreviousHash(c, append) == tails[c]

(* The turn of an append runs without an await.  When it throws, what is    *)
(* queued behind it is rejected without a turn.                             *)
TakeTurn(c) ==
    /\ pending[c] # <<>>
    /\ LET append == Head(pending[c])
           previous == PreviousHash(c, append)
           record == [previous |-> previous, body |-> append.body,
                      hash |-> RecordHash(previous, append.body)]
       IN IF append.hashable
          THEN /\ records' = [records EXCEPT ![c] = Append(@, record)]
               /\ tails' = [tails EXCEPT ![c] = record.hash]
               /\ accepted' = [accepted EXCEPT ![c] = Append(@, append.body)]
               /\ pending' = [pending EXCEPT ![c] = Tail(@)]
               /\ UNCHANGED rejected
          ELSE /\ pending' = [pending EXCEPT ![c] = <<>>]
               /\ rejected' = [rejected EXCEPT ![c] = TRUE]
               /\ UNCHANGED <<records, tails, accepted>>
    /\ UNCHANGED <<left, faults, verifierVars, writerVars>>

(* A row is altered in place, or the last one is lost. *)
RowFails(c) ==
    /\ faults < MaxFaults
    /\ faults' = faults + 1
    /\ records[c] # <<>>
    /\ \/ \E i \in DOMAIN records[c] : records' = [records EXCEPT ![c][i].body = Altered]
       \/ records' = [records EXCEPT ![c] = SubSeq(@, 1, Len(@) - 1)]
    /\ UNCHANGED <<pending, rejected, tails, accepted, left, verifierVars, writerVars>>

-----------------------------------------------------------------------------

LastHash(listed) == IF listed = <<>> THEN <<>> ELSE listed[Len(listed)].hash

(* AuditCheckpointWriter.write: list, read the latest number, write.        *)
ListForCheckpoint(w, c) ==
    /\ checkpointing[w] = Idle
    /\ left.checkpoints > 0
    /\ left' = [left EXCEPT !.checkpoints = @ - 1]
    /\ checkpointing' = [checkpointing EXCEPT ![w] =
         [pc |-> "latest",
          payload |-> [chain |-> c, head |-> LastHash(records[c]), count |-> Len(records[c])]]]
    /\ UNCHANGED <<checkpoints, chainVars, verifierVars>>

ReadLatestNumber(w) ==
    /\ checkpointing[w].pc = "latest"
    /\ checkpointing' = [checkpointing EXCEPT ![w] =
         [pc |-> "write", payload |-> @.payload, seq |-> Len(checkpoints) + 1]]
    /\ UNCHANGED <<checkpoints, left, chainVars, verifierVars>>

(* Storage throws when the number is taken; the checkpoint is lost.         *)
WriteCheckpoint(w) ==
    /\ checkpointing[w].pc = "write"
    /\ checkpoints' = IF checkpointing[w].seq \in DOMAIN checkpoints THEN checkpoints
                      ELSE Append(checkpoints, checkpointing[w].payload)
    /\ checkpointing' = [checkpointing EXCEPT ![w] = Idle]
    /\ UNCHANGED <<left, chainVars, verifierVars>>

-----------------------------------------------------------------------------

(* verifyRun, and the first part of the verifier: every record links to the *)
(* one before and its hash is that of its fields.                           *)
Intact(listed) ==
    \A i \in DOMAIN listed :
        /\ listed[i].previous = LastHash(SubSeq(listed, 1, i - 1))
        /\ listed[i].hash = RecordHash(listed[i].previous, listed[i].body)

Verdict(ok, reason, listed, c) == [ok |-> ok, reason |-> reason, listed |-> listed, chain |-> c]

ListForVerifier(c) ==
    /\ verifying = Idle
    /\ verifications < MaxVerifications
    /\ verifications' = verifications + 1
    /\ LET listed == records[c]
       IN IF listed # <<>> /\ Intact(listed)
          THEN /\ verifying' = [pc |-> "latest", listed |-> listed, chain |-> c]
               /\ UNCHANGED verdict
          ELSE /\ verdict' = IF listed = <<>> THEN Verdict(TRUE, "no-records", listed, c)
                             ELSE Verdict(FALSE, "broken", listed, c)
               /\ UNCHANGED verifying
    /\ UNCHANGED <<left, chainVars, writerVars>>

ReadLatestForVerifier ==
    /\ verifying.pc = "latest"
    /\ IF checkpoints = <<>>
       THEN /\ verdict' = Verdict(TRUE, "no-checkpoint", verifying.listed, verifying.chain)
            /\ verifying' = Idle
       ELSE /\ verifying' = [pc |-> "compare", listed |-> verifying.listed,
                             chain |-> verifying.chain, seq |-> Len(checkpoints)]
            /\ UNCHANGED verdict
    /\ UNCHANGED <<left, verifications, chainVars, writerVars>>

CompareHeads(cp, listed) == cp.head = LastHash(listed) /\ cp.count = Len(listed)

(* The latest checkpoint is compared, whichever run it is of: the hash has  *)
(* the run in it, so another run's never matches.                           *)
CompareWithCheckpoint ==
    /\ verifying.pc = "compare"
    /\ LET cp == checkpoints[verifying.seq]
       IN verdict' = IF cp.chain = verifying.chain /\ CompareHeads(cp, verifying.listed)
                     THEN Verdict(TRUE, "as_checkpointed", verifying.listed, verifying.chain)
                     ELSE Verdict(FALSE, "mismatch", verifying.listed, verifying.chain)
    /\ verifying' = Idle
    /\ UNCHANGED <<left, verifications, chainVars, writerVars>>

AuditNext ==
    \/ \E c \in Chains : AskToAppend(c) \/ TakeTurn(c) \/ CleanUp(c) \/ RowFails(c) \/ ListForVerifier(c)
    \/ \E w \in CheckpointWriters :
         \/ \E c \in Chains : ListForCheckpoint(w, c)
         \/ ReadLatestNumber(w)
         \/ WriteCheckpoint(w)
    \/ ReadLatestForVerifier \/ CompareWithCheckpoint

AuditSpec == AuditInit /\ [][AuditNext]_auditVars

-----------------------------------------------------------------------------

AuditTypeOK ==
    /\ \A c \in Chains :
         /\ rejected[c] \in BOOLEAN
         /\ \A i \in DOMAIN records[c] : records[c][i].body \in Bodies
         /\ \A i \in DOMAIN accepted[c] : accepted[c][i] \in Bodies
         /\ left.appends[c] \in Bodies
    /\ \A n \in DOMAIN checkpoints : checkpoints[n].chain \in Chains
    /\ faults \in 0 .. MaxFaults
    /\ verifications \in 0 .. MaxVerifications

BodiesOf(listed) == [i \in DOMAIN listed |-> listed[i].body]

(* While no row fails. *)
ChainTellsWhatWasAccepted ==
    \A c \in Chains : BodiesOf(records[c]) = accepted[c] /\ Intact(records[c])

VerdictIsTrue ==
    LET n == Len(verdict.listed)
    IN /\ n <= Len(accepted[verdict.chain])
       /\ BodiesOf(verdict.listed) = SubSeq(accepted[verdict.chain], 1, n)
       /\ verdict.reason = "as_checkpointed" =>
            \E i \in DOMAIN checkpoints :
               checkpoints[i].chain = verdict.chain /\ checkpoints[i].count = n

(* chain-service.ts, checkpoint-verifier.ts: however appends overlap and    *)
(* whichever of them throw, while no row fails the records are those        *)
(* append() returned, in the order it returned them, and they verify.  And  *)
(* when rows do fail, a verdict that agrees with a checkpoint is about      *)
(* records of which none was altered and none lost since that checkpoint,   *)
(* although checkpoints of other runs are written and appends land between  *)
(* the verifier's reads; without a checkpoint, it may be about records that *)
(* lost their end.  "no-records" vouches for nothing: the verifier answers  *)
(* it before it looks for a checkpoint, also of a run whose only records    *)
(* were counted by one and are lost.                                        *)
ChainAndVerdictsAreTrue ==
    /\ faults = 0 => ChainTellsWhatWasAccepted
    /\ (verdict.ok /\ verdict.reason \in {"no-checkpoint", "as_checkpointed"}) => VerdictIsTrue

=============================================================================
