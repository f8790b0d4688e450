------------------------ MODULE CpuDraftServerProofs ------------------------
(***************************************************************************)
(* Proofs about the CPU draft server, for any number of requests, threads  *)
(* and chunks: the lock belongs to the one response that has started, and  *)
(* of the generations that run together at most one has a client.          *)
(***************************************************************************)
EXTENDS CpuDraftServer, FiniteSetTheorems, TLAPS

Phase == {"new", "queued", "blocked"} \cup Started \cup Over

TypeOK ==
    /\ phase \in [Req -> Phase]
    /\ left \subseteq Req
    /\ lock \in Req \cup {"free"}
    /\ generate \in [Req -> {"none", "running", "ended"}]
    /\ out \in [Req -> 0..MaxChunks]
    /\ \A r \in Req : read[r] \in 0..out[r]
    /\ read \in [Req -> Nat]

LockHasStarted == \A r \in Req : lock = r <=> phase[r] \in Started

RunsForResponse == \A r \in Generating : phase[r] \in Started \/ r \in left

\* The block is only left in the end when the generation is over.
ClosesAfterEnd == \A r \in Req : phase[r] = "closing" => generate[r] = "ended"

IInv == TypeOK /\ LockHasStarted /\ RunsForResponse /\ ClosesAfterEnd

USE DEF Phase, Started, Over

-----------------------------------------------------------------------------

\* The invariant holds of a server without requests.
THEOREM InitEstablishes == Init => IInv
BY CpuAssumption DEF Init, IInv, TypeOK, LockHasStarted, RunsForResponse, ClosesAfterEnd,
                     Generating

\* A step of one request that neither takes the lock nor gives it back, and
\* does not begin a generation.
LEMMA HolderStays ==
    ASSUME IInv, NEW r \in Req, TypeOK', UNCHANGED lock,
           \A q \in Req \ {r} : phase'[q] = phase[q] /\ generate'[q] = generate[q],
           phase'[r] \in Started <=> phase[r] \in Started,
           phase'[r] = "closing" => generate'[r] = "ended",
           generate'[r] = "running" => generate[r] = "running",
           left \subseteq left'
    PROVE  IInv'
<1>1. LockHasStarted'
  BY DEF IInv, LockHasStarted
<1>2. RunsForResponse'
  BY DEF IInv, RunsForResponse, Generating, TypeOK
<1>3. ClosesAfterEnd'
  BY DEF IInv, ClosesAfterEnd
<1> QED BY <1>1, <1>2, <1>3 DEF IInv

\* A request arrives without the lock.
LEMMA ArriveKeeps == ASSUME IInv, NEW r \in Req, Arrive(r) PROVE IInv'
<1>1. TypeOK'
  BY DEF IInv, TypeOK, Arrive, Goes
<1> QED BY <1>1, HolderStays DEF IInv, TypeOK, ClosesAfterEnd, Arrive, Goes

\* A response that waits for the lock does not have it.
LEMMA FirstStepKeeps == ASSUME IInv, NEW r \in Req, FirstStep(r) PROVE IInv'
<1>1. TypeOK'
  BY DEF IInv, TypeOK, FirstStep, Goes
<1> QED BY <1>1, HolderStays DEF IInv, TypeOK, ClosesAfterEnd, FirstStep, Goes

\* The holder goes on with the lock.
LEMMA NextStepKeeps == ASSUME IInv, NEW r \in Req, NextStep(r) PROVE IInv'
<1>1. TypeOK'
  BY DEF IInv, TypeOK, NextStep, Goes
<1> QED BY <1>1, HolderStays DEF IInv, TypeOK, ClosesAfterEnd, NextStep, Goes

\* A text is yielded under the lock.
LEMMA ReadTextKeeps == ASSUME IInv, NEW r \in Req, ReadText(r) PROVE IInv'
<1>1. TypeOK'
  BY CpuAssumption DEF IInv, TypeOK, ReadText, Goes
<1> QED BY <1>1, HolderStays DEF IInv, TypeOK, ClosesAfterEnd, ReadText, Goes

\* The loop ends after the generation, with the lock.
LEMMA ReadEndKeeps == ASSUME IInv, NEW r \in Req, ReadEnd(r) PROVE IInv'
<1>1. TypeOK'
  BY DEF IInv, TypeOK, ReadEnd, Goes
<1> QED BY <1>1, HolderStays DEF IInv, TypeOK, ClosesAfterEnd, ReadEnd, Goes

\* A client that leaves gives back nothing.
LEMMA DisconnectKeeps == ASSUME IInv, NEW r \in Req, Disconnect(r) PROVE IInv'
<1>1. TypeOK'
  BY DEF IInv, TypeOK, Disconnect, Goes
<1> QED BY <1>1, HolderStays DEF IInv, TypeOK, ClosesAfterEnd, Disconnect, Goes

\* The generating thread never touches the lock.
LEMMA GeneratesKeeps == ASSUME IInv, NEW r \in Req, Generates(r) PROVE IInv'
<1>1. CASE Produces(r)
  <2>1. TypeOK'
    BY <1>1, CpuAssumption DEF IInv, TypeOK, Produces
  <2> QED BY <1>1, <2>1, HolderStays DEF IInv, TypeOK, ClosesAfterEnd, Produces
<1>2. CASE GenerateReturns(r) \/ GenerateFails(r)
  <2>1. TypeOK'
    BY <1>2 DEF IInv, TypeOK, GenerateReturns, GenerateFails
  <2> QED BY <1>2, <2>1, HolderStays
          DEF IInv, TypeOK, ClosesAfterEnd, GenerateReturns, GenerateFails
<1> QED BY <1>1, <1>2 DEF Generates

\* The lock is taken when no response has it.
LEMMA LockTakenKeeps == ASSUME IInv, NEW r \in Req, LockTaken(r) PROVE IInv'
<1> USE DEF IInv
<1>1. TypeOK'
  BY DEF TypeOK, LockTaken, Goes
<1>2. \A q \in Req : phase[q] \notin Started
  BY CpuAssumption DEF LockTaken, LockHasStarted
<1>3. LockHasStarted'
  BY <1>2 DEF LockHasStarted, LockTaken, Goes, TypeOK
<1>4. RunsForResponse'
  BY <1>2 DEF RunsForResponse, Generating, LockTaken, Goes, TypeOK
<1>5. ClosesAfterEnd'
  BY DEF ClosesAfterEnd, LockTaken, Goes, TypeOK
<1> QED BY <1>1, <1>3, <1>4, <1>5

\* And given back by the response that has it, after its generation or by a
\* client that left.
LEMMA LockGivenBackKeeps ==
    ASSUME IInv, NEW r \in Req, LastStep(r) \/ Collected(r) PROVE IInv'
<1> USE DEF IInv
<1>1. TypeOK'
  BY DEF TypeOK, LastStep, Collected, Goes
<1>2. lock = r /\ lock' = "free" /\ phase'[r] \notin Started
  BY DEF LastStep, Collected, Goes, LockHasStarted, TypeOK
<1>3. \A q \in Req \ {r} : phase'[q] = phase[q] /\ phase[q] \notin Started
  BY <1>2 DEF LastStep, Collected, Goes, LockHasStarted, TypeOK
<1>4. LockHasStarted'
  BY <1>2, <1>3, CpuAssumption DEF LockHasStarted
<1>5. generate' = generate /\ left' = left /\ (generate[r] = "ended" \/ r \in left)
  BY DEF LastStep, Collected, Goes, ClosesAfterEnd
<1>6. RunsForResponse'
  BY <1>3, <1>5 DEF RunsForResponse, Generating
<1>7. ClosesAfterEnd'
  BY <1>2, <1>3, <1>5 DEF ClosesAfterEnd
<1> QED BY <1>1, <1>4, <1>6, <1>7

\* Every step of a response, its thread and its client keeps it.
THEOREM StepKeeps == IInv /\ [Next]_vars => IInv'
<1> SUFFICES ASSUME IInv, [Next]_vars PROVE IInv'
  OBVIOUS
<1>1. CASE UNCHANGED vars
  BY <1>1 DEF vars, IInv, TypeOK, LockHasStarted, RunsForResponse, ClosesAfterEnd, Generating
<1>2. ASSUME NEW r \in Req, Arrive(r) \/ LockTaken(r) \/ Disconnect(r) \/ Generates(r)
      PROVE  IInv'
  BY <1>2, ArriveKeeps, LockTakenKeeps, DisconnectKeeps, GeneratesKeeps
<1>3. ASSUME NEW r \in Req, Step(r) \/ Taken(r)
      PROVE  IInv'
  BY <1>3, FirstStepKeeps, ReadTextKeeps, ReadEndKeeps, NextStepKeeps, LockGivenBackKeeps
     DEF Step, Taken
<1> QED BY <1>1, <1>2, <1>3 DEF Next

\* The invariant holds throughout.
THEOREM Inductive == Spec => []IInv
BY InitEstablishes, StepKeeps, PTL DEF Spec

\* The generations that have a client are those of the response that has the
\* lock, so there is at most one (cpu_server/app.py, _gen_lock).
THEOREM OneServedGenerationHolds == Spec => []OneServedGeneration
<1>1. IInv => OneServedGeneration
  <2> SUFFICES ASSUME IInv PROVE OneServedGeneration
    OBVIOUS
  <2>1. \A r \in Generating \ left : r = lock
    BY DEF IInv, LockHasStarted, RunsForResponse, Generating
  <2>2. Generating \ left \subseteq {lock}
    BY <2>1
  <2>3. Cardinality(Generating \ left) <= 1
    <3>1. IsFiniteSet({lock}) /\ Cardinality({lock}) = 1
      BY FS_Singleton
    <3> QED BY <2>2, <3>1, FS_Subset
  <2> QED BY <2>3 DEF IInv, LockHasStarted, RunsForResponse, OneServedGeneration
<1> QED BY <1>1, Inductive, PTL

=============================================================================
