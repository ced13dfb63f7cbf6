----------------------- MODULE OutboundOverPortProofs -----------------------
(***************************************************************************)
(* Proofs about OutboundOverPort, for any number of workers, commands,     *)
(* requests and generations.  The safety properties are not inductive:     *)
(* what keeps a second generation from leaving is that the owner of a row  *)
(* holds a call about the row's own generation, and that the answer in its *)
(* hands is still true when it commits.  IInv says so.                     *)
(***************************************************************************)
EXTENDS OutboundOverPort, TLAPS

\* The port has only seen generations up to the one of the row.
SubmittedInOrder ==
    \A s \in Subjects : \A g \in submitted[s] : g <= work[s].generation

\* A worker that still owns the row of its call called about the row's generation.
OwnerHoldsGeneration ==
    \A w \in Workers :
        call[w] # Idle /\ Owns(w, call[w].subject) =>
            call[w].generation = work[call[w].subject].generation

\* An answer that a worker has not committed yet is still true.
AnswerIsTrue(w) ==
    LET f == fate[call[w].subject][call[w].generation]
        o == call[w].outcome
    IN
    /\ o \in WrittenAnswers => f = "written"
    /\ o \in NotWrittenAnswers => f = "not_written"
    /\ o = "Superseded" /\ call[w].subject \in Commands =>
           status[call[w].subject] # "Created"

AnswersAreTrue == \A w \in Workers : call[w].pc = "done" => AnswerIsTrue(w)

\* The last generation of an expired command is known never to leave.
ExpiredIsFinal ==
    \A c \in Commands :
        status[c] = "Expired" =>
            /\ work[c].status = "Delivered"
            /\ work[c].generation \in Generations =>
                   fate[c][work[c].generation] = "not_written"

IInv ==
    /\ TypeOK
    /\ GenerationsAreSettledInOrder
    /\ SubmittedInOrder
    /\ OwnerHoldsGeneration
    /\ AnswersAreTrue
    /\ ExpiredIsFinal
    /\ DispatchedMeansWritten
    /\ NoCommandAbandoned
    /\ UnconfirmedIsReconciled

-----------------------------------------------------------------------------
(* Facts about single steps.                                               *)

\* A call that is not idle is about a subject and a generation within bounds.
LEMMA CallFacts ==
    ASSUME TypeOK, NEW w \in Workers, call[w] # Idle
    PROVE  /\ call[w].pc \in {"busy", "done"}
           /\ call[w].subject \in Subjects
           /\ call[w].generation \in Generations
           /\ call[w].outcome \in CallOutcomes
<1>1. call[w] \in Calls
  BY DEF TypeOK
<1> QED
  BY <1>1 DEF Calls

\* An idle call is neither busy nor done.
LEMMA IdleFacts == Idle.pc = "idle" /\ Idle.outcome = "none"
BY DEF Idle

\* The fate of a message that is settled never changes, and only a message that
\* was submitted has one.
LEMMA FateIsStable ==
    ASSUME TypeOK, FateStep, NEW s \in Subjects, NEW g \in Generations
    PROVE  /\ fate[s][g] \in {"written", "not_written"} => fate'[s][g] = fate[s][g]
           /\ g \notin submitted[s] => fate'[s][g] = fate[s][g]
<1>1. PICK f \in [Afloat -> Fates] :
          fate' = [t \in Subjects |-> [h \in Generations |->
                      IF <<t, h>> \in Afloat THEN f[<<t, h>>] ELSE fate[t][h]]]
  BY DEF FateStep
<1>2. fate'[s][g] = IF <<s, g>> \in Afloat THEN f[<<s, g>>] ELSE fate[s][g]
  BY <1>1
<1>3. <<s, g>> \in Afloat => g \in submitted[s] /\ fate[s][g] \in {"open", "started"}
  BY DEF Afloat
<1> QED
  BY <1>2, <1>3

\* A fate is always followed by a fate.
LEMMA FateKeepsType ==
    ASSUME TypeOK, FateStep
    PROVE  fate' \in [Subjects -> [Generations -> Fates]]
<1>1. PICK f \in [Afloat -> Fates] :
          fate' = [t \in Subjects |-> [h \in Generations |->
                      IF <<t, h>> \in Afloat THEN f[<<t, h>>] ELSE fate[t][h]]]
  BY DEF FateStep
<1> QED
  BY <1>1 DEF TypeOK

\* The initial states satisfy the invariant.
LEMMA InitIInv == Init => IInv
<1> SUFFICES ASSUME Init PROVE IInv
  OBVIOUS
<1> USE CallAssumption, SubjectAssumption DEF Init, WorkInit, PortInit, CallInit
<1>1. TypeOK
  BY DEF TypeOK, Statuses, Rows, NoRow, Outcomes, Calls, Generations, Fates
<1>2. GenerationsAreSettledInOrder /\ SubmittedInOrder
  BY DEF GenerationsAreSettledInOrder, SubmittedInOrder, NoRow, Generations
<1>3. OwnerHoldsGeneration /\ AnswersAreTrue
  BY IdleFacts DEF OwnerHoldsGeneration, AnswersAreTrue
<1>4. ExpiredIsFinal /\ DispatchedMeansWritten /\ NoCommandAbandoned /\ UnconfirmedIsReconciled
  BY DEF ExpiredIsFinal, DispatchedMeansWritten, NoCommandAbandoned, UnconfirmedIsReconciled, NoRow
<1> QED
  BY <1>1, <1>2, <1>3, <1>4 DEF IInv

\* A worker claims a row: claim_next_outbound_delivery.
LEMMA ClaimStep ==
    ASSUME IInv, NEW w \in Workers, NEW s \in Subjects, Claim(w, s), UNCHANGED fate
    PROVE  IInv'
<1> DEFINE g == work[s].generation
<1>a. g \in Generations
  <2>1. g \in 1 .. MaxGeneration + 1 /\ Bound[s] \in 0 .. MaxGeneration /\ g <= Bound[s]
    BY SubjectAssumption DEF Claim, IInv, TypeOK, Rows
  <2> QED
    BY <2>1, CallAssumption DEF Generations
<1>0. /\ g \in Generations
      /\ call[w] = Idle
      /\ work[s].status # "Delivered"
      /\ UNCHANGED <<status, fate>>
      /\ work' = [work EXCEPT ![s] = [work[s] EXCEPT !.status = "Processing",
                                                     !.owner = {w}, !.leased = TRUE]]
  BY <1>a DEF Claim, Claimable
<1>1. /\ call' = [call EXCEPT ![w] = call'[w]]
      /\ call'[w] \in {Busy(s, g), Done(s, g, "Superseded")}
      /\ call'[w] = Done(s, g, "Superseded") => ~Needed(s)
      /\ submitted' \in {submitted, [submitted EXCEPT ![s] = @ \cup {g}]}
  BY DEF Claim, Submit, IInv, TypeOK, Busy, Done
<1>2. /\ \A t \in Subjects : work'[t].generation = work[t].generation
      /\ \A t \in Subjects \ {s} : work'[t] = work[t]
      /\ work'[s].status = "Processing"
      /\ work'[s].owner = {w}
  BY <1>0 DEF IInv, TypeOK, Rows
<1>3. TypeOK'
  <2>1. work' \in [Subjects -> Rows]
    <3> DEFINE row == [work[s] EXCEPT !.status = "Processing", !.owner = {w}, !.leased = TRUE]
    <3>1. work[s] \in Rows
      BY DEF IInv, TypeOK
    <3>2. row \in Rows
      BY <3>1 DEF Rows
    <3>3. work' = [work EXCEPT ![s] = row]
      BY <1>0
    <3> HIDE DEF row
    <3> QED
      BY <3>2, <3>3 DEF IInv, TypeOK
  <2>2. call' \in [Workers -> Calls]
    BY <1>0, <1>1 DEF IInv, TypeOK, Calls, Busy, Done, CallOutcomes
  <2>3. submitted' \in [Subjects -> SUBSET Generations]
    BY <1>0, <1>1 DEF IInv, TypeOK
  <2> QED
    BY <1>0, <2>1, <2>2, <2>3 DEF IInv, TypeOK
<1>4. GenerationsAreSettledInOrder'
  BY <1>0, <1>2 DEF IInv, GenerationsAreSettledInOrder
<1>5. SubmittedInOrder'
  BY <1>0, <1>1, <1>2 DEF IInv, SubmittedInOrder, TypeOK, Generations
<1>6. OwnerHoldsGeneration'
  <2> SUFFICES ASSUME NEW v \in Workers, call'[v] # Idle, Owns(v, call[v].subject)'
               PROVE  call'[v].generation = work'[call'[v].subject].generation
    BY DEF OwnerHoldsGeneration
  <2>1. CASE v = w
    BY <1>0, <1>1, <1>2, <2>1 DEF Busy, Done
  <2>2. CASE v # w
    <3>1. call'[v] = call[v]
      BY <1>1, <2>2 DEF IInv, TypeOK
    <3>2. call[v].subject \in Subjects \ {s}
      BY <1>2, <2>2, <3>1, CallFacts DEF IInv, Owns
    <3> QED
      BY <1>2, <3>1, <3>2 DEF IInv, OwnerHoldsGeneration, Owns
  <2> QED
    BY <2>1, <2>2
<1>7. AnswersAreTrue'
  <2> SUFFICES ASSUME NEW v \in Workers, call'[v].pc = "done"
               PROVE  AnswerIsTrue(v)'
    BY DEF AnswersAreTrue
  <2>1. CASE v = w
    <3>1. call'[w] = Done(s, g, "Superseded")
      BY <1>1, <2>1 DEF Busy
    <3> QED
      BY <1>0, <1>1, <2>1, <3>1
      DEF AnswerIsTrue, Done, WrittenAnswers, NotWrittenAnswers, Needed
  <2>2. CASE v # w
    BY <1>0, <1>1, <2>2 DEF IInv, TypeOK, AnswersAreTrue, AnswerIsTrue
  <2> QED
    BY <2>1, <2>2
<1>8. ExpiredIsFinal' /\ DispatchedMeansWritten' /\ NoCommandAbandoned' /\ UnconfirmedIsReconciled'
  BY <1>0, <1>2, CallAssumption
  DEF IInv, ExpiredIsFinal, DispatchedMeansWritten, NoCommandAbandoned, UnconfirmedIsReconciled
<1> QED
  BY <1>3, <1>4, <1>5, <1>6, <1>7, <1>8 DEF IInv

\* A worker gives up its answer: RollBack and StoreFails.
LEMMA GiveUpStep ==
    ASSUME IInv, NEW w \in Workers, Return(w), UNCHANGED <<status, work, fate>>
    PROVE  IInv'
<1>1. /\ call' = [call EXCEPT ![w] = Idle]
      /\ UNCHANGED <<status, work, fate, submitted>>
  BY DEF Return
<1>2. TypeOK'
  BY <1>1 DEF IInv, TypeOK, Calls
<1>3. OwnerHoldsGeneration' /\ AnswersAreTrue'
  BY <1>1, IdleFacts
  DEF IInv, TypeOK, OwnerHoldsGeneration, AnswersAreTrue, AnswerIsTrue, Owns
<1>4. /\ GenerationsAreSettledInOrder' /\ SubmittedInOrder' /\ ExpiredIsFinal'
      /\ DispatchedMeansWritten' /\ NoCommandAbandoned' /\ UnconfirmedIsReconciled'
  BY <1>1 DEF IInv, GenerationsAreSettledInOrder, SubmittedInOrder, ExpiredIsFinal,
              DispatchedMeansWritten, NoCommandAbandoned, UnconfirmedIsReconciled
<1> QED
  BY <1>2, <1>3, <1>4 DEF IInv

\* The lease of a row runs out.
LEMMA LeaseStep ==
    ASSUME IInv, NEW s \in Subjects, LeaseExpires(s), UNCHANGED fate
    PROVE  IInv'
<1>1. /\ work' = [work EXCEPT ![s] = [work[s] EXCEPT !.leased = FALSE]]
      /\ UNCHANGED <<status, call, submitted, fate>>
  BY DEF LeaseExpires
<1>2. \A t \in Subjects : /\ work'[t].generation = work[t].generation
                          /\ work'[t].status = work[t].status
                          /\ work'[t].owner = work[t].owner
                          /\ work'[t].outcome = work[t].outcome
  BY <1>1 DEF IInv, TypeOK, Rows
<1>3. TypeOK'
  <2>1. work[s] \in Rows /\ work \in [Subjects -> Rows]
    BY DEF IInv, TypeOK
  <2>2. [work[s] EXCEPT !.leased = FALSE] \in Rows
    BY <2>1 DEF Rows
  <2>3. work' \in [Subjects -> Rows]
    BY <1>1, <2>1, <2>2
  <2> QED
    BY <1>1, <2>3 DEF IInv, TypeOK
<1>4. GenerationsAreSettledInOrder' /\ SubmittedInOrder'
  BY <1>1, <1>2 DEF IInv, GenerationsAreSettledInOrder, SubmittedInOrder
<1>5. OwnerHoldsGeneration'
  BY <1>1, <1>2, CallFacts DEF IInv, OwnerHoldsGeneration, Owns
<1>6. AnswersAreTrue'
  BY <1>1 DEF IInv, AnswersAreTrue, AnswerIsTrue
<1>7. ExpiredIsFinal' /\ DispatchedMeansWritten' /\ NoCommandAbandoned' /\ UnconfirmedIsReconciled'
  BY <1>1, <1>2, CallAssumption
  DEF IInv, ExpiredIsFinal, DispatchedMeansWritten, NoCommandAbandoned, UnconfirmedIsReconciled
<1> QED
  BY <1>3, <1>4, <1>5, <1>6, <1>7 DEF IInv

\* A resumed session opens a run.
LEMMA ResumeStep ==
    ASSUME IInv, NEW r \in Requests, ResumeRun(r), UNCHANGED fate
    PROVE  IInv'
<1>1. /\ status' = [status EXCEPT ![r] = "Requested"]
      /\ UNCHANGED <<work, call, submitted, fate>>
      /\ r \in Subjects /\ r \notin Commands
  BY DEF ResumeRun, Requests
<1>2. \A c \in Commands : status'[c] = status[c]
  BY <1>1, CallAssumption DEF IInv, TypeOK
<1>3. \A c \in Commands : status[RequestOf[c]] # "None" => status'[RequestOf[c]] # "None"
  BY <1>1, SubjectAssumption DEF IInv, TypeOK, Requests
<1>4. TypeOK'
  BY <1>1 DEF IInv, TypeOK, Statuses
<1>5. GenerationsAreSettledInOrder' /\ SubmittedInOrder' /\ OwnerHoldsGeneration'
  BY <1>1 DEF IInv, GenerationsAreSettledInOrder, SubmittedInOrder, OwnerHoldsGeneration, Owns
<1>6. AnswersAreTrue'
  BY <1>1, <1>2 DEF IInv, AnswersAreTrue, AnswerIsTrue
<1>7. ExpiredIsFinal' /\ DispatchedMeansWritten' /\ NoCommandAbandoned' /\ UnconfirmedIsReconciled'
  BY <1>1, <1>2, <1>3
  DEF IInv, ExpiredIsFinal, DispatchedMeansWritten, NoCommandAbandoned, UnconfirmedIsReconciled
<1> QED
  BY <1>4, <1>5, <1>6, <1>7 DEF IInv

\* The client's evidence about a message that reached it is handled.
LEMMA EvidenceStep ==
    ASSUME IInv, NEW s \in Subjects, ClientAnswers(s), UNCHANGED fate
    PROVE  IInv'
<1>1. /\ status' = [status EXCEPT ![s] = IF s \in Commands THEN "CommandReceived"
                                                           ELSE "Settled"]
      /\ UNCHANGED <<work, call, submitted, fate>>
      /\ \E g \in Generations : fate[s][g] = "written"
  BY DEF ClientAnswers, Evidence
<1>2. \A c \in Commands : c # s => status'[c] = status[c]
  BY <1>1, CallAssumption DEF IInv, TypeOK
<1>3. s \in Commands => status'[s] = "CommandReceived"
  BY <1>1 DEF IInv, TypeOK
<1>4. \A c \in Commands : status[RequestOf[c]] # "None" => status'[RequestOf[c]] # "None"
  BY <1>1, SubjectAssumption DEF IInv, TypeOK, Requests
<1>5. TypeOK'
  BY <1>1 DEF IInv, TypeOK, Statuses
<1>6. GenerationsAreSettledInOrder' /\ SubmittedInOrder' /\ OwnerHoldsGeneration'
  BY <1>1 DEF IInv, GenerationsAreSettledInOrder, SubmittedInOrder, OwnerHoldsGeneration, Owns
<1>7. AnswersAreTrue'
  BY <1>1, <1>2, <1>3 DEF IInv, AnswersAreTrue, AnswerIsTrue
<1>8. ExpiredIsFinal' /\ DispatchedMeansWritten' /\ NoCommandAbandoned' /\ UnconfirmedIsReconciled'
  BY <1>1, <1>2, <1>3, <1>4
  DEF IInv, ExpiredIsFinal, DispatchedMeansWritten, NoCommandAbandoned, UnconfirmedIsReconciled
<1> QED
  BY <1>5, <1>6, <1>7, <1>8 DEF IInv

\* Whatever the port does with the bytes, the rows stay in line with their fates.
LEMMA PortKeepsRows ==
    ASSUME IInv, FateStep, UNCHANGED <<status, work, submitted>>
    PROVE  /\ GenerationsAreSettledInOrder' /\ SubmittedInOrder' /\ ExpiredIsFinal'
           /\ DispatchedMeansWritten' /\ NoCommandAbandoned' /\ UnconfirmedIsReconciled'
<1>1. \A s \in Subjects, g \in Generations :
          /\ fate[s][g] \in {"written", "not_written"} => fate'[s][g] = fate[s][g]
          /\ g \notin submitted[s] => fate'[s][g] = fate[s][g]
  BY FateIsStable DEF IInv
<1>2. \A s \in Subjects, g \in Generations : g > work[s].generation => g \notin submitted[s]
  <2> SUFFICES ASSUME NEW s \in Subjects, NEW g \in Generations, g > work[s].generation,
                      g \in submitted[s]
               PROVE  FALSE
    OBVIOUS
  <2>1. g <= work[s].generation
    BY DEF IInv, SubmittedInOrder
  <2>2. g \in Nat /\ work[s].generation \in Nat
    BY CallAssumption DEF IInv, TypeOK, Rows, Generations
  <2> QED
    BY <2>1, <2>2
<1>3. GenerationsAreSettledInOrder'
  BY <1>1, <1>2 DEF IInv, GenerationsAreSettledInOrder
<1>4. SubmittedInOrder' /\ NoCommandAbandoned' /\ UnconfirmedIsReconciled'
  BY DEF IInv, SubmittedInOrder, NoCommandAbandoned, UnconfirmedIsReconciled
<1>5. ExpiredIsFinal' /\ DispatchedMeansWritten'
  BY <1>1, CallAssumption DEF IInv, ExpiredIsFinal, DispatchedMeansWritten
<1> QED
  BY <1>3, <1>4, <1>5

\* An answer that was true stays true.
LEMMA AnswersStayTrue ==
    ASSUME IInv, FateStep, UNCHANGED <<status, work, submitted>>,
           NEW v \in Workers, call[v].pc = "done", call'[v] = call[v]
    PROVE  AnswerIsTrue(v)'
<1>1. call[v] # Idle
  BY IdleFacts
<1>2. call[v].subject \in Subjects /\ call[v].generation \in Generations
  BY <1>1, CallFacts DEF IInv
<1> QED
  BY <1>2, FateIsStable DEF IInv, AnswersAreTrue, AnswerIsTrue

\* The port answers.
LEMMA RespondStep ==
    ASSUME IInv, NEW w \in Workers, NEW o \in Answers, Respond(w, o), UNCHANGED workVars
    PROVE  IInv'
<1> DEFINE s == call[w].subject
           g == call[w].generation
<1>1. /\ FateStep
      /\ UNCHANGED <<status, work, submitted>>
      /\ call' = [call EXCEPT ![w] = Done(s, g, o)]
      /\ call[w].pc = "busy"
      /\ o \in AnswersFor(fate'[s][g])
  BY DEF Respond, Answer, workVars
<1>2. call[w] # Idle /\ s \in Subjects /\ g \in Generations
  BY <1>1, IdleFacts, CallFacts DEF IInv
<1>3. fate' \in [Subjects -> [Generations -> Fates]]
  BY <1>1, FateKeepsType DEF IInv
<1>4. TypeOK'
  BY <1>1, <1>2, <1>3 DEF IInv, TypeOK, Calls, Done, CallOutcomes
<1>5. OwnerHoldsGeneration'
  BY <1>1, <1>2 DEF IInv, TypeOK, OwnerHoldsGeneration, Owns, Done
<1>6. AnswersAreTrue'
  <2> SUFFICES ASSUME NEW v \in Workers, call'[v].pc = "done"
               PROVE  AnswerIsTrue(v)'
    BY DEF AnswersAreTrue
  <2>1. CASE v = w
    <3>1. call'[w] = Done(s, g, o)
      BY <1>1 DEF IInv, TypeOK
    <3>2. fate'[s][g] \in Fates
      BY <1>2, <1>3
    <3>3. /\ o \in WrittenAnswers => fate'[s][g] = "written"
          /\ o \in NotWrittenAnswers => fate'[s][g] = "not_written"
      BY <1>1, <3>2 DEF AnswersFor, Fates, WrittenAnswers, NotWrittenAnswers
    <3>4. o # "Superseded"
      BY DEF Answers, WrittenAnswers, NotWrittenAnswers
    <3> QED
      BY <2>1, <3>1, <3>3, <3>4 DEF AnswerIsTrue, Done
  <2>2. CASE v # w
    <3>1. call'[v] = call[v]
      BY <1>1, <2>2 DEF IInv, TypeOK
    <3> QED
      BY <1>1, <3>1, AnswersStayTrue
  <2> QED
    BY <2>1, <2>2
<1> QED
  BY <1>1, <1>4, <1>5, <1>6, PortKeepsRows DEF IInv

\* Bytes move without an answer.
LEMMA ProgressStep ==
    ASSUME IInv, Progress, UNCHANGED workVars
    PROVE  IInv'
<1>1. FateStep /\ UNCHANGED <<status, work, submitted, call>>
  BY DEF Progress, workVars, callVars
<1>2. TypeOK'
  BY <1>1, FateKeepsType DEF IInv, TypeOK
<1>3. OwnerHoldsGeneration'
  BY <1>1 DEF IInv, OwnerHoldsGeneration, Owns
<1>4. AnswersAreTrue'
  BY <1>1, AnswersStayTrue DEF AnswersAreTrue
<1> QED
  BY <1>1, <1>2, <1>3, <1>4, PortKeepsRows DEF IInv

\* The process dies and starts again.
LEMMA CrashStep ==
    ASSUME IInv, Crash, UNCHANGED workVars
    PROVE  IInv'
<1>1. /\ FateStep
      /\ UNCHANGED <<status, work, submitted>>
      /\ call' = [w \in Workers |-> Idle]
  BY DEF Crash, DropCalls, workVars
<1>2. TypeOK'
  BY <1>1, FateKeepsType DEF IInv, TypeOK, Calls
<1>3. OwnerHoldsGeneration' /\ AnswersAreTrue'
  BY <1>1, IdleFacts DEF OwnerHoldsGeneration, AnswersAreTrue
<1> QED
  BY <1>1, <1>2, <1>3, PortKeepsRows DEF IInv

\* What Finish does, case by case: the row of s is released, a new generation
\* needs evidence that the old one was not written, and the status of a subject
\* changes only from CREATED, on the evidence the new status stands for.
FinishEffect(s, o) ==
    /\ \A t \in Subjects \ {s} : work'[t] = work[t]
    /\ work'[s] \in Rows
    /\ work'[s].owner = {}
    /\ work'[s].status \in {"Pending", "Delivered"}
    /\ \/ work'[s].generation = work[s].generation
       \/ work'[s].generation = work[s].generation + 1 /\ o \in NotWrittenAnswers
    /\ \/ status' = status
       \/ /\ s \in Commands
          /\ status[s] = "Created"
          /\ work'[s].status = "Delivered"
          /\ work'[s].generation = work[s].generation
          /\ \/ o = "Sent" /\ status' = [status EXCEPT ![s] = "Dispatched"]
             \/ /\ o = "Unconfirmed"
                /\ status' = [status EXCEPT ![s] = "DeliveryUnconfirmed",
                                            ![RequestOf[s]] = "Requested"]
             \/ o = "RejectedExpired" /\ status' = [status EXCEPT ![s] = "Expired"]
    /\ s \in Commands /\ work'[s].status = "Delivered" /\ status'[s] = "Created" =>
           work'[s].outcome = "PermanentRejection"

\* finish_command and finish_reconciliation have this effect.
LEMMA FinishHasEffect ==
    ASSUME TypeOK, NEW s \in Subjects, NEW o, Finish(s, o), work[s].generation \in Generations,
           o = "Superseded" /\ s \in Commands => status[s] # "Created"
    PROVE  FinishEffect(s, o) /\ work' \in [Subjects -> Rows]
<1> USE CallAssumption
<1>1. ASSUME NEW r \in Outcomes, Complete(s, r)
      PROVE  /\ work' \in [Subjects -> Rows]
             /\ \A t \in Subjects \ {s} : work'[t] = work[t]
             /\ work'[s].owner = {} /\ work'[s].status = "Delivered"
             /\ work'[s].generation = work[s].generation
             /\ work'[s].outcome = r
  <2> DEFINE d == [work[s] EXCEPT !.status = "Delivered", !.owner = {},
                                  !.leased = FALSE, !.outcome = r]
  <2>1. work \in [Subjects -> Rows] /\ work[s] \in Rows
    BY DEF TypeOK
  <2>2. d \in Rows
    BY <2>1 DEF Rows
  <2>3. /\ d.owner = {} /\ d.status = "Delivered" /\ d.outcome = r
        /\ d.generation = work[s].generation
    BY <2>1 DEF Rows
  <2>4. work' = [work EXCEPT ![s] = d]
    BY <1>1 DEF Complete
  <2> HIDE DEF d
  <2> QED
    BY <2>1, <2>2, <2>3, <2>4
<1>2. ASSUME NEW b \in BOOLEAN, Retry(s, b)
      PROVE  /\ work' \in [Subjects -> Rows]
             /\ \A t \in Subjects \ {s} : work'[t] = work[t]
             /\ work'[s].owner = {} /\ work'[s].status = "Pending"
             /\ work'[s].generation = IF b THEN work[s].generation + 1
                                           ELSE work[s].generation
  <2>1. work[s] \in Rows /\ work[s].generation \in 1 .. MaxGeneration
    BY DEF TypeOK, Generations
  <2>2. work[s].generation + 1 \in 1 .. MaxGeneration + 1
    BY <2>1
  <2> DEFINE row == [work[s] EXCEPT !.status = "Pending", !.owner = {}, !.leased = FALSE,
                                    !.generation = IF b THEN work[s].generation + 1
                                                        ELSE work[s].generation]
  <2>3. work' = [work EXCEPT ![s] = row]
    BY <1>2 DEF Retry
  <2>4. row \in Rows
    BY <2>1, <2>2 DEF Rows
  <2>5. /\ row.owner = {} /\ row.status = "Pending"
        /\ row.generation = IF b THEN work[s].generation + 1 ELSE work[s].generation
    BY <2>1 DEF Rows
  <2> HIDE DEF row
  <2> QED
    BY <2>3, <2>4, <2>5 DEF TypeOK
<1>3. CASE o = "Superseded" /\ StopDelivery(s, "Superseded")
  BY <1>1, <1>3 DEF StopDelivery, Outcomes, FinishEffect
<1>4. CASE o \in {"Sent", "Unconfirmed"} /\ s \in Commands /\ CommitCommandDelivery(s, o)
  <2>1. CASE Needed(s)
    <3>1. Complete(s, o) /\ status' = AfterDelivery(s, o) /\ status[s] = "Created"
      BY <1>4, <2>1 DEF CommitCommandDelivery, Needed
    <3>2. RequestOf[s] \in Subjects /\ RequestOf[s] # s
      BY <1>4, SubjectAssumption DEF Requests
    <3>3. status'[s] # "Created"
      BY <1>4, <3>1, <3>2 DEF AfterDelivery, TypeOK
    <3> QED
      BY <1>1, <1>4, <3>1, <3>3 DEF AfterDelivery, Outcomes, FinishEffect
  <2>2. CASE ~Needed(s)
    BY <1>1, <1>4, <2>2 DEF CommitCommandDelivery, Needed, Outcomes, FinishEffect
  <2> QED
    BY <2>1, <2>2
<1>5. CASE o \in {"Sent", "Unconfirmed"} /\ s \notin Commands /\ StopDelivery(s, o)
  BY <1>1, <1>5 DEF StopDelivery, Outcomes, FinishEffect
<1>6. CASE o = "RejectedExpired" /\ s \in Commands /\ ExpireCommand(s)
  <2>1. CASE Needed(s)
    BY <1>1, <1>6, <2>1 DEF ExpireCommand, AfterExpiry, Needed, Outcomes, FinishEffect, TypeOK
  <2>2. CASE ~Needed(s)
    BY <1>1, <1>6, <2>2 DEF ExpireCommand, Needed, Outcomes, FinishEffect
  <2> QED
    BY <2>1, <2>2
<1>7. CASE /\ o \in {"RejectedExpired", "RejectedIdentity", "TransportRejected"}
           /\ StopDelivery(s, "PermanentRejection")
  BY <1>1, <1>7 DEF StopDelivery, Outcomes, FinishEffect
<1>8. CASE o \in RetryableAnswers /\ ScheduleRetry(s, AdvancesGeneration(o))
  <2>1. AdvancesGeneration(o) \in BOOLEAN
    BY DEF AdvancesGeneration
  <2>2. AdvancesGeneration(o) => o \in NotWrittenAnswers
    BY DEF AdvancesGeneration, NotWrittenAnswers
  <2>3. CASE Needed(s)
    BY <1>2, <1>8, <2>1, <2>2, <2>3 DEF ScheduleRetry, FinishEffect
  <2>4. CASE ~Needed(s)
    BY <1>1, <1>8, <2>4 DEF ScheduleRetry, Needed, Outcomes, FinishEffect
  <2> QED
    BY <2>3, <2>4
<1> QED
  BY <1>3, <1>4, <1>5, <1>6, <1>7, <1>8 DEF Finish, FinishCommand, FinishReconciliation

\* The owner of a row commits its answer.
LEMMA CommitStep ==
    ASSUME IInv, NEW w \in Workers, Commit(w), UNCHANGED fate
    PROVE  IInv'
<1> DEFINE s == call[w].subject
           g == call[w].generation
           o == call[w].outcome
<1>1. /\ call[w].pc = "done"
      /\ call' = [call EXCEPT ![w] = Idle]
      /\ UNCHANGED <<submitted, fate>>
      /\ Owns(w, s)
      /\ Finish(s, o)
  BY DEF Commit, Return
<1>2. call[w] # Idle /\ s \in Subjects /\ g \in Generations
  BY <1>1, IdleFacts, CallFacts DEF IInv
<1>3. g = work[s].generation
  BY <1>1, <1>2 DEF IInv, OwnerHoldsGeneration
<1>4. AnswerIsTrue(w)
  BY <1>1 DEF IInv, AnswersAreTrue
<1>5. FinishEffect(s, o) /\ work' \in [Subjects -> Rows]
  <2>1. o = "Superseded" /\ s \in Commands => status[s] # "Created"
    BY <1>4 DEF AnswerIsTrue
  <2> HIDE DEF s, g, o
  <2> QED
    BY <1>1, <1>2, <1>3, <2>1, FinishHasEffect DEF IInv
<1>6. /\ o \in NotWrittenAnswers => fate[s][g] = "not_written"
      /\ o = "Sent" => fate[s][g] = "written"
  BY <1>4 DEF AnswerIsTrue, WrittenAnswers
<1>7. \A v \in Workers : call'[v] = call[v] \/ call'[v] = Idle
  BY <1>1 DEF IInv, TypeOK
<1>8. work[s].generation \in Nat /\ \A h \in Generations : h \in Nat
  BY <1>2, <1>3, CallAssumption DEF Generations
<1>9. \A c \in Commands : RequestOf[c] \in Subjects /\ RequestOf[c] \notin Commands
  BY SubjectAssumption DEF Requests
<1>10. work[s].status = "Processing" /\ work[s].owner = {w}
  BY <1>1 DEF Owns
<1>11. /\ \A c \in Commands \ {s} : status'[c] = status[c]
       /\ \A c \in Commands : status[RequestOf[c]] # "None" => status'[RequestOf[c]] # "None"
       /\ status[s] # "Created" => status'[s] = status[s]
       /\ status' \in [Subjects -> Statuses]
       /\ \A t \in Subjects : t \in Commands <=> status'[t] \notin {"None", "Requested", "Settled"}
  <2> HIDE DEF s, g, o
  <2> QED
    BY <1>2, <1>5, <1>9, CallAssumption DEF FinishEffect, IInv, TypeOK, Statuses
<1> HIDE DEF s, g, o
<1>12. TypeOK'
  BY <1>1, <1>5, <1>11 DEF IInv, TypeOK, Calls
<1>13. GenerationsAreSettledInOrder'
  <2> SUFFICES ASSUME NEW t \in Subjects, NEW h \in Generations
               PROVE  /\ h < work'[t].generation => fate[t][h] = "not_written"
                      /\ h > work'[t].generation => fate[t][h] = "open"
    BY <1>1 DEF GenerationsAreSettledInOrder
  <2>1. /\ h < work[t].generation => fate[t][h] = "not_written"
        /\ h > work[t].generation => fate[t][h] = "open"
    BY DEF IInv, GenerationsAreSettledInOrder
  <2>2. CASE work'[t].generation = work[t].generation
    BY <2>1, <2>2
  <2>3. CASE work'[t].generation # work[t].generation
    <3>1. t = s /\ work'[t].generation = g + 1 /\ fate[s][g] = "not_written"
      BY <1>3, <1>5, <1>6, <2>3 DEF FinishEffect
    <3>2. g \in Nat /\ h \in Nat /\ g = work[t].generation
      BY <1>3, <1>8, <3>1
    <3> QED
      BY <2>1, <3>1, <3>2
  <2> QED
    BY <2>2, <2>3
<1>14. SubmittedInOrder'
  BY <1>1, <1>5, <1>8 DEF FinishEffect, IInv, SubmittedInOrder, TypeOK
<1>15. OwnerHoldsGeneration'
  <2> SUFFICES ASSUME NEW v \in Workers, call'[v] # Idle, Owns(v, call[v].subject)'
               PROVE  call'[v].generation = work'[call'[v].subject].generation
    BY DEF OwnerHoldsGeneration
  <2>1. call'[v] = call[v] /\ call[v].subject \in Subjects
    BY <1>7, CallFacts DEF IInv
  <2>2. call[v].subject # s
    BY <1>5, <2>1 DEF FinishEffect, Owns
  <2>3. work'[call[v].subject] = work[call[v].subject]
    BY <1>5, <2>1, <2>2 DEF FinishEffect
  <2>4. Owns(v, call[v].subject)
    BY <2>1, <2>3 DEF Owns
  <2> QED
    BY <2>1, <2>3, <2>4 DEF IInv, OwnerHoldsGeneration
<1>16. AnswersAreTrue'
  <2> SUFFICES ASSUME NEW v \in Workers, call'[v].pc = "done"
               PROVE  AnswerIsTrue(v)'
    BY DEF AnswersAreTrue
  <2>1. call'[v] = call[v] /\ call[v].subject \in Subjects
    BY <1>7, IdleFacts, CallFacts DEF IInv
  <2>2. AnswerIsTrue(v)
    BY <2>1 DEF IInv, AnswersAreTrue
  <2>3. call[v].subject \in Commands /\ status[call[v].subject] # "Created" =>
            status'[call[v].subject] # "Created"
    BY <1>11
  <2> QED
    BY <1>1, <2>1, <2>2, <2>3 DEF AnswerIsTrue
<1> DEFINE Decided == /\ s \in Commands
                      /\ status[s] = "Created"
                      /\ work'[s].status = "Delivered"
                      /\ work'[s].generation = work[s].generation
<1>17. \/ status' = status
       \/ Decided /\ o = "Sent" /\ status'[s] = "Dispatched"
       \/ /\ Decided /\ o = "Unconfirmed" /\ status'[s] = "DeliveryUnconfirmed"
          /\ status'[RequestOf[s]] = "Requested"
       \/ Decided /\ o = "RejectedExpired" /\ status'[s] = "Expired"
  <2>1. status \in [Subjects -> Statuses]
    BY DEF IInv, TypeOK
  <2>2. s \in Commands => RequestOf[s] \in Subjects /\ RequestOf[s] # s
    BY <1>9
  <2> QED
    BY <1>2, <1>5, <2>1, <2>2 DEF FinishEffect
<1>18. \A c \in Commands \ {s} : c \in Subjects /\ status'[c] = status[c] /\ work'[c] = work[c]
  BY <1>5, <1>11, CallAssumption DEF FinishEffect
<1> HIDE DEF Decided
<1>19. ExpiredIsFinal'
  <2> SUFFICES ASSUME NEW c \in Commands, status'[c] = "Expired"
               PROVE  /\ work'[c].status = "Delivered"
                      /\ work'[c].generation \in Generations =>
                             fate[c][work'[c].generation] = "not_written"
    BY <1>1 DEF ExpiredIsFinal
  <2>1. CASE c # s
    BY <1>18, <2>1 DEF IInv, ExpiredIsFinal
  <2>2. CASE c = s /\ status' = status
    BY <1>10, <2>2 DEF IInv, ExpiredIsFinal
  <2>3. CASE c = s /\ status' # status
    BY <1>3, <1>6, <1>17, <2>3 DEF Decided, NotWrittenAnswers
  <2> QED
    BY <2>1, <2>2, <2>3
<1>20. DispatchedMeansWritten'
  <2> SUFFICES ASSUME NEW c \in Commands, status'[c] \in {"Dispatched", "CommandReceived"}
               PROVE  \E h \in Generations : fate[c][h] = "written"
    BY <1>1 DEF DispatchedMeansWritten
  <2>1. CASE c # s \/ status' = status
    BY <1>18, <2>1 DEF IInv, DispatchedMeansWritten
  <2>2. CASE c = s /\ status' # status
    BY <1>2, <1>6, <1>17, <2>2
  <2> QED
    BY <2>1, <2>2
<1>21. NoCommandAbandoned'
  BY <1>5, <1>11, CallAssumption DEF FinishEffect, IInv, NoCommandAbandoned
<1>22. UnconfirmedIsReconciled'
  <2> SUFFICES ASSUME NEW c \in Commands, status'[c] = "DeliveryUnconfirmed"
               PROVE  status'[RequestOf[c]] # "None" /\ work'[c].status = "Delivered"
    BY DEF UnconfirmedIsReconciled
  <2>1. CASE c # s
    BY <1>11, <1>18, <2>1 DEF IInv, UnconfirmedIsReconciled
  <2>2. CASE c = s /\ status' = status
    BY <1>10, <2>2 DEF IInv, UnconfirmedIsReconciled
  <2>3. CASE c = s /\ status' # status
    BY <1>17, <2>3 DEF Decided
  <2> QED
    BY <2>1, <2>2, <2>3
<1> QED
  BY <1>12, <1>13, <1>14, <1>15, <1>16, <1>19, <1>20, <1>21, <1>22 DEF IInv

-----------------------------------------------------------------------------
(* The theorems.                                                           *)

\* Every step keeps the invariant.
LEMMA NextIInv == IInv /\ [Next]_vars => IInv'
<1> SUFFICES ASSUME IInv, [Next]_vars PROVE IInv'
  OBVIOUS
<1>1. ASSUME NEW w \in Workers, NEW s \in Subjects, Claim(w, s), UNCHANGED fate PROVE IInv'
  BY <1>1, ClaimStep
<1>2. ASSUME NEW w \in Workers, Commit(w), UNCHANGED fate PROVE IInv'
  BY <1>2, CommitStep
<1>3. ASSUME NEW w \in Workers, RollBack(w) \/ StoreFails(w), UNCHANGED fate PROVE IInv'
  BY <1>3, GiveUpStep DEF RollBack, StoreFails, workVars
<1>4. ASSUME NEW s \in Subjects, LeaseExpires(s), UNCHANGED fate PROVE IInv'
  BY <1>4, LeaseStep
<1>5. ASSUME NEW r \in Requests, ResumeRun(r), UNCHANGED fate PROVE IInv'
  BY <1>5, ResumeStep
<1>6. ASSUME NEW s \in Subjects, ClientAnswers(s), UNCHANGED fate PROVE IInv'
  BY <1>6, EvidenceStep
<1>7. ASSUME NEW w \in Workers, NEW o \in Answers, Respond(w, o), UNCHANGED workVars
      PROVE  IInv'
  BY <1>7, RespondStep
<1>8. ASSUME Progress \/ Crash, UNCHANGED workVars PROVE IInv'
  BY <1>8, ProgressStep, CrashStep
<1>9. ASSUME UNCHANGED vars PROVE IInv'
  <2> USE <1>9 DEF vars, IInv
  <2>1. TypeOK'
    BY DEF TypeOK
  <2>2. GenerationsAreSettledInOrder' /\ SubmittedInOrder'
    BY DEF GenerationsAreSettledInOrder, SubmittedInOrder
  <2>3. OwnerHoldsGeneration'
    BY DEF OwnerHoldsGeneration, Owns
  <2>4. AnswersAreTrue'
    BY DEF AnswersAreTrue, AnswerIsTrue
  <2>5. ExpiredIsFinal' /\ DispatchedMeansWritten'
    BY DEF ExpiredIsFinal, DispatchedMeansWritten
  <2>6. NoCommandAbandoned' /\ UnconfirmedIsReconciled'
    BY DEF NoCommandAbandoned, UnconfirmedIsReconciled
  <2> QED
    BY <2>1, <2>2, <2>3, <2>4, <2>5, <2>6
<1> QED
  BY <1>1, <1>2, <1>3, <1>4, <1>5, <1>6, <1>7, <1>8, <1>9 DEF Next

\* The strengthened invariant holds in every reachable state.
THEOREM Invariance == Spec => []IInv
BY InitIInv, NextIInv, PTL DEF Spec

\* The rows, the calls and the history keep their types (OutboundOverPort!TypeOK).
THEOREM TypeCorrect == Spec => []TypeOK
<1>1. IInv => TypeOK
  BY DEF IInv
<1> QED
  BY <1>1, Invariance, PTL

\* No duplicate trade, for any number of workers, subjects and retries: of all the
\* messages created for a subject at most one may have left the process.
THEOREM NoDuplicateDelivery == Spec => []AtMostOneGenerationLeaves
<1>1. IInv => AtMostOneGenerationLeaves
  <2> SUFFICES ASSUME IInv, NEW s \in Subjects, NEW g \in Generations, MayHaveLeft(s, g)
               PROVE  g = work[s].generation
    BY DEF AtMostOneGenerationLeaves
  <2>1. ~(g < work[s].generation) /\ ~(g > work[s].generation)
    BY DEF IInv, GenerationsAreSettledInOrder, MayHaveLeft
  <2>2. g \in Nat /\ work[s].generation \in Nat
    BY CallAssumption DEF IInv, TypeOK, Rows, Generations
  <2> QED
    BY <2>1, <2>2
<1> QED
  BY <1>1, Invariance, PTL

\* A command that Core expired never reached, and never will reach, its client.
THEOREM ExpiredStaysHome == Spec => []ExpiredNeverLeaves
<1>1. IInv => ExpiredNeverLeaves
  <2> SUFFICES ASSUME IInv, NEW c \in Commands, status[c] = "Expired", NEW g \in Generations
               PROVE  ~MayHaveLeft(c, g)
    BY DEF ExpiredNeverLeaves
  <2>1. c \in Subjects /\ g \in Nat /\ work[c].generation \in Nat
    BY CallAssumption DEF IInv, TypeOK, Rows, Generations
  <2>2. g < work[c].generation \/ g = work[c].generation \/ g > work[c].generation
    BY <2>1
  <2> QED
    BY <2>1, <2>2 DEF IInv, GenerationsAreSettledInOrder, ExpiredIsFinal, MayHaveLeft
<1> QED
  BY <1>1, Invariance, PTL

\* The generation of a work row is the only one that can still move.
THEOREM GenerationsAreSettled == Spec => []GenerationsAreSettledInOrder
<1>1. IInv => GenerationsAreSettledInOrder
  BY DEF IInv
<1> QED
  BY <1>1, Invariance, PTL

\* A dispatched or received command was really written.
THEOREM DispatchedWasWritten == Spec => []DispatchedMeansWritten
<1>1. IInv => DispatchedMeansWritten
  BY DEF IInv
<1> QED
  BY <1>1, Invariance, PTL

\* A finished row leaves no CREATED command behind but a rejected one.
THEOREM NothingIsAbandoned == Spec => []NoCommandAbandoned
<1>1. IInv => NoCommandAbandoned
  BY DEF IInv
<1> QED
  BY <1>1, Invariance, PTL

\* An unconfirmed command has its reconciliation run and is not sent again.
THEOREM UnconfirmedHasItsRun == Spec => []UnconfirmedIsReconciled
<1>1. IInv => UnconfirmedIsReconciled
  BY DEF IInv
<1> QED
  BY <1>1, Invariance, PTL
=============================================================================
