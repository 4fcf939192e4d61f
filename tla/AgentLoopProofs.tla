---------------------------- MODULE AgentLoopProofs ----------------------------
(***************************************************************************)
(* Theorems about AgentLoop, for any files, queries and limits.            *)
(***************************************************************************)
EXTENDS AgentLoop, TLAPS

USE LimitsAssumption DEF Waiting, Ends, States, Limit, Closed

\* One action per answer of the model and per treatment of a tool call: every
\* proof below splits on them.
LEMMA NextCases ==
  ASSUME Next
  PROVE  \/ \E n \in 1 .. MaxCalls : AnswerCalls(n) \/ StreamCalls(n)
         \/ AnswerProse \/ AnswerNothing \/ CallFails
         \/ StreamProse \/ StreamFails
         \/ CallDone \/ Block \/ OtherTool \/ ToolFails
         \/ \E t \in Files \cup Queries : Repeat(t)
         \/ \E t \in Files \cup Queries : First(t) /\ (Searched \/ HasRead)
         \/ CheckLimits \/ BudgetExhausted
  BY DEF Next, FtsSearch, ReadFile

-------------------------------------------------------------------------------
(* The counters of the run.                                                *)

\* What the proofs need of the types: the Boolean variable is left out.
CountersOK ==
  /\ pc \in Waiting \cup Ends
  /\ state \in States
  /\ iter \in 0 .. MaxIterations
  /\ stateIter \in 0 .. iter
  /\ searches \in Nat /\ reads \in Nat /\ dedups \in Nat
  /\ left \in 0 .. MaxCalls
  /\ prose \in 0 .. stateIter

\* The counters keep their range: the rounds of a state never outnumber those
\* of the run, nor its prose rounds those, and the run stays in its budget.
\* A streamed round is counted before it is known to be prose.
RoundsCounted ==
  /\ CountersOK
  /\ pc = "stream" => prose < stateIter

LEMMA RoundsInit == Init => RoundsCounted
  BY DEF Init, RoundsCounted, CountersOK

LEMMA EndKeepsRounds ==
  ASSUME CountersOK, NEW how \in Ends, End(how),
         iter' \in iter .. MaxIterations
  PROVE  RoundsCounted'
  BY DEF RoundsCounted, CountersOK, End, stateVars, toolVars

LEMMA EnterKeepsRounds ==
  ASSUME CountersOK, NEW s \in States, Enter(s), UNCHANGED iter
  PROVE  /\ state' \in States /\ stateIter' \in 0 .. iter'
         /\ searches' \in Nat /\ reads' \in Nat /\ prose' \in 0 .. stateIter'
  BY DEF Enter, CountersOK

LEMMA ToolKeepsRounds ==
  ASSUME CountersOK, Searched \/ HasRead, UNCHANGED iter
  PROVE  /\ state' \in States /\ stateIter' \in 0 .. iter'
         /\ searches' \in Nat /\ reads' \in Nat /\ prose' \in 0 .. stateIter'
  BY DEF Searched, HasRead, CountersOK

LEMMA TreatKeepsLeft ==
  ASSUME CountersOK, Treat
  PROVE  left' \in 0 .. MaxCalls /\ pc' = "tools" /\ iter' = iter
  BY DEF Treat, CountersOK

LEMMA RoundsStep == RoundsCounted /\ [Next]_vars => RoundsCounted'
<1> SUFFICES ASSUME RoundsCounted, [Next]_vars PROVE RoundsCounted'
  OBVIOUS
<1> CountersOK
  BY DEF RoundsCounted
<1>1. CASE UNCHANGED vars
  BY <1>1 DEF RoundsCounted, CountersOK, vars, stateVars, toolVars
<1>2. ASSUME NEW n \in 1 .. MaxCalls, AnswerCalls(n) \/ StreamCalls(n)
      PROVE  RoundsCounted'
  BY <1>2 DEF RoundsCounted, CountersOK, AnswerCalls, StreamCalls, NextRound,
              stateVars, toolVars
<1>3. CASE AnswerProse \/ StreamProse
  BY <1>3 DEF RoundsCounted, CountersOK, AnswerProse, StreamProse, NextRound,
              toolVars
<1>4. CASE AnswerNothing \/ CallFails \/ StreamFails \/ CallDone
           \/ ToolFails \/ BudgetExhausted
  <2>1. iter' \in iter .. MaxIterations
    BY <1>4 DEF AnswerNothing, CallFails, StreamFails, CallDone, ToolFails,
                BudgetExhausted, NextRound, CountersOK
  <2>2. \E how \in Ends : End(how)
    BY <1>4 DEF AnswerNothing, CallFails, StreamFails, CallDone, ToolFails,
                BudgetExhausted
  <2> QED
    BY <2>1, <2>2, EndKeepsRounds
<1>5. CASE Block
  BY <1>5, TreatKeepsLeft
     DEF Block, RoundsCounted, CountersOK, stateVars, toolVars
<1>6. CASE OtherTool
  <2>1. CASE Searched \/ HasRead
    BY <1>6, <2>1, TreatKeepsLeft, ToolKeepsRounds
       DEF OtherTool, RoundsCounted, CountersOK, toolVars
  <2>2. CASE UNCHANGED stateVars
    BY <1>6, <2>2, TreatKeepsLeft
       DEF OtherTool, RoundsCounted, CountersOK, stateVars, toolVars
  <2> QED
    BY <1>6, <2>1, <2>2 DEF OtherTool
<1>7. ASSUME NEW t \in Files \cup Queries, Repeat(t) PROVE RoundsCounted'
  <2>1. CASE Enter("synthesizing")
    BY <1>7, <2>1, TreatKeepsLeft, EnterKeepsRounds
       DEF Repeat, RoundsCounted, CountersOK
  <2>2. CASE UNCHANGED stateVars
    BY <1>7, <2>2, TreatKeepsLeft
       DEF Repeat, RoundsCounted, CountersOK, stateVars
  <2> QED
    BY <1>7, <2>1, <2>2 DEF Repeat
<1>8. ASSUME NEW t \in Files \cup Queries, First(t), Searched \/ HasRead
      PROVE  RoundsCounted'
  BY <1>8, TreatKeepsLeft, ToolKeepsRounds
     DEF First, RoundsCounted, CountersOK
<1>9. CASE CheckLimits
  <2>1. CASE Enter("reading") \/ Enter("synthesizing")
    BY <1>9, <2>1, EnterKeepsRounds
       DEF CheckLimits, RoundsCounted, CountersOK, toolVars
  <2>2. CASE UNCHANGED stateVars
    BY <1>9, <2>2
       DEF CheckLimits, RoundsCounted, CountersOK, stateVars, toolVars
  <2>3. CASE pc' = "exhausted" /\ state' = "done"
             /\ UNCHANGED <<stateIter, searches, reads, prose>>
    BY <1>9, <2>3 DEF CheckLimits, RoundsCounted, CountersOK, toolVars
  <2> QED
    BY <1>9, <2>1, <2>2, <2>3 DEF CheckLimits
<1> QED
  BY <1>1, <1>2, <1>3, <1>4, <1>5, <1>6, <1>7, <1>8, <1>9, NextCases

-------------------------------------------------------------------------------
(* What was asked for before.                                              *)

\* Why nothing is repeated: what ran is what is remembered, and once each.
RanIsSeen ==
  /\ seen \subseteq Files \cup Queries
  /\ ran \in [Files \cup Queries -> Nat]
  /\ \A t \in Files \cup Queries : ran[t] = IF t \in seen THEN 1 ELSE 0

LEMMA RanIsSeenStep == RanIsSeen /\ [Next]_vars => RanIsSeen'
<1> SUFFICES ASSUME RanIsSeen, [Next]_vars PROVE RanIsSeen'
  OBVIOUS
<1>1. CASE UNCHANGED <<seen, ran>>
  BY <1>1 DEF RanIsSeen
<1>2. ASSUME NEW t \in Files \cup Queries, First(t) PROVE RanIsSeen'
  BY <1>2 DEF First, RanIsSeen
<1>3. UNCHANGED <<seen, ran>> \/ \E t \in Files \cup Queries : First(t)
  <2>1. CASE UNCHANGED vars
    BY <2>1 DEF vars, toolVars
  <2>2. CASE Next
    BY <2>2, NextCases
       DEF AnswerCalls, StreamCalls, AnswerProse, AnswerNothing, CallFails,
           StreamProse, StreamFails, CallDone, Block, OtherTool, ToolFails,
           Repeat, CheckLimits, BudgetExhausted, End, toolVars
  <2> QED
    BY <2>1, <2>2
<1> QED
  BY <1>1, <1>2, <1>3

LEMMA RanIsSeenHolds == Spec => []RanIsSeen
<1>1. Init => RanIsSeen
  BY DEF Init, RanIsSeen
<1> QED
  BY <1>1, RanIsSeenStep, PTL DEF Spec

\* No file is read twice and no query run twice: the sets files_read and
\* searches_done outlive every change of state.
THEOREM NothingTwice == Spec => []NoRepetition
<1>1. RanIsSeen => NoRepetition
  BY DEF RanIsSeen, NoRepetition
<1> QED
  BY <1>1, RanIsSeenHolds, PTL

\* Every variable of the loop keeps its type: the run never makes more calls of
\* the model than its budget, whatever the model answers.
THEOREM TypeCorrect == Spec => []TypeOK
<1> DEFINE Streaming == streaming \in BOOLEAN
<1>1. Init => Streaming
  BY DEF Init
<1>2. Streaming /\ [Next]_vars => Streaming'
  <2> SUFFICES ASSUME Streaming, [Next]_vars PROVE UNCHANGED streaming
    OBVIOUS
  <2>1. CASE UNCHANGED vars
    BY <2>1, Zenon DEF vars
  <2>2. CASE Next
    <3>1. CASE \E n \in 1 .. MaxCalls : AnswerCalls(n) \/ StreamCalls(n)
      BY <3>1, Zenon DEF AnswerCalls, StreamCalls
    <3>2. CASE AnswerProse \/ StreamProse \/ CheckLimits
      BY <3>2, Zenon DEF AnswerProse, StreamProse, CheckLimits
    <3>3. CASE AnswerNothing \/ CallFails \/ StreamFails \/ CallDone
               \/ ToolFails \/ BudgetExhausted
      BY <3>3, Zenon DEF AnswerNothing, CallFails, StreamFails, CallDone,
                         ToolFails, BudgetExhausted, End
    <3>4. CASE Block \/ OtherTool
      BY <3>4, Zenon DEF Block, OtherTool, Treat
    <3>5. CASE \E t \in Files \cup Queries : Repeat(t) \/ First(t)
      BY <3>5, Zenon DEF Repeat, First, Treat
    <3> QED
      BY <2>2, <3>1, <3>2, <3>3, <3>4, <3>5, NextCases, Zenon
  <2> QED
    BY <2>1, <2>2
<1>3. RoundsCounted /\ RanIsSeen /\ Streaming => TypeOK
  BY DEF RoundsCounted, CountersOK, RanIsSeen, TypeOK
<1> QED
  BY <1>1, <1>2, <1>3, RoundsInit, RoundsStep, RanIsSeenHolds, PTL DEF Spec

-------------------------------------------------------------------------------
(* The limits of a state.                                                  *)

\* The strengthening of StateLimits: a streamed round may be the last one its
\* state allows, and only an ended run is in the state "done".
WithinLimits ==
  /\ pc \in Waiting => state # "done"
  /\ pc = "call" => stateIter - prose < Limit[state]
  /\ pc = "stream" => stateIter - prose <= Limit[state]
  /\ pc \in {"call", "stream"} =>
       /\ state = "searching" => searches < SearchLimit
       /\ state = "reading" => reads < ReadLimit

LEMMA WithinLimitsStep ==
  RoundsCounted /\ WithinLimits /\ [Next]_vars => WithinLimits'
<1> SUFFICES ASSUME RoundsCounted, WithinLimits, [Next]_vars
             PROVE  WithinLimits'
  OBVIOUS
<1> USE DEF WithinLimits, RoundsCounted, CountersOK
<1>1. CASE UNCHANGED vars
  BY <1>1 DEF vars, stateVars
<1>2. ASSUME NEW n \in 1 .. MaxCalls, AnswerCalls(n) \/ StreamCalls(n)
      PROVE  WithinLimits'
  BY <1>2 DEF AnswerCalls, StreamCalls, NextRound, stateVars
<1>3. CASE AnswerProse \/ StreamProse
  BY <1>3 DEF AnswerProse, StreamProse, NextRound
<1>4. CASE AnswerNothing \/ CallFails \/ StreamFails \/ CallDone
           \/ ToolFails \/ BudgetExhausted
  BY <1>4 DEF AnswerNothing, CallFails, StreamFails, CallDone, ToolFails,
              BudgetExhausted, End
<1>5. CASE Block
  BY <1>5 DEF Block, Treat, stateVars
<1>6. CASE OtherTool
  BY <1>6 DEF OtherTool, Treat, Searched, HasRead, stateVars
<1>7. ASSUME NEW t \in Files \cup Queries, Repeat(t) PROVE WithinLimits'
  BY <1>7 DEF Repeat, Treat, Enter, stateVars
<1>8. ASSUME NEW t \in Files \cup Queries, First(t), Searched \/ HasRead
      PROVE  WithinLimits'
  BY <1>8 DEF First, Treat, Searched, HasRead
<1>9. CASE CheckLimits
  BY <1>9 DEF CheckLimits, LimitReached, Enter, stateVars
<1> QED
  BY <1>1, <1>2, <1>3, <1>4, <1>5, <1>6, <1>7, <1>8, <1>9, NextCases

\* A state that used up its rounds, searches or reads is left before the model
\* is called again; rounds of mere prose are the only ones not held against it.
THEOREM LimitsKept == Spec => []StateLimits
<1>1. Init => WithinLimits
  BY DEF Init, WithinLimits
<1>2. RoundsCounted /\ WithinLimits => StateLimits
  BY DEF WithinLimits, StateLimits
<1> QED
  BY <1>1, <1>2, RoundsInit, RoundsStep, WithinLimitsStep, PTL DEF Spec

\* A run told to answer never searches or reads again: every action that calls
\* a tool tests the state first, and no transition leads out of synthesizing.
THEOREM SynthesisStays == Spec => SynthesisIsFinal
<1> DEFINE Final ==
      (state \in Closed) => (state' \in Closed /\ UNCHANGED <<seen, ran>>)
<1>1. [Next]_vars => [Final]_vars
  <2> SUFFICES ASSUME Next, state \in Closed
               PROVE  state' \in Closed /\ UNCHANGED <<seen, ran>>
    OBVIOUS
  <2>1. CASE CheckLimits
    BY <2>1 DEF CheckLimits, Enter, stateVars, toolVars
  <2>2. CASE Block \/ OtherTool
             \/ \E t \in Files \cup Queries : Repeat(t) \/ First(t)
    BY <2>2 DEF Block, OtherTool, Repeat, First, stateVars, toolVars
  <2> QED
    BY <2>1, <2>2, NextCases
       DEF AnswerCalls, StreamCalls, AnswerProse, AnswerNothing, CallFails,
           StreamProse, StreamFails, CallDone, ToolFails, BudgetExhausted,
           End, stateVars, toolVars
<1> QED
  BY <1>1, PTL DEF Spec, SynthesisIsFinal
===============================================================================
