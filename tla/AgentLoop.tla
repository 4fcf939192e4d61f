------------------------------- MODULE AgentLoop -------------------------------
(***************************************************************************)
(* The query agent: one call of AgentLoop.run_stream (app/agent/loop.py).  *)
(* The language model is free: it answers each call with any tool calls,   *)
(* with prose, with nothing, or not at all.  The loop has to keep it within*)
(* its budget and lead it from searching over reading to an answer.        *)
(*                                                                         *)
(* An action is one answer of the model, or the treatment of one of the    *)
(* tool calls in it.                                                       *)
(***************************************************************************)
EXTENDS Naturals

CONSTANTS
  Files,          \* paths the model may ask read_file for
  Queries,        \* queries it may ask fts_search for, stripped and lowered
  MaxIterations,  \* app.constants.DEFAULT_MAX_ITERATIONS
  SearchLimit,    \* STATE_MAX_ITERATIONS[SEARCHING]
  ReadLimit,      \* STATE_MAX_ITERATIONS[READING]
  SynthesisLimit, \* STATE_MAX_ITERATIONS[SYNTHESIZING]
  MaxCalls        \* bound: tool calls in one answer of the model

ASSUME LimitsAssumption ==
  /\ MaxIterations \in Nat /\ MaxCalls \in Nat
  /\ SearchLimit \in Nat \ {0} /\ ReadLimit \in Nat \ {0}
  /\ SynthesisLimit \in Nat \ {0}
ASSUME ToolsAssumption == Files \cap Queries = {}

VARIABLES
  pc,        \* what the loop waits for, or how it ended
  streaming, \* stream_prose: the caller shows the answer as it is written
  state,     \* AgentState
  iter,      \* total_iterations
  stateIter, \* state_iterations
  searches,  \* searches_in_state
  reads,     \* reads_in_state
  seen,      \* files_read and searches_done
  dedups,    \* consecutive_dedups
  left,      \* tool calls of the model's answer still to be treated
  prose,     \* history: rounds of this state that were prose only
  ran        \* history: how often each file was read, each query run

stateVars == <<state, stateIter, searches, reads, prose>>
toolVars == <<seen, dedups, ran>>
vars == <<pc, streaming, iter, left, stateVars, toolVars>>

States == {"searching", "reading", "synthesizing", "done"}
\* "call": at the head of the loop; "stream": in the second, streamed call;
\* "tools": treating the answer.  The rest are the last event of the run:
\* "answered" is a done event without a done call, "raised" an exception.
Waiting == {"call", "stream", "tools"}
Ends == {"done", "answered", "exhausted", "error", "raised"}
Limit == [s \in {"searching", "reading", "synthesizing"} |->
            IF s = "searching" THEN SearchLimit
            ELSE IF s = "reading" THEN ReadLimit ELSE SynthesisLimit]

\* The states in which only the done tool may run.
Closed == {"synthesizing", "done"}

TypeOK ==
  /\ pc \in Waiting \cup Ends
  /\ streaming \in BOOLEAN
  /\ state \in States
  /\ iter \in 0 .. MaxIterations
  /\ stateIter \in 0 .. iter
  /\ searches \in Nat /\ reads \in Nat /\ dedups \in Nat
  /\ seen \subseteq Files \cup Queries
  /\ left \in 0 .. MaxCalls
  /\ prose \in 0 .. stateIter
  /\ ran \in [Files \cup Queries -> Nat]

Init ==
  /\ pc = "call"
  /\ streaming \in BOOLEAN
  /\ state = "searching"
  /\ iter = 0 /\ stateIter = 0 /\ searches = 0 /\ reads = 0
  /\ seen = {} /\ dedups = 0 /\ left = 0
  /\ prose = 0
  /\ ran = [t \in Files \cup Queries |-> 0]

-------------------------------------------------------------------------------
(* One round: a call of the model.  As in the other modules, a definition   *)
(* marked as a mistake is used by no specification: it stands before the one*)
(* it mistakes, and a property notices it.                                  *)

End(how) == pc' = how /\ UNCHANGED <<streaming, stateVars, toolVars, left>>

NextRound ==
  /\ pc = "call" /\ iter < MaxIterations
  /\ iter' = iter + 1

\* Tool calls, or one that was found in the text.
AnswerCalls(n) ==
  /\ NextRound
  /\ pc' = "tools" /\ left' = n
  /\ stateIter' = stateIter + 1
  /\ UNCHANGED <<streaming, state, searches, reads, prose, toolVars>>

\* More than a few characters of prose: a streaming caller has it written
\* again, as a stream; another one goes to the next round at once, past the
\* state limits.
AnswerProse ==
  /\ NextRound
  /\ stateIter' = stateIter + 1
  /\ \/ streaming /\ pc' = "stream" /\ prose' = prose
     \/ ~streaming /\ pc' = "call" /\ prose' = prose + 1
  /\ UNCHANGED <<streaming, state, searches, reads, toolVars, left>>

\* Neither: whatever the model said last becomes the answer.
AnswerNothing == NextRound /\ End("answered")

CallFails == NextRound /\ End("error")

\* The streamed call, which may turn to tools.
StreamProse ==
  /\ pc = "stream"
  /\ pc' = "call" /\ prose' = prose + 1
  /\ UNCHANGED <<streaming, iter, state, stateIter, searches, reads, toolVars,
                 left>>

StreamCalls(n) ==
  /\ pc = "stream"
  /\ pc' = "tools" /\ left' = n
  /\ UNCHANGED <<streaming, iter, stateVars, toolVars>>

StreamFails == pc = "stream" /\ End("error") /\ UNCHANGED iter

-------------------------------------------------------------------------------
(* The tool calls of an answer, in their order.                            *)

Treat ==
  /\ pc = "tools" /\ left > 0
  /\ left' = left - 1
  /\ UNCHANGED <<pc, streaming, iter>>

\* A change of state starts its counters anew.
Enter(s) ==
  /\ state' = s
  /\ stateIter' = 0 /\ searches' = 0 /\ reads' = 0 /\ prose' = 0

CallDone ==
  /\ pc = "tools" /\ left > 0
  /\ End("done") /\ UNCHANGED iter

Block ==
  /\ state \in Closed
  /\ Treat
  /\ UNCHANGED <<stateVars, toolVars>>

\* A file or a query that was asked for before: the second such call in a row
\* ends the search.
Repeat(t) ==
  /\ state \notin Closed /\ t \in seen
  /\ Treat
  /\ dedups' = dedups + 1
  /\ IF dedups' >= 2 THEN Enter("synthesizing") ELSE UNCHANGED stateVars
  /\ UNCHANGED <<seen, ran>>

\* fts_search, grep, list_index and ls search, read_file and table_extract
\* read; either returns to its state from the other.
Searched ==
  IF state # "searching"
    THEN /\ state' = "searching" /\ searches' = 1
         /\ stateIter' = 0 /\ reads' = 0 /\ prose' = 0
    ELSE searches' = searches + 1
         /\ UNCHANGED <<state, stateIter, reads, prose>>

HasRead ==
  IF state # "reading"
    THEN /\ state' = "reading" /\ reads' = 1
         /\ stateIter' = 0 /\ searches' = 0 /\ prose' = 0
    ELSE reads' = reads + 1 /\ UNCHANGED <<state, stateIter, searches, prose>>

\* Mistake: the call is not remembered.
FirstUnrecorded(t) ==
  /\ state \notin Closed /\ t \notin seen
  /\ Treat
  /\ dedups' = 0 /\ seen' = seen
  /\ ran' = [ran EXCEPT ![t] = @ + 1]

First(t) ==
  /\ state \notin Closed /\ t \notin seen
  /\ Treat
  /\ dedups' = 0
  /\ seen' = seen \cup {t}
  /\ ran' = [ran EXCEPT ![t] = @ + 1]

FtsSearch(q) == First(q) /\ Searched
ReadFile(f) == First(f) /\ HasRead

\* The tools whose repetition is not looked for; calc leaves the state alone.
OtherTool ==
  /\ state \notin Closed
  /\ Treat
  /\ Searched \/ HasRead \/ UNCHANGED stateVars
  /\ UNCHANGED toolVars

\* The tool raises; or an argument is not of the type the loop relies on, and
\* the exception leaves run_stream.
ToolFails ==
  /\ pc = "tools" /\ left > 0
  /\ \/ state \notin Closed /\ End("error")
     \/ End("raised")
  /\ UNCHANGED iter

-------------------------------------------------------------------------------
(* The end of a round with tool calls.                                     *)

\* Mistake: only rounds are limited.
LimitReachedByRounds == stateIter >= Limit[state]

LimitReached ==
  \/ stateIter >= Limit[state]
  \/ state = "searching" /\ searches >= SearchLimit
  \/ state = "reading" /\ reads >= ReadLimit

CheckLimits ==
  /\ pc = "tools" /\ left = 0
  /\ \/ /\ ~LimitReached
        /\ pc' = "call" /\ UNCHANGED stateVars
     \/ /\ LimitReached /\ state = "searching"
        /\ pc' = "call" /\ Enter("reading")
     \/ /\ LimitReached /\ state = "reading"
        /\ pc' = "call" /\ Enter("synthesizing")
     \/ /\ LimitReached /\ state = "synthesizing"
        /\ pc' = "exhausted" /\ state' = "done"
        /\ UNCHANGED <<stateIter, searches, reads, prose>>
  /\ UNCHANGED <<streaming, iter, toolVars, left>>

\* Mistake: off by one.
BudgetExhaustedLate ==
  /\ pc = "call" /\ iter > MaxIterations
  /\ End("exhausted") /\ UNCHANGED iter

BudgetExhausted ==
  /\ pc = "call" /\ iter >= MaxIterations
  /\ End("exhausted") /\ UNCHANGED iter

-------------------------------------------------------------------------------
Next ==
  \/ \E n \in 1 .. MaxCalls : AnswerCalls(n) \/ StreamCalls(n)
  \/ AnswerProse \/ AnswerNothing \/ CallFails
  \/ StreamProse \/ StreamFails
  \/ CallDone \/ Block \/ OtherTool \/ ToolFails
  \/ \E t \in Files \cup Queries : Repeat(t)
  \/ \E q \in Queries : FtsSearch(q)
  \/ \E f \in Files : ReadFile(f)
  \/ CheckLimits \/ BudgetExhausted

Spec == Init /\ [][Next]_vars

\* Calls of the model and of the tools return: the first has a timeout
\* (OLLAMA_TIMEOUT), the second work on local files.
FairSpec == Spec /\ WF_vars(Next)

-------------------------------------------------------------------------------
(* Properties.                                                             *)

\* Between two rounds no state has had more rounds than its limit, its rounds
\* of mere prose left out, nor more searches or reads: the tool calls of one
\* answer may pass a limit, the next answer comes in another state.
StateLimits ==
  pc = "call" =>
    /\ stateIter - prose < Limit[state]
    /\ state = "searching" => searches < SearchLimit
    /\ state = "reading" => reads < ReadLimit

\* README.md:39: no file is read and no query run a second time, whatever
\* states the run goes through.
NoRepetition == \A t \in Files \cup Queries : ran[t] <= 1

\* Once the model is told to answer it stays told: no later tool call, not even
\* one of the same answer, takes the run back to searching or reading.
SynthesisIsFinal ==
  [][(state \in Closed) => (state' \in Closed /\ UNCHANGED <<seen, ran>>)]_vars

\* Whatever the model does, the run ends.
RunEnds == <>(pc \in Ends)
===============================================================================
