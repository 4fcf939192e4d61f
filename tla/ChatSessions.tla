----------------------------- MODULE ChatSessions -----------------------------
(***************************************************************************)
(* A chat session (app/agent/routes.py, app/agent/history.py) and the      *)
(* browser tabs that show it (app/web/static/chat.js): questions asked from*)
(* several tabs, by an htmx form or as a stream, while connections break,  *)
(* the session is deleted or its collection is shared no longer.           *)
(*                                                                         *)
(* The handlers share one event loop, so an action of the server is the    *)
(* code between two awaits; the run of the agent (module AgentLoop) is the *)
(* await in between.                                                       *)
(***************************************************************************)
EXTENDS Naturals, Sequences, FiniteSets

CONSTANTS
  Tabs,
  Questions,    \* each is asked once; typing it again makes it another one
  NoQuestion,
  Old,          \* what a session from before the turns table holds
  MaxRequests,  \* bound: requests sent
  MaxBreaks,    \* bound: connections that break
  MaxFaults     \* bound: handlers that raise

ASSUME QuestionsAssumption ==
  /\ NoQuestion \notin Questions /\ Old \notin Questions
ASSUME BoundsAssumption ==
  MaxRequests \in Nat /\ MaxBreaks \in Nat /\ MaxFaults \in Nat

VARIABLES
  session,  \* the row of sessions
  legacy,   \* its history_json has a history
  turns,    \* its rows of turns, in the order of turn_index: the questions
  access,   \* resolve_collection still finds the collection
  reqs,     \* the requests sent so far
  tabs,     \* what each tab shows and waits for
  breaks,
  faults,
  missed    \* history: the questions whose own request failed to bring the old
            \* history over

dbVars == <<session, legacy, turns, access>>
vars == <<dbVars, reqs, tabs, breaks, faults, missed>>

Kinds == {"start", "post", "stream", "continue", "stop"}
Streamed == {"stream", "continue"}
\* "running": awaiting the agent; "ended": nothing left to hear; the others are
\* responses the browser has not seen: a turn, a budget_exhausted event, an
\* error event or a redirect, a broken response.
Answers == {"answered", "exhausted", "refused", "failed"}
Progress == {"sent", "running", "ended"} \cup Answers

\* live: the browser is still connected.
Requests == [kind : Kinds, q : Questions, at : Progress, live : BOOLEAN]

\* page: "chat" is the page of the session.  bound: chat.js found the form when
\* the page was loaded, and streams its questions.  send: the button can be
\* used.  wait: the request waited for, 0 for none.  choice: the question whose
\* budget ran out, with the two buttons "Keep looking" and "Stop" on view.
TabStates == [page : {"collection", "chat", "elsewhere"},
              bound : BOOLEAN, send : BOOLEAN,
              wait : 0 .. MaxRequests, choice : Questions \cup {NoQuestion}]

TypeOK ==
  /\ session \in {"none", "open", "deleted"}
  /\ legacy \in BOOLEAN /\ access \in BOOLEAN
  /\ turns \in Seq(Questions \cup {Old})
  /\ reqs \in Seq(Requests) /\ Len(reqs) <= MaxRequests
  /\ tabs \in [Tabs -> TabStates]
  /\ breaks \in 0 .. MaxBreaks /\ faults \in 0 .. MaxFaults
  /\ missed \subseteq Questions

\* A page as it is loaded; only a page of its own binds chat.js to its form.
Page(name, own) ==
  [page |-> name, bound |-> own, send |-> TRUE, wait |-> 0,
   choice |-> NoQuestion]

\* Either nobody has asked yet, or there is a session, from before or after the
\* turns table.
Init ==
  /\ session \in {"none", "open"}
  /\ legacy \in BOOLEAN /\ (legacy => session = "open")
  /\ turns = <<>> /\ access = TRUE
  /\ reqs = <<>>
  /\ tabs = [t \in Tabs |-> Page("collection", FALSE)]
  /\ breaks = 0 /\ faults = 0 /\ missed = {}

-------------------------------------------------------------------------------
(* Requests.                                                               *)

Send(kind, q) ==
  /\ Len(reqs) < MaxRequests
  /\ reqs' = Append(reqs, [kind |-> kind, q |-> q, at |-> "sent",
                           live |-> TRUE])

\* A tab sends a request and waits for it; its button stays as it is told.
SendFrom(t, kind, q, send) ==
  /\ Send(kind, q)
  /\ tabs' = [tabs EXCEPT ![t].wait = Len(reqs) + 1, ![t].send = send,
                          ![t].choice = NoQuestion]

Fresh(q) == \A i \in DOMAIN reqs : reqs[i].q # q
Becomes(i, at) == reqs' = [reqs EXCEPT ![i].at = at]

\* Mistake: history_json is looked at only if nothing else was stored, and
\* that is not brought over.
LoadHistoryOnly == UNCHANGED turns

\* load_history: a history from before the turns table is brought over once.
LoadHistory == turns' = IF turns = <<>> /\ legacy THEN <<Old>> ELSE turns

\* An insert raises while it is brought over: all is rolled back and nobody is
\* told.  load_history returns the old history as if it were stored, and its
\* caller goes on.
BackfillFails == turns = <<>> /\ legacy /\ UNCHANGED turns

\* append_turn: the next turn_index, whatever became of the session.
AppendTurn(q) == turns' = Append(turns, q)

-------------------------------------------------------------------------------
(* The browser.                                                            *)

\* The form of the collection page.
Start(t, q) ==
  /\ tabs[t].page = "collection" /\ tabs[t].wait = 0 /\ session = "none"
  /\ Fresh(q) /\ \A i \in DOMAIN reqs : reqs[i].kind # "start"
  /\ SendFrom(t, "start", q, FALSE)
  /\ UNCHANGED <<dbVars, breaks, faults, missed>>

\* The page of the session is opened, or loaded anew, which drops the
\* connection the tab had.
Drop(t) ==
  reqs' = IF tabs[t].wait = 0 THEN reqs
          ELSE [reqs EXCEPT ![tabs[t].wait].live = FALSE]

Open(t) ==
  /\ Drop(t)
  /\ \/ /\ session = "open"
        /\ LoadHistory \/ BackfillFails
        /\ tabs' = [tabs EXCEPT ![t] = Page("chat", TRUE)]
     \/ /\ session = "deleted"
        /\ tabs' = [tabs EXCEPT ![t] = Page("elsewhere", FALSE)]
        /\ UNCHANGED turns
  /\ UNCHANGED <<session, legacy, access, breaks, faults, missed>>

\* The chat form, or a suggestion, which presses its button.  A bound form
\* disables the button itself and streams, another one leaves both to htmx.
Ask(t, q) ==
  /\ tabs[t].page = "chat" /\ tabs[t].send /\ tabs[t].wait = 0
  /\ Fresh(q)
  /\ SendFrom(t, IF tabs[t].bound THEN "stream" ELSE "post", q, FALSE)
  /\ UNCHANGED <<dbVars, breaks, faults, missed>>

KeepLooking(t) ==
  /\ tabs[t].choice # NoQuestion
  /\ SendFrom(t, "continue", tabs[t].choice, tabs[t].send)
  /\ UNCHANGED <<dbVars, breaks, faults, missed>>

\* Mistake: the button is there although nothing ran out.
StopLookingAnytime(t) ==
  /\ tabs[t].page = "chat" /\ tabs[t].wait = 0
  /\ SendFrom(t, "stop", tabs[t].choice, tabs[t].send)
  /\ UNCHANGED <<dbVars, breaks, faults, missed>>

StopLooking(t) ==
  /\ tabs[t].choice # NoQuestion
  /\ SendFrom(t, "stop", tabs[t].choice, tabs[t].send)
  /\ UNCHANGED <<dbVars, breaks, faults, missed>>

\* The tab hears no more of its request.
Settle(t, choice, enabled) ==
  tabs' = [tabs EXCEPT ![t].wait = 0, ![t].choice = choice,
                       ![t].send = @ \/ enabled]

\* htmx enables the button again; the success path of submitStreaming, which
\* disabled it, does not.
ByHtmx(i) == reqs[i].kind \in {"start", "post"}

\* The response is not one: the question of a stream is asked again with a
\* plain POST, a continued one is given up with a message.
Fails(t, i) ==
  IF reqs[i].kind = "stream" /\ Len(reqs) < MaxRequests
    THEN /\ reqs' = Append([reqs EXCEPT ![i].live = FALSE],
                           [kind |-> "post", q |-> reqs[i].q, at |-> "sent",
                            live |-> TRUE])
         /\ tabs' = [tabs EXCEPT ![t].wait = Len(reqs) + 1]
    ELSE /\ reqs' = [reqs EXCEPT ![i].live = FALSE]
         /\ Settle(t, NoQuestion, ByHtmx(i) \/ reqs[i].kind = "stream")

\* The answer arrives.  Error events are not handled: the stream just ends.
Deliver(t) ==
  LET i == tabs[t].wait IN
  /\ i # 0
  /\ \/ /\ reqs[i].at \in {"answered", "refused"}
        /\ Becomes(i, "ended")
        /\ IF reqs[i].kind = "start"
             THEN tabs' = [tabs EXCEPT ![t] =
                             Page(IF reqs[i].at = "answered" THEN "chat"
                                  ELSE "elsewhere", FALSE)]
             ELSE Settle(t, NoQuestion, ByHtmx(i))
     \/ /\ reqs[i].at = "exhausted"
        /\ Becomes(i, "ended")
        /\ Settle(t, reqs[i].q, FALSE)
     \/ reqs[i].at = "failed" /\ Fails(t, i)
  /\ UNCHANGED <<dbVars, breaks, faults, missed>>

\* The connection breaks under a request, before or after its last event was
\* written: the browser cannot tell.
Break(t) ==
  LET i == tabs[t].wait IN
  /\ i # 0 /\ breaks < MaxBreaks
  /\ breaks' = breaks + 1
  /\ Fails(t, i)
  /\ UNCHANGED <<dbVars, faults, missed>>

-------------------------------------------------------------------------------
(* The server.                                                             *)

\* The session and the owner of its collection are looked up, and the history
\* read, before the agent runs.
ReceiveStart(i) ==
  /\ reqs[i].kind = "start" /\ reqs[i].at = "sent"
  /\ \/ /\ access /\ session = "none"
        /\ session' = "open"
        /\ Becomes(i, "running")
     \/ /\ ~access
        /\ Becomes(i, "refused") /\ UNCHANGED session
  /\ UNCHANGED <<legacy, turns, access, tabs, breaks, faults, missed>>

ReceiveQuestion(i) ==
  /\ reqs[i].kind \in {"post", "stream", "continue"} /\ reqs[i].at = "sent"
  /\ \/ /\ session = "open"
        /\ \/ LoadHistory /\ UNCHANGED missed
           \/ BackfillFails /\ missed' = missed \cup {reqs[i].q}
        /\ Becomes(i, IF access THEN "running" ELSE "refused")
     \/ /\ session # "open"
        /\ Becomes(i, "refused") /\ UNCHANGED <<turns, missed>>
  /\ UNCHANGED <<session, legacy, access, tabs, breaks, faults>>

\* Mistake: the session is not looked up.
ReceiveAnyStop(i) ==
  /\ reqs[i].kind = "stop" /\ reqs[i].at = "sent"
  /\ AppendTurn(reqs[i].q) /\ Becomes(i, "answered")
  /\ UNCHANGED <<session, legacy, access, tabs, breaks, faults, missed>>

\* stop_session stores what the run had found, without running anything and
\* without a look at the collection.
ReceiveStop(i) ==
  /\ reqs[i].kind = "stop" /\ reqs[i].at = "sent"
  /\ \/ session = "open" /\ AppendTurn(reqs[i].q) /\ Becomes(i, "answered")
     \/ session # "open" /\ UNCHANGED turns /\ Becomes(i, "refused")
  /\ UNCHANGED <<session, legacy, access, tabs, breaks, faults, missed>>

Running(i) == reqs[i].at = "running"
KeepsRest == UNCHANGED <<session, legacy, access, tabs, breaks, missed>>

\* AgentLoop.run turns every end of a run into an answer.  The session is not
\* looked up again.
PostAnswers(i) ==
  /\ Running(i) /\ reqs[i].kind \in {"start", "post"}
  /\ AppendTurn(reqs[i].q)
  /\ Becomes(i, "answered")
  /\ KeepsRest /\ UNCHANGED faults

StreamAnswers(i) ==
  /\ Running(i) /\ reqs[i].kind \in Streamed
  /\ AppendTurn(reqs[i].q)
  /\ Becomes(i, "answered")
  /\ KeepsRest /\ UNCHANGED faults

\* Mistake: the answer found so far is stored although it is offered too.
StreamExhaustedStored(i) ==
  /\ Running(i) /\ reqs[i].kind \in Streamed
  /\ AppendTurn(reqs[i].q)
  /\ Becomes(i, "exhausted")
  /\ KeepsRest /\ UNCHANGED faults

\* No turn is stored while the user may go on.
StreamExhausted(i) ==
  /\ Running(i) /\ reqs[i].kind \in Streamed
  /\ Becomes(i, "exhausted")
  /\ KeepsRest /\ UNCHANGED <<turns, faults>>

StreamErrs(i) ==
  /\ Running(i) /\ reqs[i].kind \in Streamed
  /\ Becomes(i, "refused")
  /\ KeepsRest /\ UNCHANGED <<turns, faults>>

\* A connection, the run, the turn or the usage log raises.  A stream stores its
\* turn before it writes the log, a POST after.
Raises(i) ==
  /\ reqs[i].at \in {"sent", "running"} /\ faults < MaxFaults
  /\ faults' = faults + 1
  /\ \/ UNCHANGED turns
     \/ Running(i) /\ reqs[i].kind \in Streamed /\ AppendTurn(reqs[i].q)
  /\ Becomes(i, "failed")
  /\ KeepsRest

\* Mistake: a stream is cancelled although its tab listens.
CancelAny(i) ==
  /\ Running(i) /\ reqs[i].kind \in Streamed
  /\ Becomes(i, "ended")
  /\ KeepsRest /\ UNCHANGED <<turns, faults>>

\* A stream nobody listens to is cancelled at an await of the agent; a POST is
\* not.
Cancel(i) ==
  /\ Running(i) /\ reqs[i].kind \in Streamed /\ ~reqs[i].live
  /\ Becomes(i, "ended")
  /\ KeepsRest /\ UNCHANGED <<turns, faults>>

\* delete_session, or delete_collection by its owner.
DeleteSession ==
  /\ session = "open"
  /\ session' = "deleted" /\ turns' = <<>> /\ legacy' = FALSE
  /\ UNCHANGED <<access, reqs, tabs, breaks, faults, missed>>

\* The collection is shared no longer, or deleted by another owner.
Unshare ==
  /\ access /\ access' = FALSE
  /\ UNCHANGED <<session, legacy, turns, reqs, tabs, breaks, faults, missed>>

-------------------------------------------------------------------------------
Serve(i) ==
  \/ ReceiveStart(i) \/ ReceiveQuestion(i) \/ ReceiveStop(i)
  \/ PostAnswers(i) \/ StreamAnswers(i) \/ StreamExhausted(i) \/ StreamErrs(i)
  \/ Cancel(i)

Next ==
  \/ \E t \in Tabs :
       \/ \E q \in Questions : Start(t, q) \/ Ask(t, q)
       \/ Open(t) \/ KeepLooking(t) \/ StopLooking(t)
       \/ Deliver(t) \/ Break(t)
  \/ \E i \in DOMAIN reqs : Serve(i) \/ Raises(i)
  \/ DeleteSession \/ Unshare

Spec == Init /\ [][Next]_vars

\* The server works on every request (a run ends: AgentLoop!RunEnds) and what
\* it writes arrives, or the connection breaks.
Fairness ==
  /\ \A i \in 1 .. MaxRequests : WF_vars(i \in DOMAIN reqs /\ Serve(i))
  /\ \A t \in Tabs : WF_vars(Deliver(t))

FairSpec == Spec /\ Fairness

-------------------------------------------------------------------------------
(* Properties.                                                             *)

Times(q) == Cardinality({n \in DOMAIN turns : turns[n] = q})

\* A question is in the history once, whether it was continued, stopped, or
\* the page loaded anew while it ran; a second turn has its cause in a
\* connection or a handler that broke, and there is never a third.
DuplicatesHaveCauses ==
  \A q \in Questions : Times(q) <= 1 + breaks + faults /\ Times(q) <= 2

\* A history from before the turns table is brought over once, before the first
\* turn, by whichever request or page came first.  The one thing that hides it
\* is a question whose own request tried to bring it over and could not: the
\* failure is swallowed and the question becomes the first turn.
LegacyKept ==
  legacy /\ turns # <<>> =>
    /\ turns[1] = Old \/ turns[1] \in missed
    /\ \A n \in DOMAIN turns \ {1} : turns[n] # Old

\* Once a session is deleted no request begins to run in it, and nothing is
\* stored but by runs that were in progress.
DeletedTakesNothingNew ==
  [][session = "deleted" =>
       \A i \in DOMAIN reqs :
         /\ reqs[i].at = "sent" => reqs'[i].at # "running"
         /\ turns' # turns =>
              \E k \in DOMAIN reqs : Running(k) /\ reqs'[k].at # "running"]_vars

\* No tab waits for ever: every request ends in something the tab can see, or
\* is asked again a bounded number of times.
TabsSettle == \A t \in Tabs : tabs[t].wait # 0 ~> tabs[t].wait = 0
===============================================================================
