--------------------------- MODULE ChatSessionsProofs ---------------------------
(***************************************************************************)
(* Theorems about ChatSessions, for any tabs, questions and bounds.        *)
(***************************************************************************)
EXTENDS ChatSessions, SequenceTheorems, FiniteSetTheorems, TLAPS

USE QuestionsAssumption, BoundsAssumption

\* One action per step of the browser or the server: the proofs below split on
\* them.
LEMMA NextCases ==
  ASSUME Next
  PROVE  \/ \E t \in Tabs, q \in Questions : Start(t, q) \/ Ask(t, q)
         \/ \E t \in Tabs : Open(t) \/ KeepLooking(t) \/ StopLooking(t)
         \/ \E t \in Tabs : Deliver(t) \/ Break(t)
         \/ \E i \in DOMAIN reqs : ReceiveStart(i) \/ ReceiveQuestion(i)
         \/ \E i \in DOMAIN reqs : ReceiveStop(i)
         \/ \E i \in DOMAIN reqs : PostAnswers(i) \/ StreamAnswers(i)
         \/ \E i \in DOMAIN reqs : StreamExhausted(i) \/ StreamErrs(i)
         \/ \E i \in DOMAIN reqs : Cancel(i) \/ Raises(i)
         \/ DeleteSession \/ Unshare
  BY DEF Next, Serve

-------------------------------------------------------------------------------
(* What a step does to the requests.                                       *)

LEMMA ReqsAre ==
  ASSUME TypeOK
  PROVE  /\ Len(reqs) \in Nat /\ DOMAIN reqs = 1 .. Len(reqs)
         /\ Len(reqs) <= MaxRequests
         /\ \A i \in DOMAIN reqs : reqs[i] \in Requests
BY LenProperties, ElementOfSeq DEF TypeOK

LEMMA BecomesIs ==
  ASSUME TypeOK, NEW i \in DOMAIN reqs, NEW at \in Progress, Becomes(i, at)
  PROVE  /\ reqs' \in Seq(Requests)
         /\ Len(reqs') = Len(reqs) /\ DOMAIN reqs' = DOMAIN reqs
         /\ reqs'[i].at = at
         /\ \A k \in DOMAIN reqs :
              /\ reqs'[k].kind = reqs[k].kind /\ reqs'[k].q = reqs[k].q
              /\ k # i => reqs'[k] = reqs[k]
<1> DEFINE r == [reqs[i] EXCEPT !.at = at]
<1>1. /\ reqs' = [reqs EXCEPT ![i] = r] /\ r \in Requests
      /\ r.at = at /\ r.kind = reqs[i].kind /\ r.q = reqs[i].q
  BY ReqsAre DEF Becomes, Requests
<1>2. i \in 1 .. Len(reqs) /\ reqs \in Seq(Requests)
  BY ReqsAre DEF TypeOK
<1> HIDE DEF r
<1>3. /\ reqs' \in Seq(Requests) /\ Len(reqs') = Len(reqs)
      /\ \A k \in 1 .. Len(reqs) : reqs'[k] = IF k = i THEN r ELSE reqs[k]
  BY <1>1, <1>2, ExceptSeq
<1>4. DOMAIN reqs' = DOMAIN reqs
  BY <1>3, LenProperties, ReqsAre
<1> QED
  BY <1>1, <1>2, <1>3, <1>4, ReqsAre

LEMMA SendIs ==
  ASSUME TypeOK, NEW kind \in Kinds, NEW q \in Questions, Send(kind, q)
  PROVE  /\ reqs' \in Seq(Requests)
         /\ Len(reqs') = Len(reqs) + 1 /\ Len(reqs') <= MaxRequests
         /\ DOMAIN reqs' = DOMAIN reqs \cup {Len(reqs) + 1}
         /\ Len(reqs) + 1 \notin DOMAIN reqs
         /\ reqs'[Len(reqs) + 1].kind = kind /\ reqs'[Len(reqs) + 1].q = q
         /\ reqs'[Len(reqs) + 1].at = "sent"
         /\ \A k \in DOMAIN reqs : reqs'[k] = reqs[k]
<1> DEFINE r == [kind |-> kind, q |-> q, at |-> "sent", live |-> TRUE]
<1>1. reqs' = Append(reqs, r) /\ r \in Requests /\ Len(reqs) < MaxRequests
  BY DEF Send, Requests, Progress
<1>2. reqs \in Seq(Requests)
  BY DEF TypeOK
<1> HIDE DEF r
<1>3. /\ reqs' \in Seq(Requests) /\ Len(reqs') = Len(reqs) + 1
      /\ reqs'[Len(reqs) + 1] = r
      /\ \A k \in 1 .. Len(reqs) : reqs'[k] = reqs[k]
  BY <1>1, <1>2, AppendProperties
<1>4. DOMAIN reqs' = 1 .. Len(reqs')
  BY <1>3, LenProperties
<1> QED
  BY <1>1, <1>3, <1>4, ReqsAre DEF r

\* A connection that is dropped changes nothing the server goes by but that.
LEMMA DropsIs ==
  ASSUME TypeOK, NEW i \in DOMAIN reqs,
         NEW dropped, dropped = [reqs EXCEPT ![i].live = FALSE]
  PROVE  /\ dropped \in Seq(Requests)
         /\ Len(dropped) = Len(reqs) /\ DOMAIN dropped = DOMAIN reqs
         /\ \A k \in DOMAIN reqs :
              /\ dropped[k].kind = reqs[k].kind /\ dropped[k].q = reqs[k].q
              /\ dropped[k].at = reqs[k].at
<1> DEFINE r == [reqs[i] EXCEPT !.live = FALSE]
<1>1. /\ dropped = [reqs EXCEPT ![i] = r] /\ r \in Requests
      /\ r.kind = reqs[i].kind /\ r.q = reqs[i].q /\ r.at = reqs[i].at
  BY ReqsAre DEF Requests
<1>2. i \in 1 .. Len(reqs) /\ reqs \in Seq(Requests)
  BY ReqsAre DEF TypeOK
<1> HIDE DEF r
<1>3. /\ dropped \in Seq(Requests) /\ Len(dropped) = Len(reqs)
      /\ \A k \in 1 .. Len(reqs) : dropped[k] = IF k = i THEN r ELSE reqs[k]
  <2>1. /\ [reqs EXCEPT ![i] = r] \in Seq(Requests)
        /\ Len([reqs EXCEPT ![i] = r]) = Len(reqs)
        /\ \A k \in 1 .. Len(reqs) :
             [reqs EXCEPT ![i] = r][k] = IF k = i THEN r ELSE reqs[k]
    BY <1>1, <1>2, ExceptSeq
  <2> QED
    BY <1>1, <2>1
<1>4. DOMAIN dropped = 1 .. Len(dropped)
  BY <1>3, LenProperties
<1> QED
  BY <1>1, <1>3, <1>4, ReqsAre

\* What Fails does: a new request to ask again, or an end of the waiting.
LEMMA FailsIs ==
  ASSUME TypeOK, NEW t \in Tabs, NEW i \in DOMAIN reqs, Fails(t, i)
  PROVE  /\ reqs' \in Seq(Requests)
         /\ \A k \in DOMAIN reqs :
              /\ k \in DOMAIN reqs'
              /\ reqs'[k].kind = reqs[k].kind /\ reqs'[k].q = reqs[k].q
              /\ reqs'[k].at = reqs[k].at
         /\ \/ /\ reqs[i].kind = "stream"
               /\ Len(reqs') = Len(reqs) + 1 /\ Len(reqs') <= MaxRequests
               /\ DOMAIN reqs' = DOMAIN reqs \cup {Len(reqs) + 1}
               /\ Len(reqs) + 1 \notin DOMAIN reqs
               /\ reqs'[Len(reqs) + 1].kind = "post"
               /\ reqs'[Len(reqs) + 1].q = reqs[i].q
               /\ reqs'[Len(reqs) + 1].at = "sent"
               /\ tabs' = [tabs EXCEPT ![t].wait = Len(reqs) + 1]
            \/ /\ Len(reqs') = Len(reqs) /\ DOMAIN reqs' = DOMAIN reqs
               /\ \E b \in BOOLEAN : Settle(t, NoQuestion, b)
<1> DEFINE dropped == [reqs EXCEPT ![i].live = FALSE]
           post == [kind |-> "post", q |-> reqs[i].q, at |-> "sent",
                    live |-> TRUE]
<1>1. /\ dropped \in Seq(Requests)
      /\ Len(dropped) = Len(reqs) /\ DOMAIN dropped = DOMAIN reqs
      /\ \A k \in DOMAIN reqs :
           /\ dropped[k].kind = reqs[k].kind /\ dropped[k].q = reqs[k].q
           /\ dropped[k].at = reqs[k].at
  BY DropsIs
<1>2. /\ post \in Requests
      /\ post.kind = "post" /\ post.q = reqs[i].q /\ post.at = "sent"
  BY ReqsAre DEF Requests, Kinds, Progress
<1>3. CASE /\ reqs[i].kind = "stream" /\ Len(reqs) < MaxRequests
           /\ reqs' = Append(dropped, post)
           /\ tabs' = [tabs EXCEPT ![t].wait = Len(reqs) + 1]
  <2> HIDE DEF dropped, post
  <2>1. /\ reqs' \in Seq(Requests) /\ Len(reqs') = Len(reqs) + 1
        /\ reqs'[Len(reqs) + 1] = post
        /\ \A k \in 1 .. Len(reqs) : reqs'[k] = dropped[k]
    <3>1. /\ Append(dropped, post) \in Seq(Requests)
          /\ Len(Append(dropped, post)) = Len(dropped) + 1
          /\ Append(dropped, post)[Len(dropped) + 1] = post
          /\ \A k \in 1 .. Len(dropped) : Append(dropped, post)[k] = dropped[k]
      BY <1>1, <1>2, AppendProperties
    <3> QED
      BY <1>1, <1>3, <3>1
  <2>2. DOMAIN reqs' = 1 .. Len(reqs')
    BY <2>1, LenProperties
  <2>3. DOMAIN reqs' = DOMAIN reqs \cup {Len(reqs) + 1} /\ Len(reqs) + 1 \notin DOMAIN reqs
    BY <2>1, <2>2, ReqsAre
  <2>4. \A k \in DOMAIN reqs : reqs'[k] = dropped[k]
    BY <2>1, ReqsAre
  <2>5. Len(reqs') <= MaxRequests
    BY <1>3, <2>1, ReqsAre
  <2> QED
    BY <1>1, <1>2, <1>3, <2>1, <2>3, <2>4, <2>5
<1>4. CASE reqs' = dropped /\ \E b \in BOOLEAN : Settle(t, NoQuestion, b)
  BY <1>1, <1>4
<1> QED
  BY <1>3, <1>4 DEF Fails, ByHtmx

LEMMA TabsAre ==
  ASSUME TypeOK
  PROVE  /\ \A t \in Tabs : tabs[t] \in TabStates /\ tabs[t].wait \in Nat
         /\ \A t \in Tabs, p \in TabStates : [tabs EXCEPT ![t] = p] \in [Tabs -> TabStates]
BY DEF TypeOK, TabStates

\* A tab waits for a request that was sent, and no two for the same.
WaitsRight ==
  /\ \A t \in Tabs : tabs[t].wait <= Len(reqs)
  /\ \A t, u \in Tabs : tabs[t].wait = tabs[u].wait /\ t # u => tabs[t].wait = 0

-------------------------------------------------------------------------------
(* Type correctness.                                                       *)

LEMMA PageTyped ==
  ASSUME NEW name \in {"collection", "chat", "elsewhere"}, NEW own \in BOOLEAN
  PROVE  Page(name, own) \in TabStates
BY DEF Page, TabStates

LEMMA SentTyped ==
  ASSUME TypeOK, NEW t \in Tabs, NEW kind \in Kinds, NEW q \in Questions,
         NEW send \in BOOLEAN, SendFrom(t, kind, q, send)
  PROVE  /\ reqs' \in Seq(Requests) /\ Len(reqs') <= MaxRequests
         /\ tabs' \in [Tabs -> TabStates]
<1>1. Send(kind, q)
  BY DEF SendFrom
<1>2. Len(reqs) + 1 \in 0 .. MaxRequests
  BY <1>1, ReqsAre DEF Send
<1> DEFINE s == [tabs[t] EXCEPT !.wait = Len(reqs) + 1, !.send = send,
                                !.choice = NoQuestion]
<1>3. s \in TabStates
  BY <1>2, TabsAre DEF TabStates
<1>4. tabs' = [tabs EXCEPT ![t] = s]
  BY TabsAre DEF SendFrom, TypeOK, TabStates
<1>5. tabs' \in [Tabs -> TabStates]
  BY <1>3, <1>4, TabsAre
<1> QED
  BY <1>1, <1>5, SendIs

LEMMA SettleTyped ==
  ASSUME TypeOK, NEW t \in Tabs, NEW choice \in Questions \cup {NoQuestion},
         NEW enabled \in BOOLEAN, Settle(t, choice, enabled)
  PROVE  tabs' \in [Tabs -> TabStates]
<1>0. PICK b \in BOOLEAN : b = (tabs[t].send \/ enabled)
  OBVIOUS
<1> DEFINE s == [tabs[t] EXCEPT !.wait = 0, !.choice = choice, !.send = b]
<1>1. s \in TabStates
  <2>1. 0 \in 0 .. MaxRequests
    OBVIOUS
  <2>2. tabs[t] \in TabStates
    BY TabsAre
  <2> QED
    BY <2>1, <2>2 DEF TabStates
<1>2. tabs' = [tabs EXCEPT ![t] = s]
  BY <1>0, TabsAre DEF Settle, TypeOK, TabStates
<1> QED
  BY <1>1, <1>2, TabsAre

LEMMA FailsTyped ==
  ASSUME TypeOK, NEW t \in Tabs, NEW i \in DOMAIN reqs, Fails(t, i)
  PROVE  /\ reqs' \in Seq(Requests) /\ Len(reqs') <= MaxRequests
         /\ tabs' \in [Tabs -> TabStates]
<1>1. CASE /\ Len(reqs') = Len(reqs) + 1 /\ Len(reqs') <= MaxRequests
           /\ tabs' = [tabs EXCEPT ![t].wait = Len(reqs) + 1]
  <2> DEFINE s == [tabs[t] EXCEPT !.wait = Len(reqs) + 1]
  <2>1. Len(reqs) + 1 \in 0 .. MaxRequests
    BY <1>1, ReqsAre
  <2>2. s \in TabStates
    BY <2>1, TabsAre DEF TabStates
  <2>3. tabs' = [tabs EXCEPT ![t] = s]
    BY <1>1, TabsAre DEF TypeOK, TabStates
  <2>4. tabs' \in [Tabs -> TabStates]
    BY <2>2, <2>3, TabsAre
  <2> QED
    BY <1>1, <2>4, FailsIs
<1>2. CASE Len(reqs') = Len(reqs) /\ \E b \in BOOLEAN : Settle(t, NoQuestion, b)
  BY <1>2, SettleTyped, FailsIs, ReqsAre
<1> QED
  BY <1>1, <1>2, FailsIs

LEMMA TurnsTyped ==
  ASSUME TypeOK
  PROVE  /\ LoadHistory => turns' \in Seq(Questions \cup {Old})
         /\ \A q \in Questions : AppendTurn(q) => turns' \in Seq(Questions \cup {Old})
<1>1. turns \in Seq(Questions \cup {Old})
  BY DEF TypeOK
<1>2. <<Old>> \in Seq(Questions \cup {Old})
  OBVIOUS
<1>3. LoadHistory => turns' \in Seq(Questions \cup {Old})
  BY <1>1, <1>2 DEF LoadHistory
<1>4. ASSUME NEW q \in Questions, AppendTurn(q)
      PROVE  turns' \in Seq(Questions \cup {Old})
  BY <1>1, <1>4, AppendProperties DEF AppendTurn
<1> QED
  BY <1>3, <1>4

LEMMA WaitingFor ==
  ASSUME TypeOK, WaitsRight, NEW t \in Tabs, tabs[t].wait # 0
  PROVE  tabs[t].wait \in DOMAIN reqs
BY ReqsAre, TabsAre DEF WaitsRight, TypeOK, TabStates

LEMMA BecomesTyped ==
  ASSUME TypeOK, NEW i \in DOMAIN reqs, NEW at \in Progress, Becomes(i, at)
  PROVE  reqs' \in Seq(Requests) /\ Len(reqs') <= MaxRequests
BY BecomesIs, ReqsAre

LEMMA TypeStep == TypeOK /\ WaitsRight /\ [Next]_vars => TypeOK'
<1> SUFFICES ASSUME TypeOK, WaitsRight, [Next]_vars PROVE TypeOK'
  OBVIOUS
<1> USE DEF KeepsRest, dbVars
<1> DEFINE ReqsOK == reqs' \in Seq(Requests) /\ Len(reqs') <= MaxRequests
           TabsOK == tabs' \in [Tabs -> TabStates]
           TurnsOK == turns' \in Seq(Questions \cup {Old})
<1>0. \A at \in {"running", "ended"} \cup Answers : at \in Progress
  BY DEF Progress
<1>1. ASSUME NEW t \in Tabs, NEW q \in Questions, Start(t, q) \/ Ask(t, q)
      PROVE  TypeOK'
  <2>1. \E kind \in Kinds : SendFrom(t, kind, q, FALSE)
    BY <1>1 DEF Start, Ask, Kinds
  <2>2. ReqsOK /\ TabsOK
    BY <2>1, SentTyped
  <2> QED
    BY <1>1, <2>2 DEF Start, Ask, TypeOK
<1>2. ASSUME NEW t \in Tabs, KeepLooking(t) \/ StopLooking(t)
      PROVE  TypeOK'
  <2>1. tabs[t].choice \in Questions /\ tabs[t].send \in BOOLEAN
    BY <1>2, TabsAre DEF KeepLooking, StopLooking, TabStates
  <2>2. \E kind \in Kinds : SendFrom(t, kind, tabs[t].choice, tabs[t].send)
    BY <1>2 DEF KeepLooking, StopLooking, Kinds
  <2>3. ReqsOK /\ TabsOK
    BY <2>1, <2>2, SentTyped
  <2> QED
    BY <1>2, <2>3 DEF KeepLooking, StopLooking, TypeOK
<1>3. ASSUME NEW t \in Tabs, Open(t)
      PROVE  TypeOK'
  <2>1. ReqsOK
    <3>1. CASE tabs[t].wait = 0
      BY <1>3, <3>1 DEF Open, Drop, TypeOK
    <3>2. CASE tabs[t].wait # 0
      BY <1>3, <3>2, WaitingFor, DropsIs, ReqsAre DEF Open, Drop
    <3> QED
      BY <3>1, <3>2
  <2>2. TabsOK /\ TurnsOK
    BY <1>3, PageTyped, TabsAre, TurnsTyped DEF Open, BackfillFails, TypeOK
  <2> QED
    BY <1>3, <2>1, <2>2 DEF Open, TypeOK
<1>4. ASSUME NEW t \in Tabs, Deliver(t) \/ Break(t)
      PROVE  TypeOK'
  <2> DEFINE i == tabs[t].wait
  <2>1. i \in DOMAIN reqs
    BY <1>4, WaitingFor DEF Deliver, Break
  <2>2. CASE Fails(t, i)
    <3>1. ReqsOK /\ TabsOK
      BY <2>1, <2>2, FailsTyped
    <3>2. /\ TurnsOK /\ session' = session /\ legacy' = legacy /\ access' = access
          /\ missed' = missed
      BY <1>4 DEF Deliver, Break, TypeOK
    <3>3. faults' = faults /\ breaks' \in 0 .. MaxBreaks
      <4>1. breaks \in 0 .. MaxBreaks /\ MaxBreaks \in Nat
        BY DEF TypeOK
      <4>2. \/ breaks' = breaks
            \/ breaks < MaxBreaks /\ breaks' = breaks + 1
        BY <1>4 DEF Deliver, Break
      <4>3. faults' = faults
        BY <1>4 DEF Deliver, Break
      <4> QED
        BY <4>1, <4>2, <4>3
    <3> QED
      BY <3>1, <3>2, <3>3 DEF TypeOK
  <2>3. CASE Becomes(i, "ended") /\ UNCHANGED <<dbVars, breaks, faults, missed>>
    <3>1. ReqsOK
      BY <1>0, <2>1, <2>3, BecomesTyped
    <3>2. CASE \E name \in {"chat", "elsewhere"} :
                 tabs' = [tabs EXCEPT ![t] = Page(name, FALSE)]
      <4>1. TabsOK
        BY <3>2, PageTyped, TabsAre
      <4>2. TurnsOK
        BY <2>3 DEF TypeOK
      <4> QED
        BY <3>1, <4>1, <4>2, <2>3 DEF TypeOK
    <3>3. CASE \E choice \in Questions \cup {NoQuestion}, b \in BOOLEAN :
                 Settle(t, choice, b)
      BY <3>1, <3>3, <2>3, SettleTyped DEF TypeOK
    <3>4. reqs[i].q \in Questions /\ ByHtmx(i) \in BOOLEAN
      BY <2>1, ReqsAre DEF Requests, ByHtmx
    <3>5. CASE Deliver(t) /\ reqs[i].at \in {"answered", "refused"}
      <4>1. CASE reqs[i].kind = "start"
        <5>1. \E name \in {"chat", "elsewhere"} :
                tabs' = [tabs EXCEPT ![t] = Page(name, FALSE)]
          BY <3>5, <4>1, <2>2 DEF Deliver
        <5> QED
          BY <5>1, <3>2
      <4>2. CASE reqs[i].kind # "start"
        <5>1. Settle(t, NoQuestion, ByHtmx(i)) \/ Fails(t, i)
          BY <3>5, <4>2 DEF Deliver
        <5> QED
          BY <5>1, <2>2, <3>3, <3>4
      <4> QED
        BY <4>1, <4>2
    <3>6. CASE Deliver(t) /\ reqs[i].at = "exhausted"
      <4>1. Settle(t, reqs[i].q, FALSE) \/ Fails(t, i)
        BY <3>6 DEF Deliver
      <4> QED
        BY <4>1, <2>2, <3>3, <3>4
    <3> QED
      BY <1>4, <2>2, <3>5, <3>6 DEF Deliver, Break
  <2> QED
    BY <1>4, <2>2, <2>3 DEF Deliver, Break
<1>5. ASSUME NEW i \in DOMAIN reqs,
             \/ ReceiveStart(i) \/ ReceiveQuestion(i) \/ ReceiveStop(i)
             \/ PostAnswers(i) \/ StreamAnswers(i) \/ StreamExhausted(i)
             \/ StreamErrs(i) \/ Cancel(i) \/ Raises(i)
      PROVE  TypeOK'
  <2>1. \E at \in {"running", "ended"} \cup Answers : Becomes(i, at)
    BY <1>5 DEF ReceiveStart, ReceiveQuestion, ReceiveStop, PostAnswers,
         StreamAnswers, StreamExhausted, StreamErrs, Cancel, Raises, Answers
  <2>2. ReqsOK
    BY <1>0, <2>1, BecomesTyped
  <2>3. TurnsOK
    <3>1. reqs[i].q \in Questions
      BY ReqsAre DEF Requests
    <3>2. UNCHANGED turns \/ LoadHistory \/ AppendTurn(reqs[i].q)
      BY <1>5 DEF ReceiveStart, ReceiveQuestion, ReceiveStop, PostAnswers,
           StreamAnswers, StreamExhausted, StreamErrs, Cancel, Raises, BackfillFails
    <3> QED
      BY <3>1, <3>2, TurnsTyped DEF TypeOK
  <2>4. missed' \subseteq Questions
    BY <1>5, ReqsAre
    DEF ReceiveStart, ReceiveQuestion, ReceiveStop, PostAnswers, Requests,
        StreamAnswers, StreamExhausted, StreamErrs, Cancel, Raises, TypeOK
  <2> QED
    BY <1>5, <2>2, <2>3, <2>4
    DEF ReceiveStart, ReceiveQuestion, ReceiveStop, PostAnswers,
        StreamAnswers, StreamExhausted, StreamErrs, Cancel, Raises, TypeOK
<1>6. CASE DeleteSession \/ Unshare \/ UNCHANGED vars
  <2>1. TurnsOK
    <3>1. turns \in Seq(Questions \cup {Old}) /\ <<>> \in Seq(Questions \cup {Old})
      BY DEF TypeOK
    <3> QED
      BY <1>6, <3>1 DEF DeleteSession, Unshare, vars
  <2> QED
    BY <1>6, <2>1 DEF DeleteSession, Unshare, vars, TypeOK
<1> QED
  BY <1>1, <1>2, <1>3, <1>4, <1>5, <1>6, NextCases

LEMMA WaitsStep == TypeOK /\ WaitsRight /\ [Next]_vars => WaitsRight'
<1> SUFFICES ASSUME TypeOK, WaitsRight, [Next]_vars PROVE WaitsRight'
  OBVIOUS
<1> USE DEF KeepsRest, dbVars
\* The tab waits for a request that is sent with this step.
<1>1. ASSUME NEW t \in Tabs, Len(reqs') = Len(reqs) + 1,
             tabs'[t].wait = Len(reqs) + 1,
             \A u \in Tabs \ {t} : tabs'[u] = tabs[u]
      PROVE  WaitsRight'
  BY <1>1, TabsAre, ReqsAre DEF WaitsRight
\* The tab waits no longer.
<1>2. ASSUME NEW t \in Tabs, Len(reqs') = Len(reqs), tabs'[t].wait = 0,
             \A u \in Tabs \ {t} : tabs'[u] = tabs[u]
      PROVE  WaitsRight'
  BY <1>2, TabsAre, ReqsAre DEF WaitsRight
<1>3. ASSUME Len(reqs') = Len(reqs), tabs' = tabs
      PROVE  WaitsRight'
  BY <1>3 DEF WaitsRight
<1>4. ASSUME NEW t \in Tabs, NEW kind \in Kinds, NEW q \in Questions, NEW send,
             SendFrom(t, kind, q, send)
      PROVE  WaitsRight'
  <2>1. Len(reqs') = Len(reqs) + 1
    BY <1>4, SendIs DEF SendFrom
  <2>2. tabs'[t].wait = Len(reqs) + 1 /\ \A u \in Tabs \ {t} : tabs'[u] = tabs[u]
    BY <1>4, TabsAre DEF SendFrom, TypeOK, TabStates
  <2> QED
    BY <2>1, <2>2, <1>1
<1>5. ASSUME NEW t \in Tabs, NEW i \in DOMAIN reqs, Fails(t, i)
      PROVE  WaitsRight'
  <2>1. CASE /\ Len(reqs') = Len(reqs) + 1
             /\ tabs' = [tabs EXCEPT ![t].wait = Len(reqs) + 1]
    <3>1. tabs'[t].wait = Len(reqs) + 1 /\ \A u \in Tabs \ {t} : tabs'[u] = tabs[u]
      BY <2>1, TabsAre DEF TypeOK, TabStates
    <3> QED
      BY <2>1, <3>1, <1>1
  <2>2. CASE Len(reqs') = Len(reqs) /\ \E b \in BOOLEAN : Settle(t, NoQuestion, b)
    <3>1. tabs'[t].wait = 0 /\ \A u \in Tabs \ {t} : tabs'[u] = tabs[u]
      BY <2>2, TabsAre DEF Settle, TypeOK, TabStates
    <3> QED
      BY <2>2, <3>1, <1>2
  <2> QED
    BY <1>5, <2>1, <2>2, FailsIs
<1>6. ASSUME NEW t \in Tabs, NEW q \in Questions, Start(t, q) \/ Ask(t, q)
      PROVE  WaitsRight'
  <2>1. \E kind \in Kinds : SendFrom(t, kind, q, FALSE)
    BY <1>6 DEF Start, Ask, Kinds
  <2> QED
    BY <2>1, <1>4
<1>7. ASSUME NEW t \in Tabs, KeepLooking(t) \/ StopLooking(t)
      PROVE  WaitsRight'
  <2>1. tabs[t].choice \in Questions
    BY <1>7, TabsAre DEF KeepLooking, StopLooking, TabStates
  <2>2. \E kind \in Kinds : SendFrom(t, kind, tabs[t].choice, tabs[t].send)
    BY <1>7 DEF KeepLooking, StopLooking, Kinds
  <2> QED
    BY <2>1, <2>2, <1>4
<1>8. ASSUME NEW t \in Tabs, Open(t)
      PROVE  WaitsRight'
  <2>1. Len(reqs') = Len(reqs)
    BY <1>8, WaitingFor, DropsIs DEF Open, Drop
  <2>2. tabs'[t].wait = 0 /\ \A u \in Tabs \ {t} : tabs'[u] = tabs[u]
    BY <1>8, TabsAre DEF Open, Page, TypeOK
  <2> QED
    BY <2>1, <2>2, <1>2
<1>9. ASSUME NEW t \in Tabs, Deliver(t) \/ Break(t)
      PROVE  WaitsRight'
  <2> DEFINE i == tabs[t].wait
  <2>1. i \in DOMAIN reqs
    BY <1>9, WaitingFor DEF Deliver, Break
  <2>2. CASE Fails(t, i)
    BY <2>1, <2>2, <1>5
  <2>3. CASE Becomes(i, "ended") /\ Deliver(t) /\ ~Fails(t, i)
    <3>1. Len(reqs') = Len(reqs)
      BY <2>1, <2>3, BecomesIs DEF Progress
    <3>2. tabs'[t].wait = 0 /\ \A u \in Tabs \ {t} : tabs'[u] = tabs[u]
      BY <2>3, TabsAre DEF Deliver, Settle, Page, TypeOK, TabStates
    <3> QED
      BY <3>1, <3>2, <1>2
  <2> QED
    BY <1>9, <2>2, <2>3 DEF Deliver, Break
<1>10. ASSUME NEW i \in DOMAIN reqs,
             \/ ReceiveStart(i) \/ ReceiveQuestion(i) \/ ReceiveStop(i)
             \/ PostAnswers(i) \/ StreamAnswers(i) \/ StreamExhausted(i)
             \/ StreamErrs(i) \/ Cancel(i) \/ Raises(i)
       PROVE WaitsRight'
  <2>1. \E at \in Progress : Becomes(i, at)
    BY <1>10 DEF ReceiveStart, ReceiveQuestion, ReceiveStop, PostAnswers,
         StreamAnswers, StreamExhausted, StreamErrs, Cancel, Raises, Answers,
         Progress
  <2>2. tabs' = tabs
    BY <1>10 DEF ReceiveStart, ReceiveQuestion, ReceiveStop, PostAnswers,
         StreamAnswers, StreamExhausted, StreamErrs, Cancel, Raises
  <2> QED
    BY <2>1, <2>2, BecomesIs, <1>3
<1>11. CASE DeleteSession \/ Unshare \/ UNCHANGED vars
  BY <1>11, <1>3 DEF DeleteSession, Unshare, vars
<1> QED
  BY <1>6, <1>7, <1>8, <1>9, <1>10, <1>11, NextCases

LEMMA TypeInit == Init => TypeOK /\ WaitsRight
<1> SUFFICES ASSUME Init PROVE TypeOK /\ WaitsRight
  OBVIOUS
<1>1. reqs \in Seq(Requests) /\ Len(reqs) = 0 /\ turns \in Seq(Questions \cup {Old})
  BY DEF Init
<1>2. tabs \in [Tabs -> TabStates] /\ \A t \in Tabs : tabs[t].wait = 0
  BY DEF Init, Page, TabStates
<1>3. /\ session \in {"none", "open", "deleted"}
      /\ legacy \in BOOLEAN /\ access \in BOOLEAN
  BY DEF Init
<1>4. /\ breaks \in 0 .. MaxBreaks /\ faults \in 0 .. MaxFaults
      /\ Len(reqs) <= MaxRequests /\ missed \subseteq Questions
  BY <1>1 DEF Init
<1>5. TypeOK
  BY <1>1, <1>2, <1>3, <1>4 DEF TypeOK
<1>6. WaitsRight
  BY <1>1, <1>2 DEF WaitsRight
<1> QED
  BY <1>5, <1>6

\* Session, turns, requests and tabs keep their shapes and bounds, for any number
\* of tabs, questions and requests.
THEOREM TypeCorrect == Spec => []TypeOK
<1>1. Spec => [](TypeOK /\ WaitsRight)
  BY TypeInit, TypeStep, WaitsStep, PTL DEF Spec
<1> QED
  BY <1>1, PTL

-------------------------------------------------------------------------------
(* A deleted session.                                                      *)

\* Nothing starts to run in a deleted session, and what is stored in it comes of
\* a run that was in progress.
THEOREM DeletedIsClosed == Spec => DeletedTakesNothingNew
<1> DEFINE Closed ==
      session = "deleted" =>
        \A i \in DOMAIN reqs :
          /\ reqs[i].at = "sent" => reqs'[i].at # "running"
          /\ turns' # turns =>
               \E k \in DOMAIN reqs : Running(k) /\ reqs'[k].at # "running"
<1>1. TypeOK /\ WaitsRight /\ [Next]_vars => Closed
  <2> SUFFICES ASSUME TypeOK, WaitsRight, [Next]_vars, session = "deleted",
                      NEW j \in DOMAIN reqs
               PROVE  /\ reqs[j].at = "sent" => reqs'[j].at # "running"
                      /\ turns' # turns =>
                           \E k \in DOMAIN reqs :
                             Running(k) /\ reqs'[k].at # "running"
    BY DEF Running
  <2> USE DEF KeepsRest, dbVars, Running
  <2>1. ASSUME NEW t \in Tabs, NEW kind \in Kinds, NEW q \in Questions, NEW send,
               SendFrom(t, kind, q, send)
        PROVE  reqs'[j] = reqs[j]
    BY <2>1, SendIs DEF SendFrom
  <2>2. ASSUME NEW t \in Tabs, NEW q \in Questions, Start(t, q) \/ Ask(t, q)
        PROVE  reqs'[j] = reqs[j] /\ turns' = turns
    <3>1. \E kind \in Kinds : SendFrom(t, kind, q, FALSE)
      BY <2>2 DEF Start, Ask, Kinds
    <3> QED
      BY <2>1, <2>2, <3>1 DEF Start, Ask
  <2>3. ASSUME NEW t \in Tabs, KeepLooking(t) \/ StopLooking(t)
        PROVE  reqs'[j] = reqs[j] /\ turns' = turns
    <3>1. tabs[t].choice \in Questions
      BY <2>3, TabsAre DEF KeepLooking, StopLooking, TabStates
    <3>2. \E kind \in Kinds : SendFrom(t, kind, tabs[t].choice, tabs[t].send)
      BY <2>3 DEF KeepLooking, StopLooking, Kinds
    <3> QED
      BY <2>1, <2>3, <3>1, <3>2 DEF KeepLooking, StopLooking
  <2>4. ASSUME NEW t \in Tabs, Open(t)
        PROVE  reqs'[j].at = reqs[j].at /\ turns' = turns
    BY <2>4, WaitingFor, DropsIs DEF Open, Drop
  <2>5. ASSUME NEW t \in Tabs, Deliver(t) \/ Break(t)
        PROVE  /\ reqs'[j].at \in {reqs[j].at, "ended"} /\ turns' = turns
    <3> DEFINE i == tabs[t].wait
    <3>1. i \in DOMAIN reqs
      BY <2>5, WaitingFor DEF Deliver, Break
    <3>2. CASE Fails(t, i)
      BY <2>5, <3>1, <3>2, FailsIs DEF Deliver, Break
    <3>3. CASE Becomes(i, "ended")
      <4>1. reqs'[j].at \in {reqs[j].at, "ended"}
        BY <3>1, <3>3, BecomesIs, ReqsAre DEF Progress, Requests
      <4> QED
        BY <2>5, <4>1 DEF Deliver, Break
    <3> QED
      BY <2>5, <3>2, <3>3 DEF Deliver, Break
  <2>6. ASSUME NEW i \in DOMAIN reqs, NEW at \in Progress, Becomes(i, at)
        PROVE  /\ reqs'[i].at = at
               /\ j # i => reqs'[j] = reqs[j]
    BY <2>6, BecomesIs, ReqsAre DEF Requests
  <2>7. ASSUME NEW i \in DOMAIN reqs,
               ReceiveStart(i) \/ ReceiveQuestion(i) \/ ReceiveStop(i)
        PROVE  /\ \E at \in Progress \ {"running"} : Becomes(i, at)
               /\ turns' = turns
    BY <2>7 DEF ReceiveStart, ReceiveQuestion, ReceiveStop, Progress, Answers
  <2>8. ASSUME NEW i \in DOMAIN reqs,
               \/ PostAnswers(i) \/ StreamAnswers(i) \/ StreamExhausted(i)
               \/ StreamErrs(i) \/ Cancel(i) \/ Raises(i)
        PROVE  /\ \E at \in Progress \ {"running"} : Becomes(i, at)
               /\ turns' = turns \/ reqs[i].at = "running"
    BY <2>8 DEF PostAnswers, StreamAnswers, StreamExhausted, StreamErrs, Cancel,
         Raises, Progress, Answers
  <2>9. CASE DeleteSession \/ Unshare \/ UNCHANGED vars
    BY <2>9 DEF DeleteSession, Unshare, vars
  <2> QED
    BY <2>2, <2>3, <2>4, <2>5, <2>6, <2>7, <2>8, <2>9, NextCases
<1>2. Spec => [](TypeOK /\ WaitsRight)
  BY TypeInit, TypeStep, WaitsStep, PTL DEF Spec
<1> QED
  BY <1>1, <1>2, PTL DEF Spec, DeletedTakesNothingNew

-------------------------------------------------------------------------------
(* A history from before the turns table.                                  *)

\* Nothing is stored: what has got as far as running, and what was offered for
\* it, belongs to a question whose own request failed to bring the history over.
Untouched ==
  /\ \A i \in DOMAIN reqs :
       \/ reqs[i].kind \in {"continue", "stop"}
       \/ reqs[i].at \in {"running", "exhausted"}
       => reqs[i].q \in missed
  /\ \A t \in Tabs : tabs[t].choice \in missed \cup {NoQuestion}

LegacySafe ==
  legacy =>
    /\ session = "open"
    /\ \A i \in DOMAIN reqs : reqs[i].kind # "start"
    /\ turns = <<>> => Untouched
    /\ turns # <<>> =>
         /\ turns[1] = Old \/ turns[1] \in missed
         /\ \A n \in DOMAIN turns \ {1} : turns[n] # Old

LEMMA AppendIs ==
  ASSUME TypeOK, NEW q \in Questions, AppendTurn(q)
  PROVE  /\ turns' # <<>> /\ Len(turns) \in Nat
         /\ DOMAIN turns = 1 .. Len(turns)
         /\ DOMAIN turns' = DOMAIN turns \cup {Len(turns) + 1}
         /\ turns'[Len(turns) + 1] = q
         /\ \A n \in DOMAIN turns : turns'[n] = turns[n]
<1>1. turns \in Seq(Questions \cup {Old}) /\ q \in Questions \cup {Old}
  BY DEF TypeOK
<1>2. Len(turns) \in Nat /\ DOMAIN turns = 1 .. Len(turns)
  BY <1>1, LenProperties
<1>3. /\ turns' \in Seq(Questions \cup {Old}) /\ turns' # <<>>
      /\ Len(turns') = Len(turns) + 1 /\ turns'[Len(turns) + 1] = q
      /\ \A n \in 1 .. Len(turns) : turns'[n] = turns[n]
  BY <1>1, AppendProperties DEF AppendTurn
<1>4. DOMAIN turns' = 1 .. Len(turns')
  BY <1>3, LenProperties
<1> QED
  BY <1>2, <1>3, <1>4

LEMMA LegacyStep == TypeOK /\ WaitsRight /\ LegacySafe /\ [Next]_vars => LegacySafe'
<1> SUFFICES ASSUME TypeOK, WaitsRight, LegacySafe, [Next]_vars, legacy'
             PROVE  LegacySafe'
  BY DEF LegacySafe
<1> USE DEF KeepsRest, dbVars
\* What is stored after the old history, or after a turn that hides it, does not
\* come before it.
<1>1. ASSUME legacy, UNCHANGED <<legacy, session, missed>>,
             NEW q \in Questions, AppendTurn(q), turns = <<>> => q \in missed,
             \A i \in DOMAIN reqs' : reqs'[i].kind # "start"
      PROVE  LegacySafe'
  <2>1. CASE turns = <<>>
    <3>1. Len(turns) = 0 /\ DOMAIN turns = {}
      BY <2>1
    <3>2. DOMAIN turns' = {1} /\ turns'[1] = q /\ turns' # <<>>
      BY <1>1, <3>1, AppendIs
    <3> QED
      BY <1>1, <2>1, <3>2 DEF LegacySafe
  <2>2. CASE turns # <<>>
    <3>1. 1 \in DOMAIN turns /\ Len(turns) + 1 # 1
      BY <2>2, <1>1, AppendIs, EmptySeq DEF TypeOK
    <3> QED
      BY <1>1, <2>2, <3>1, AppendIs DEF LegacySafe
  <2> QED
    BY <2>1, <2>2
\* Nothing is stored.
<1>2. ASSUME legacy, UNCHANGED <<legacy, session, turns>>, missed \subseteq missed',
             \A i \in DOMAIN reqs' : reqs'[i].kind # "start",
             turns = <<>> => Untouched'
      PROVE  LegacySafe'
  BY <1>2 DEF LegacySafe
<1>3. ASSUME legacy, UNCHANGED <<legacy, session, missed>>, LoadHistory,
             \A i \in DOMAIN reqs' : reqs'[i].kind # "start"
      PROVE  LegacySafe'
  <2>1. CASE turns = <<>>
    <3>1. turns' = <<Old>>
      BY <1>3, <2>1 DEF LoadHistory
    <3>2. DOMAIN turns' = {1} /\ turns'[1] = Old
      BY <3>1
    <3> QED
      BY <1>3, <3>1, <3>2 DEF LegacySafe
  <2>2. CASE turns # <<>>
    BY <1>3, <2>2 DEF LegacySafe, LoadHistory
  <2> QED
    BY <2>1, <2>2
<1>4. ASSUME NEW t \in Tabs, NEW q \in Questions, Start(t, q) \/ Ask(t, q)
      PROVE  LegacySafe'
  <2>1. legacy /\ session = "open" /\ UNCHANGED <<legacy, session, turns, missed>>
    BY <1>4 DEF Start, Ask, LegacySafe
  <2>2. \E kind \in {"post", "stream"} : SendFrom(t, kind, q, FALSE)
    BY <1>4, <2>1 DEF Start, Ask
  <2>3. PICK kind \in {"post", "stream"} : SendFrom(t, kind, q, FALSE)
    BY <2>2
  <2>4. kind \in Kinds /\ Send(kind, q)
    BY <2>3 DEF Kinds, SendFrom
  <2>5. \A u \in Tabs : tabs'[u].choice \in {tabs[u].choice, NoQuestion}
    BY <2>3, TabsAre DEF SendFrom, TypeOK, TabStates
  <2>6. \A k \in DOMAIN reqs' :
          \/ k \in DOMAIN reqs /\ reqs'[k] = reqs[k]
          \/ reqs'[k].kind \in {"post", "stream"} /\ reqs'[k].at = "sent"
    BY <2>4, SendIs
  <2>7. \A k \in DOMAIN reqs' : reqs'[k].kind # "start"
    BY <2>1, <2>6 DEF LegacySafe
  <2>8. turns = <<>> => Untouched'
    BY <2>1, <2>5, <2>6 DEF LegacySafe, Untouched
  <2> QED
    BY <1>2, <2>1, <2>7, <2>8
<1>5. ASSUME NEW t \in Tabs, KeepLooking(t) \/ StopLooking(t)
      PROVE  LegacySafe'
  <2>1. legacy /\ UNCHANGED <<legacy, session, turns, missed>>
    BY <1>5 DEF KeepLooking, StopLooking, LegacySafe
  <2>2. tabs[t].choice \in Questions /\ tabs[t].choice # NoQuestion
    BY <1>5, TabsAre DEF KeepLooking, StopLooking, TabStates
  <2>3. PICK kind \in {"continue", "stop"} :
          SendFrom(t, kind, tabs[t].choice, tabs[t].send)
    BY <1>5 DEF KeepLooking, StopLooking
  <2>4. kind \in Kinds /\ Send(kind, tabs[t].choice)
    BY <2>3 DEF Kinds, SendFrom
  <2>5. \A u \in Tabs : tabs'[u].choice \in {tabs[u].choice, NoQuestion}
    BY <2>3, TabsAre DEF SendFrom, TypeOK, TabStates
  <2>6. \A k \in DOMAIN reqs' :
          \/ k \in DOMAIN reqs /\ reqs'[k] = reqs[k]
          \/ /\ reqs'[k].kind = kind /\ reqs'[k].at = "sent"
             /\ reqs'[k].q = tabs[t].choice
    BY <2>2, <2>4, SendIs
  <2>7. \A k \in DOMAIN reqs' : reqs'[k].kind # "start"
    BY <2>1, <2>6 DEF LegacySafe
  <2>8. turns = <<>> => Untouched'
    BY <2>1, <2>2, <2>5, <2>6 DEF LegacySafe, Untouched
  <2> QED
    BY <1>2, <2>1, <2>7, <2>8
<1>6. ASSUME NEW t \in Tabs, Open(t)
      PROVE  LegacySafe'
  <2>1. legacy /\ UNCHANGED <<legacy, session, missed>> /\ (LoadHistory \/ UNCHANGED turns)
    BY <1>6 DEF Open, LegacySafe, BackfillFails
  <2>2. \A k \in DOMAIN reqs' :
          /\ k \in DOMAIN reqs /\ reqs'[k].kind = reqs[k].kind
          /\ reqs'[k].q = reqs[k].q /\ reqs'[k].at = reqs[k].at
    BY <1>6, WaitingFor, DropsIs DEF Open, Drop
  <2>3. \A k \in DOMAIN reqs' : reqs'[k].kind # "start"
    BY <2>1, <2>2 DEF LegacySafe
  <2>4. \A u \in Tabs : tabs'[u].choice \in {tabs[u].choice, NoQuestion}
    BY <1>6, TabsAre DEF Open, Page, TypeOK
  <2>5. turns = <<>> => Untouched'
    BY <2>1, <2>2, <2>4 DEF LegacySafe, Untouched
  <2> QED
    BY <1>2, <1>3, <2>1, <2>3, <2>5
<1>7. ASSUME NEW t \in Tabs, Deliver(t) \/ Break(t)
      PROVE  LegacySafe'
  <2> DEFINE i == tabs[t].wait
  <2>1. i \in DOMAIN reqs
    BY <1>7, WaitingFor DEF Deliver, Break
  <2>2. legacy /\ UNCHANGED <<legacy, session, turns, missed>>
    BY <1>7 DEF Deliver, Break
  <2>3. CASE Fails(t, i)
    <3>1. \A u \in Tabs : tabs'[u].choice \in {tabs[u].choice, NoQuestion}
      <4>1. CASE tabs' = [tabs EXCEPT ![t].wait = Len(reqs) + 1]
        BY <4>1, TabsAre DEF TypeOK, TabStates
      <4>2. CASE \E b \in BOOLEAN : Settle(t, NoQuestion, b)
        BY <4>2, TabsAre DEF Settle, TypeOK, TabStates
      <4> QED
        BY <2>1, <2>3, <4>1, <4>2, FailsIs
    <3>2. \A k \in DOMAIN reqs' :
            \/ k \in DOMAIN reqs /\ reqs'[k].kind = reqs[k].kind
                                 /\ reqs'[k].at = reqs[k].at
                                 /\ reqs'[k].q = reqs[k].q
            \/ reqs'[k].kind = "post" /\ reqs'[k].at = "sent"
      BY <2>1, <2>3, FailsIs
    <3> QED
      BY <1>2, <2>2, <3>1, <3>2 DEF LegacySafe, Untouched
  <2>4. CASE Deliver(t) /\ Becomes(i, "ended") /\ ~Fails(t, i)
    <3>1. \A u \in Tabs :
            \/ tabs'[u].choice \in {tabs[u].choice, NoQuestion}
            \/ reqs[i].at = "exhausted" /\ tabs'[u].choice = reqs[i].q
      <4>1. CASE \E name \in {"chat", "elsewhere"} :
                   tabs' = [tabs EXCEPT ![t] = Page(name, FALSE)]
        BY <4>1 DEF Page, TypeOK
      <4>2. CASE Settle(t, NoQuestion, ByHtmx(i))
        BY <4>2, TabsAre DEF Settle, TypeOK, TabStates
      <4>3. CASE reqs[i].at = "exhausted" /\ Settle(t, reqs[i].q, FALSE)
        BY <4>3, TabsAre DEF Settle, TypeOK, TabStates
      <4> QED
        BY <2>4, <4>1, <4>2, <4>3 DEF Deliver
    <3>2. \A k \in DOMAIN reqs' :
            /\ k \in DOMAIN reqs /\ reqs'[k].kind = reqs[k].kind
            /\ reqs'[k].q = reqs[k].q
            /\ reqs'[k].at \in {reqs[k].at, "ended"}
      BY <2>1, <2>4, BecomesIs DEF Progress
    <3> QED
      BY <1>2, <2>1, <2>2, <3>1, <3>2 DEF LegacySafe, Untouched
  <2> QED
    BY <1>7, <2>3, <2>4 DEF Deliver, Break
<1>8. ASSUME NEW i \in DOMAIN reqs,
             \/ ReceiveStart(i) \/ ReceiveQuestion(i) \/ ReceiveStop(i)
             \/ PostAnswers(i) \/ StreamAnswers(i) \/ StreamExhausted(i)
             \/ StreamErrs(i) \/ Cancel(i) \/ Raises(i)
      PROVE  LegacySafe'
  <2>1. legacy /\ UNCHANGED legacy
    BY <1>8 DEF ReceiveStart, ReceiveQuestion, ReceiveStop, PostAnswers,
         StreamAnswers, StreamExhausted, StreamErrs, Cancel, Raises
  <2>2. /\ session = "open" /\ reqs[i].kind # "start"
    BY <2>1 DEF LegacySafe
  <2>3. UNCHANGED session
    BY <1>8, <2>2 DEF ReceiveStart, ReceiveQuestion, ReceiveStop, PostAnswers,
         StreamAnswers, StreamExhausted, StreamErrs, Cancel, Raises
  <2>4. PICK at \in Progress : Becomes(i, at)
    BY <1>8 DEF ReceiveStart, ReceiveQuestion, ReceiveStop, PostAnswers,
         StreamAnswers, StreamExhausted, StreamErrs, Cancel, Raises, Answers,
         Progress
  <2>5. \A k \in DOMAIN reqs' :
          /\ k \in DOMAIN reqs /\ reqs'[k].kind = reqs[k].kind
          /\ reqs'[k].q = reqs[k].q
          /\ k # i => reqs'[k] = reqs[k]
    BY <2>4, BecomesIs
  <2>6. \A k \in DOMAIN reqs' : reqs'[k].kind # "start"
    BY <2>1, <2>5 DEF LegacySafe
  <2>7. CASE LoadHistory /\ UNCHANGED missed
    BY <1>3, <2>1, <2>3, <2>6, <2>7
  <2>8. CASE AppendTurn(reqs[i].q)
    <3>1. reqs[i].q \in Questions
      BY ReqsAre DEF Requests
    <3>2. turns' # turns
      <4>1. Len(turns') = Len(turns) + 1 /\ Len(turns) \in Nat
        BY <2>8, <3>1, AppendIs, AppendProperties DEF AppendTurn, TypeOK
      <4> QED
        BY <4>1
    <3>3. /\ reqs[i].at = "running" \/ reqs[i].kind = "stop" \/ LoadHistory
          /\ UNCHANGED missed
      BY <1>8, <3>2, <2>2 DEF ReceiveStart, ReceiveQuestion, ReceiveStop, PostAnswers,
           StreamAnswers, StreamExhausted, StreamErrs, Cancel, Raises, Running,
           BackfillFails
    <3>4. LoadHistory \/ (turns = <<>> => reqs[i].q \in missed)
      BY <2>1, <3>3 DEF LegacySafe, Untouched
    <3> QED
      BY <1>1, <2>1, <2>3, <2>6, <2>7, <2>8, <3>1, <3>3, <3>4
  <2>9. CASE ~(LoadHistory /\ UNCHANGED missed) /\ ~AppendTurn(reqs[i].q)
    <3>1. turns' = turns /\ missed \subseteq missed' /\ tabs' = tabs
      BY <1>8, <2>2, <2>9 DEF ReceiveStart, ReceiveQuestion, ReceiveStop, PostAnswers,
           StreamAnswers, StreamExhausted, StreamErrs, Cancel, Raises, BackfillFails
    <3>2. \/ reqs'[i].at \notin {"running", "exhausted"}
          \/ reqs[i].at = "running"
          \/ reqs[i].q \in missed'
      <4>1. CASE ReceiveQuestion(i)
        <5>1. \/ LoadHistory /\ UNCHANGED missed
              \/ missed' = missed \cup {reqs[i].q}
          BY <4>1, <2>2 DEF ReceiveQuestion
        <5> QED
          BY <2>9, <5>1
      <4>2. CASE ReceiveStop(i)
        BY <4>2, <2>2, <2>9 DEF ReceiveStop
      <4>3. CASE Raises(i)
        BY <4>3, BecomesIs DEF Raises, Answers, Progress
      <4> QED
        BY <1>8, <2>2, <4>1, <4>2, <4>3
        DEF ReceiveStart, PostAnswers, StreamAnswers, StreamExhausted, StreamErrs,
            Cancel, Running
    <3>3. turns = <<>> => Untouched'
      BY <2>1, <2>5, <3>1, <3>2 DEF LegacySafe, Untouched
    <3> QED
      BY <1>2, <2>1, <2>3, <2>6, <3>1, <3>3
  <2> QED
    BY <2>7, <2>8, <2>9
<1>9. CASE DeleteSession \/ Unshare \/ UNCHANGED vars
  <2>1. /\ legacy /\ UNCHANGED <<legacy, session, turns, missed, reqs, tabs>>
    BY <1>9 DEF DeleteSession, Unshare, vars
  <2> QED
    BY <2>1 DEF LegacySafe, Untouched
<1> QED
  BY <1>4, <1>5, <1>6, <1>7, <1>8, <1>9, NextCases

\* An old history comes before every turn that is stored, whichever tabs ask
\* first and whatever breaks, unless the first turn is a question whose own
\* request failed to bring it over.
THEOREM HistoryKept == Spec => []LegacyKept
<1>1. Init => LegacySafe
  BY DEF Init, LegacySafe, Untouched, Page
<1>2. Spec => [](TypeOK /\ WaitsRight /\ LegacySafe)
  BY <1>1, TypeInit, TypeStep, WaitsStep, LegacyStep, PTL DEF Spec
<1>3. LegacySafe => LegacyKept
  BY DEF LegacySafe, LegacyKept
<1> QED
  BY <1>2, <1>3, PTL

-------------------------------------------------------------------------------
(* Duplicates.  The turns of a question, and all there is that may still   *)
(* become a turn of it, are counted together: what a step takes out of this*)
(* set pays for what it puts into it, and where it does not, a connection  *)
(* or a handler has broken.                                                *)

Waited(i) == \E t \in Tabs : tabs[t].wait = i

\* The turns, ...
Stored(q) == {n \in DOMAIN turns : turns[n] = q}

\* ... the requests that may store one or offer to go on, ...
Coming(q) ==
  {i \in DOMAIN reqs :
     /\ reqs[i].q = q
     /\ \/ reqs[i].at \in {"sent", "running"}
        \/ reqs[i].at = "exhausted" /\ Waited(i)}

\* ... the streams that have failed and will be asked again, ...
Failing(q) ==
  {i \in DOMAIN reqs :
     /\ reqs[i].q = q /\ reqs[i].kind = "stream"
     /\ reqs[i].at = "failed" /\ Waited(i)}

\* ... the tabs that offer to go on, ...
Choosing(q) == {t \in Tabs : tabs[t].choice = q}

\* ... and the streams that would be asked again if they failed.
Repeatable(q) ==
  {i \in DOMAIN reqs :
     reqs[i].q = q /\ reqs[i].kind = "stream" /\ Waited(i)}

Tokens(T, R, C, A) ==
  {<<"turn", n>> : n \in T} \cup {<<"request", i>> : i \in R}
    \cup {<<"tab", t>> : t \in C} \cup {<<"again", i>> : i \in A}

AtMost(S, n) == IsFiniteSet(S) /\ Cardinality(S) <= n

\* One for the question itself, and one for each break or fault so far, ...
Paid(q) ==
  AtMost(Tokens(Stored(q), Coming(q) \cup Failing(q), Choosing(q), {}),
         1 + breaks + faults)

\* ... and no more than one for asking again, as only a stream is asked again.
Twice(q) ==
  AtMost(Tokens(Stored(q), Coming(q), Choosing(q), Repeatable(q)), 2)

LEMMA OneMore ==
  ASSUME NEW S, IsFiniteSet(S), NEW b
  PROVE  IsFiniteSet(S \cup {b}) /\ Cardinality(S \cup {b}) <= Cardinality(S) + 1
<1>1. Cardinality(S) \in Nat
  BY FS_CardinalityType
<1>2. CASE b \in S
  <2>1. S \cup {b} = S
    BY <1>2
  <2> QED
    BY <1>1, <2>1
<1>3. CASE b \notin S
  <2>1. IsFiniteSet(S \cup {b}) /\ Cardinality(S \cup {b}) = Cardinality(S) + 1
    BY <1>3, FS_AddElement
  <2> QED
    BY <1>1, <2>1
<1> QED
  BY <1>2, <1>3

LEMMA NoneThere == AtMost({}, 0)
<1>1. IsFiniteSet({}) /\ Cardinality({}) = 0
  BY FS_EmptySet
<1> QED
  BY <1>1 DEF AtMost

LEMMA Swapped ==
  ASSUME NEW n \in Nat, NEW S, AtMost(S, n), NEW a \in S, NEW b,
         NEW U, U \subseteq (S \ {a}) \cup {b}
  PROVE  AtMost(U, n)
<1> DEFINE V == (S \ {a}) \cup {b}
<1>1. IsFiniteSet(S \ {a}) /\ Cardinality(S \ {a}) = Cardinality(S) - 1
  BY FS_RemoveElement DEF AtMost
<1>2. IsFiniteSet(V) /\ Cardinality(V) <= Cardinality(S \ {a}) + 1
  BY <1>1, OneMore
<1>3. IsFiniteSet(U) /\ Cardinality(U) <= Cardinality(V)
  BY <1>2, FS_Subset
<1> HIDE DEF V
<1> QED
  BY <1>1, <1>2, <1>3, FS_CardinalityType DEF AtMost

LEMMA OneIn ==
  ASSUME NEW n \in Nat, NEW S, AtMost(S, n), NEW b,
         NEW U, U \subseteq S \cup {b}
  PROVE  AtMost(U, n + 1)
<1> DEFINE V == S \cup {b}
<1>1. IsFiniteSet(V) /\ Cardinality(V) <= Cardinality(S) + 1
  BY OneMore DEF AtMost
<1>2. IsFiniteSet(U) /\ Cardinality(U) <= Cardinality(V)
  BY <1>1, FS_Subset
<1> HIDE DEF V
<1> QED
  BY <1>1, <1>2, FS_CardinalityType DEF AtMost

LEMMA Fewer ==
  ASSUME NEW n \in Nat, NEW m \in Nat, n <= m, NEW S, AtMost(S, n),
         NEW U, U \subseteq S
  PROVE  AtMost(U, m)
<1>1. IsFiniteSet(U) /\ Cardinality(U) <= Cardinality(S)
  BY FS_Subset DEF AtMost
<1> QED
  BY <1>1, FS_CardinalityType DEF AtMost

LEMMA Causes ==
  ASSUME TypeOK, [Next]_vars
  PROVE  /\ breaks \in Nat /\ faults \in Nat /\ breaks' \in Nat /\ faults' \in Nat
         /\ breaks <= breaks' /\ faults <= faults'
<1>1. breaks \in Nat /\ faults \in Nat
  BY DEF TypeOK
<1>2. breaks' \in {breaks, breaks + 1} /\ faults' \in {faults, faults + 1}
  BY NextCases DEF Start, Ask, Open, KeepLooking, StopLooking, Deliver, Break,
    ReceiveStart, ReceiveQuestion, ReceiveStop, PostAnswers, StreamAnswers,
    StreamExhausted, StreamErrs, Cancel, Raises, DeleteSession, Unshare,
    KeepsRest, dbVars, vars
<1> QED
  BY <1>1, <1>2

\* No step adds to the set without taking something from it, but the five below.
Shrinks(q) ==
  /\ Stored(q)' \subseteq Stored(q) /\ Choosing(q)' \subseteq Choosing(q)
  /\ Coming(q)' \subseteq Coming(q) /\ Repeatable(q)' \subseteq Repeatable(q)
  /\ Failing(q)' \subseteq Failing(q) \cup Coming(q)

\* A request is answered with a turn, ...
Stores(q, i, n) ==
  /\ i \in Coming(q)
  /\ Stored(q)' \subseteq Stored(q) \cup {n} /\ Choosing(q)' \subseteq Choosing(q)
  /\ Coming(q)' \subseteq Coming(q) \ {i} /\ Repeatable(q)' \subseteq Repeatable(q)
  /\ Failing(q)' \subseteq Failing(q) \cup Coming(q)
  /\ i \notin Failing(q)' \/ faults' > faults

\* ... or with an offer to go on, ...
Offers(q, i, t) ==
  /\ i \in Coming(q)
  /\ Stored(q)' \subseteq Stored(q) /\ Choosing(q)' \subseteq Choosing(q) \cup {t}
  /\ Coming(q)' \subseteq Coming(q) \ {i} /\ Repeatable(q)' \subseteq Repeatable(q)
  /\ Failing(q)' \subseteq Failing(q)
  /\ i \notin Failing(q)

\* ... that is taken; ...
Chooses(q, t, n) ==
  /\ t \in Choosing(q)
  /\ Stored(q)' \subseteq Stored(q) /\ Choosing(q)' \subseteq Choosing(q) \ {t}
  /\ Coming(q)' \subseteq Coming(q) \cup {n} /\ Repeatable(q)' \subseteq Repeatable(q)
  /\ Failing(q)' \subseteq Failing(q)

\* ... a stream is asked again; ...
Repeats(q, i, n) ==
  /\ i \in Repeatable(q)
  /\ Stored(q)' \subseteq Stored(q) /\ Choosing(q)' \subseteq Choosing(q)
  /\ Coming(q)' \subseteq Coming(q) \cup {n}
  /\ Repeatable(q)' \subseteq Repeatable(q) \ {i}
  /\ Failing(q)' \subseteq Failing(q) \ {i}
  /\ breaks' > breaks \/ (i \in Failing(q) /\ i \notin Coming(q)')

\* ... or the question is asked for the first time.
Begins(q, n) ==
  /\ Stored(q)' = {} /\ Choosing(q)' = {} /\ Failing(q)' = {}
  /\ Coming(q)' \subseteq {n} /\ Repeatable(q)' \subseteq {n}

LEMMA Counts ==
  ASSUME TypeOK, [Next]_vars, NEW q \in Questions, Paid(q), Twice(q),
         \/ Shrinks(q)
         \/ \E i, n : Stores(q, i, n) \/ Repeats(q, i, n)
         \/ \E t, n : Offers(q, n, t) \/ Chooses(q, t, n)
         \/ \E n : Begins(q, n)
  PROVE  Paid(q)' /\ Twice(q)'
<1> DEFINE P == Tokens(Stored(q), Coming(q) \cup Failing(q), Choosing(q), {})
           D == Tokens(Stored(q), Coming(q), Choosing(q), Repeatable(q))
           causes == 1 + breaks + faults
<1>1. /\ causes \in Nat /\ causes' \in Nat /\ causes <= causes'
      /\ breaks' > breaks \/ faults' > faults => causes + 1 <= causes'
  BY Causes
<1>2. AtMost(P, causes) /\ AtMost(D, 2)
  BY DEF Paid, Twice
<1>3. SUFFICES AtMost(P', causes') /\ AtMost(D', 2)
  BY DEF Paid, Twice
<1>4. CASE Shrinks(q)
  <2>1. P' \subseteq P /\ D' \subseteq D
    BY <1>4 DEF Shrinks, Tokens
  <2> HIDE DEF P, D, causes
  <2> QED
    BY <1>1, <1>2, <2>1, Fewer
<1>5. ASSUME NEW i, NEW n, Stores(q, i, n)
      PROVE  AtMost(P', causes') /\ AtMost(D', 2)
  <2>1. /\ D' \subseteq (D \ {<<"request", i>>}) \cup {<<"turn", n>>}
        /\ <<"request", i>> \in D
    BY <1>5 DEF Stores, Tokens
  <2>2. CASE i \notin Failing(q)'
    <3>1. /\ P' \subseteq (P \ {<<"request", i>>}) \cup {<<"turn", n>>}
          /\ <<"request", i>> \in P
      BY <1>5, <2>2 DEF Stores, Tokens
    <3> HIDE DEF P, D, causes
    <3>2. AtMost(P', causes) /\ AtMost(D', 2)
      BY <1>1, <1>2, <2>1, <3>1, Swapped
    <3> QED
      BY <1>1, <3>2, Fewer
  <2>3. CASE faults' > faults
    <3>1. P' \subseteq P \cup {<<"turn", n>>}
      BY <1>5 DEF Stores, Tokens
    <3> HIDE DEF P, D, causes
    <3>2. AtMost(P', causes + 1) /\ AtMost(D', 2)
      BY <1>1, <1>2, <2>1, <3>1, Swapped, OneIn
    <3> QED
      BY <1>1, <2>3, <3>2, Fewer
  <2> QED
    BY <1>5, <2>2, <2>3 DEF Stores
<1>6. ASSUME NEW t, NEW i, Offers(q, i, t)
      PROVE  AtMost(P', causes') /\ AtMost(D', 2)
  <2>1. /\ P' \subseteq (P \ {<<"request", i>>}) \cup {<<"tab", t>>}
        /\ <<"request", i>> \in P
    BY <1>6 DEF Offers, Tokens
  <2>2. /\ D' \subseteq (D \ {<<"request", i>>}) \cup {<<"tab", t>>}
        /\ <<"request", i>> \in D
    BY <1>6 DEF Offers, Tokens
  <2> HIDE DEF P, D, causes
  <2>3. AtMost(P', causes) /\ AtMost(D', 2)
    BY <1>1, <1>2, <2>1, <2>2, Swapped
  <2> QED
    BY <1>1, <2>3, Fewer
<1>7. ASSUME NEW t, NEW n, Chooses(q, t, n)
      PROVE  AtMost(P', causes') /\ AtMost(D', 2)
  <2>1. /\ P' \subseteq (P \ {<<"tab", t>>}) \cup {<<"request", n>>}
        /\ <<"tab", t>> \in P
    BY <1>7 DEF Chooses, Tokens
  <2>2. /\ D' \subseteq (D \ {<<"tab", t>>}) \cup {<<"request", n>>}
        /\ <<"tab", t>> \in D
    BY <1>7 DEF Chooses, Tokens
  <2> HIDE DEF P, D, causes
  <2>3. AtMost(P', causes) /\ AtMost(D', 2)
    BY <1>1, <1>2, <2>1, <2>2, Swapped
  <2> QED
    BY <1>1, <2>3, Fewer
<1>8. ASSUME NEW i, NEW n, Repeats(q, i, n)
      PROVE  AtMost(P', causes') /\ AtMost(D', 2)
  <2>1. /\ D' \subseteq (D \ {<<"again", i>>}) \cup {<<"request", n>>}
        /\ <<"again", i>> \in D
    BY <1>8 DEF Repeats, Tokens
  <2>2. CASE breaks' > breaks
    <3>1. P' \subseteq P \cup {<<"request", n>>}
      BY <1>8 DEF Repeats, Tokens
    <3> HIDE DEF P, D, causes
    <3>2. AtMost(P', causes + 1) /\ AtMost(D', 2)
      BY <1>1, <1>2, <2>1, <3>1, Swapped, OneIn
    <3> QED
      BY <1>1, <2>2, <3>2, Fewer
  <2>3. CASE i \in Failing(q) /\ i \notin Coming(q)'
    <3>1. /\ P' \subseteq (P \ {<<"request", i>>}) \cup {<<"request", n>>}
          /\ <<"request", i>> \in P
      BY <1>8, <2>3 DEF Repeats, Tokens
    <3> HIDE DEF P, D, causes
    <3>2. AtMost(P', causes) /\ AtMost(D', 2)
      BY <1>1, <1>2, <2>1, <3>1, Swapped
    <3> QED
      BY <1>1, <3>2, Fewer
  <2> QED
    BY <1>8, <2>2, <2>3 DEF Repeats
<1>9. ASSUME NEW n, Begins(q, n)
      PROVE  AtMost(P', causes') /\ AtMost(D', 2)
  <2>1. P' \subseteq {<<"request", n>>}
    BY <1>9 DEF Begins, Tokens
  <2>2. D' \subseteq {<<"request", n>>} \cup {<<"again", n>>}
    BY <1>9 DEF Begins, Tokens
  <2>3. AtMost({<<"request", n>>}, 0 + 1)
    BY NoneThere, OneIn
  <2>4. 1 <= causes'
    BY Causes
  <2> HIDE DEF P, D, causes
  <2>5. AtMost({<<"request", n>>}, 1) /\ 1 \in Nat /\ 1 + 1 = 2
    BY <2>3
  <2>6. AtMost(D', 1 + 1)
    BY <2>2, <2>5, OneIn
  <2> QED
    BY <1>1, <2>1, <2>4, <2>5, <2>6, Fewer
<1> QED
  BY <1>4, <1>5, <1>6, <1>7, <1>8, <1>9

-------------------------------------------------------------------------------
(* What each step does to what is counted.                                 *)

Asked(q) == \E i \in DOMAIN reqs : reqs[i].q = q

\* What is stored, or offered to be continued, has been asked.
AskedFirst ==
  /\ \A n \in DOMAIN turns : turns[n] = Old \/ Asked(turns[n])
  /\ \A t \in Tabs : tabs[t].choice = NoQuestion \/ Asked(tabs[t].choice)

\* Only new requests are waited for anew, and no offer is new.
WaitsForNoMore ==
  /\ \A k \in DOMAIN reqs : Waited(k)' => Waited(k)
  /\ \A t \in Tabs : tabs'[t].choice \in {tabs[t].choice, NoQuestion}

StoresNoMore(q) == Stored(q)' \subseteq Stored(q)

LEMMA TurnsCount ==
  ASSUME TypeOK, NEW q \in Questions
  PROVE  /\ UNCHANGED turns \/ LoadHistory \/ turns' = <<>> => StoresNoMore(q)
         /\ \A p \in Questions :
              AppendTurn(p) =>
                /\ Stored(q)' \subseteq Stored(q) \cup {Len(turns) + 1}
                /\ p # q => StoresNoMore(q)
<1>1. turns \in Seq(Questions \cup {Old}) /\ q # Old
  BY DEF TypeOK
<1>2. CASE UNCHANGED turns
  BY <1>2 DEF StoresNoMore, Stored
<1>3. CASE LoadHistory
  <2>1. CASE turns' = <<Old>>
    <3>1. DOMAIN turns' = {1} /\ turns'[1] = Old
      BY <2>1
    <3> QED
      BY <1>1, <3>1 DEF StoresNoMore, Stored
  <2> QED
    BY <1>2, <1>3, <2>1 DEF LoadHistory
<1>4. CASE turns' = <<>>
  <2>1. DOMAIN turns' = {}
    BY <1>4
  <2> QED
    BY <2>1 DEF StoresNoMore, Stored
<1>5. ASSUME NEW p \in Questions, AppendTurn(p)
      PROVE  /\ Stored(q)' \subseteq Stored(q) \cup {Len(turns) + 1}
             /\ p # q => StoresNoMore(q)
  <2>1. /\ Len(turns') = Len(turns) + 1 /\ turns'[Len(turns) + 1] = p
        /\ \A k \in 1 .. Len(turns) : turns'[k] = turns[k]
        /\ turns' \in Seq(Questions \cup {Old})
    BY <1>1, <1>5, AppendProperties DEF AppendTurn
  <2>2. /\ DOMAIN turns' = 1 .. Len(turns') /\ DOMAIN turns = 1 .. Len(turns)
        /\ Len(turns) \in Nat
    BY <1>1, <2>1, LenProperties
  <2>3. \A k \in DOMAIN turns' :
          \/ k \in DOMAIN turns /\ turns'[k] = turns[k]
          \/ k = Len(turns) + 1 /\ turns'[k] = p
    BY <2>1, <2>2
  <2> QED
    BY <2>3 DEF StoresNoMore, Stored
<1> QED
  BY <1>2, <1>3, <1>4, <1>5

\* A request that gets on, without a turn or with one.
LEMMA BecomesCounts ==
  ASSUME TypeOK, NEW i \in DOMAIN reqs, NEW at \in Progress, Becomes(i, at),
         WaitsForNoMore, NEW q \in Questions,
         reqs[i].at \in {"sent", "running"} \/ at = "ended"
  PROVE  /\ StoresNoMore(q) => Shrinks(q)
         /\ AppendTurn(reqs[i].q)
              /\ (at = "answered" \/ (at = "failed" /\ faults' > faults))
              /\ reqs[i].at \in {"sent", "running"}
              => \/ Shrinks(q)
                 \/ \E n : Stores(q, i, n)
<1>1. /\ DOMAIN reqs' = DOMAIN reqs /\ reqs'[i].at = at
      /\ \A k \in DOMAIN reqs :
           /\ reqs'[k].kind = reqs[k].kind /\ reqs'[k].q = reqs[k].q
           /\ k # i => reqs'[k] = reqs[k]
  BY BecomesIs
<1>2. Choosing(q)' \subseteq Choosing(q)
  BY DEF WaitsForNoMore, Choosing
<1>3. Repeatable(q)' \subseteq Repeatable(q)
  BY <1>1 DEF WaitsForNoMore, Repeatable
<1>4. Coming(q)' \subseteq Coming(q)
  <2>1. ASSUME NEW k \in Coming(q)' PROVE k \in Coming(q)
    <3>1. k \in DOMAIN reqs /\ reqs[k].q = q
      BY <1>1, <2>1 DEF Coming
    <3>2. CASE k = i
      BY <1>1, <2>1, <3>1, <3>2 DEF Coming
    <3>3. CASE k # i
      BY <1>1, <2>1, <3>1, <3>3 DEF Coming, WaitsForNoMore
    <3> QED
      BY <3>2, <3>3
  <2> QED
    BY <2>1
<1>5. Failing(q)' \subseteq Failing(q) \cup Coming(q)
  <2>1. ASSUME NEW k \in Failing(q)' PROVE k \in Failing(q) \cup Coming(q)
    <3>1. k \in DOMAIN reqs /\ reqs[k].q = q
      BY <1>1, <2>1 DEF Failing
    <3>2. CASE k = i
      BY <1>1, <2>1, <3>1, <3>2 DEF Failing, Coming
    <3>3. CASE k # i
      BY <1>1, <2>1, <3>1, <3>3 DEF Failing, WaitsForNoMore
    <3> QED
      BY <3>2, <3>3
  <2> QED
    BY <2>1
<1>6. StoresNoMore(q) => Shrinks(q)
  BY <1>2, <1>3, <1>4, <1>5 DEF Shrinks, StoresNoMore
<1>7. ASSUME AppendTurn(reqs[i].q), reqs[i].q # q
      PROVE  Shrinks(q)
  <2>1. reqs[i].q \in Questions
    BY ReqsAre DEF Requests
  <2> QED
    BY <1>6, <1>7, <2>1, TurnsCount
<1>8. ASSUME AppendTurn(reqs[i].q), reqs[i].q = q,
             at = "answered" \/ (at = "failed" /\ faults' > faults),
             reqs[i].at \in {"sent", "running"}
      PROVE  Stores(q, i, Len(turns) + 1)
  <2>1. Stored(q)' \subseteq Stored(q) \cup {Len(turns) + 1}
    BY <1>8, TurnsCount
  <2>2. i \in Coming(q) /\ i \notin Coming(q)'
    BY <1>1, <1>8 DEF Coming
  <2>3. i \notin Failing(q)' \/ faults' > faults
    BY <1>1, <1>8 DEF Failing
  <2> QED
    BY <1>2, <1>3, <1>4, <1>5, <2>1, <2>2, <2>3 DEF Stores
<1> QED
  BY <1>6, <1>7, <1>8

\* A request that is sent from a tab: a question, or one that goes on.
LEMMA SendCounts ==
  ASSUME TypeOK, WaitsRight, AskedFirst, NEW t \in Tabs, NEW kind \in Kinds,
         NEW p \in Questions, NEW send \in BOOLEAN, SendFrom(t, kind, p, send),
         turns' = turns, breaks' = breaks, faults' = faults,
         NEW q \in Questions,
         Fresh(p) \/ (tabs[t].choice = p /\ kind # "stream")
  PROVE  Shrinks(q) \/ (\E n : Begins(q, n)) \/ (\E n : Chooses(q, t, n))
<1> DEFINE new == Len(reqs) + 1
<1>1. /\ DOMAIN reqs' = DOMAIN reqs \cup {new} /\ new \notin DOMAIN reqs
      /\ reqs'[new].kind = kind /\ reqs'[new].q = p
      /\ \A k \in DOMAIN reqs : reqs'[k] = reqs[k]
  BY SendIs DEF SendFrom
<1>2. /\ tabs'[t].wait = new /\ tabs'[t].choice = NoQuestion
      /\ \A u \in Tabs \ {t} : tabs'[u] = tabs[u]
  BY TabsAre DEF SendFrom, TypeOK, TabStates
<1> HIDE DEF new
<1>3. WaitsForNoMore
  BY <1>1, <1>2 DEF WaitsForNoMore, Waited
<1>4. Stored(q)' = Stored(q)
  BY DEF Stored
<1>5. Choosing(q)' \subseteq Choosing(q) \ {t}
  BY <1>2 DEF Choosing
<1>6. /\ Coming(q)' \subseteq Coming(q) \cup {new}
      /\ Failing(q)' \subseteq Failing(q) \cup {new}
      /\ Repeatable(q)' \subseteq Repeatable(q) \cup {new}
  BY <1>1, <1>3 DEF WaitsForNoMore, Coming, Failing, Repeatable
<1>7. new \notin Failing(q)'
  BY <1>1, SendIs DEF Failing, SendFrom, new
<1>8. CASE p # q
  <2>1. new \notin Coming(q)' /\ new \notin Repeatable(q)'
    BY <1>1, <1>8 DEF Coming, Repeatable
  <2> QED
    BY <1>4, <1>5, <1>6, <1>7, <2>1 DEF Shrinks
<1>9. CASE p = q /\ tabs[t].choice = p /\ kind # "stream"
  <2>1. new \notin Repeatable(q)'
    BY <1>1, <1>9 DEF Repeatable
  <2>2. t \in Choosing(q)
    BY <1>9 DEF Choosing
  <2>3. Chooses(q, t, new)
    BY <1>4, <1>5, <1>6, <1>7, <2>1, <2>2 DEF Chooses
  <2> QED
    BY <2>3
<1>10. CASE p = q /\ Fresh(p)
  <2>1. ~Asked(q) /\ q # Old /\ q # NoQuestion
    BY <1>10 DEF Asked, Fresh
  <2>2. Stored(q) = {} /\ Choosing(q) = {}
    BY <2>1 DEF AskedFirst, Stored, Choosing
  <2>3. Coming(q) = {} /\ Failing(q) = {} /\ Repeatable(q) = {}
    BY <2>1 DEF Asked, Coming, Failing, Repeatable
  <2>4. Begins(q, new)
    BY <1>4, <1>5, <1>6, <1>7, <2>2, <2>3 DEF Begins
  <2> QED
    BY <2>4
<1> QED
  BY <1>8, <1>9, <1>10

\* A response that is none: at a break, or of a request that failed.
LEMMA FailsCounts ==
  ASSUME TypeOK, WaitsRight, NEW t \in Tabs, tabs[t].wait # 0,
         Fails(t, tabs[t].wait), turns' = turns, NEW q \in Questions,
         breaks' > breaks \/ reqs[tabs[t].wait].at = "failed"
  PROVE  Shrinks(q) \/ (\E i, n : Repeats(q, i, n))
<1> DEFINE i == tabs[t].wait
           new == Len(reqs) + 1
<1>0. breaks' > breaks \/ reqs[i].at = "failed"
  OBVIOUS
<1>1. i \in DOMAIN reqs /\ i # new /\ new \notin DOMAIN reqs
  BY WaitingFor, ReqsAre
<1>2. \A k \in DOMAIN reqs :
        /\ k \in DOMAIN reqs'
        /\ reqs'[k].kind = reqs[k].kind /\ reqs'[k].q = reqs[k].q
        /\ reqs'[k].at = reqs[k].at
  BY <1>1, FailsIs
<1>3. Stored(q)' = Stored(q)
  BY DEF Stored
<1>4. CASE /\ reqs[i].kind = "stream"
           /\ DOMAIN reqs' = DOMAIN reqs \cup {new}
           /\ reqs'[new].kind = "post" /\ reqs'[new].q = reqs[i].q
           /\ tabs' = [tabs EXCEPT ![t].wait = new]
  <2>1. /\ tabs'[t].wait = new /\ tabs'[t].choice = tabs[t].choice
        /\ \A u \in Tabs \ {t} : tabs'[u] = tabs[u]
    BY <1>4, TabsAre DEF TypeOK, TabStates
  <2> HIDE DEF new, i
  <2>2. Choosing(q)' \subseteq Choosing(q)
    BY <2>1 DEF Choosing
  <2>3. \A k \in DOMAIN reqs : Waited(k)' => Waited(k) /\ k # i
    BY <1>1, <2>1 DEF Waited, WaitsRight, i
  <2>4. /\ Coming(q)' \subseteq Coming(q) \cup {new}
        /\ reqs[i].q # q => Coming(q)' \subseteq Coming(q)
    BY <1>2, <1>4, <2>3 DEF Coming
  <2>5. /\ Failing(q)' \subseteq Failing(q) \ {i}
        /\ Repeatable(q)' \subseteq Repeatable(q) \ {i}
    BY <1>2, <1>4, <2>3 DEF Failing, Repeatable
  <2>6. CASE reqs[i].q # q
    BY <1>3, <2>2, <2>4, <2>5, <2>6 DEF Shrinks
  <2>7. CASE reqs[i].q = q
    <3>1. Waited(i)
      BY DEF Waited, i
    <3>2. i \in Repeatable(q)
      BY <1>1, <1>4, <2>7, <3>1 DEF Repeatable
    <3>3. reqs[i].at = "failed" => i \in Failing(q) /\ i \notin Coming(q)'
      BY <1>1, <1>2, <1>4, <2>7, <3>1 DEF Failing, Coming
    <3>4. breaks' > breaks \/ (i \in Failing(q) /\ i \notin Coming(q)')
      BY <1>0, <3>3
    <3>5. Repeats(q, i, new)
      BY <1>3, <2>2, <2>4, <2>5, <3>2, <3>4 DEF Repeats
    <3> QED
      BY <3>5
  <2> QED
    BY <2>6, <2>7
<1>5. CASE /\ DOMAIN reqs' = DOMAIN reqs
           /\ \E b \in BOOLEAN : Settle(t, NoQuestion, b)
  <2>1. /\ tabs'[t].wait = 0 /\ tabs'[t].choice = NoQuestion
        /\ \A u \in Tabs \ {t} : tabs'[u] = tabs[u]
    BY <1>5, TabsAre DEF Settle, TypeOK, TabStates
  <2>2. 0 \notin DOMAIN reqs
    BY ReqsAre
  <2>3. WaitsForNoMore
    BY <2>1, <2>2 DEF WaitsForNoMore, Waited
  <2> QED
    BY <1>2, <1>3, <1>5, <2>3 DEF WaitsForNoMore, Shrinks, Choosing, Coming,
       Failing, Repeatable
<1> QED
  BY <1>1, <1>4, <1>5, FailsIs

LEMMA DeliverCounts ==
  ASSUME TypeOK, WaitsRight, NEW t \in Tabs, Deliver(t), NEW q \in Questions
  PROVE  \/ Shrinks(q)
         \/ \E i, n : Repeats(q, i, n)
         \/ \E n : Offers(q, n, t)
<1> DEFINE i == tabs[t].wait
<1>1. i # 0 /\ i \in DOMAIN reqs /\ turns' = turns
  BY WaitingFor DEF Deliver, dbVars
<1>2. StoresNoMore(q)
  BY <1>1, TurnsCount
<1>3. CASE reqs[i].at = "failed" /\ Fails(t, i)
  BY <1>1, <1>3, FailsCounts
<1>4. CASE /\ reqs[i].at \in {"answered", "refused"}
           /\ Becomes(i, "ended")
           /\ tabs'[t].wait = 0 /\ tabs'[t].choice = NoQuestion
           /\ \A u \in Tabs \ {t} : tabs'[u] = tabs[u]
  <2>1. 0 \notin DOMAIN reqs
    BY ReqsAre
  <2>2. WaitsForNoMore
    BY <1>4, <2>1 DEF WaitsForNoMore, Waited
  <2> QED
    BY <1>1, <1>2, <1>4, <2>2, BecomesCounts DEF Progress
<1>5. CASE /\ reqs[i].at = "exhausted"
           /\ Becomes(i, "ended")
           /\ tabs'[t].wait = 0 /\ tabs'[t].choice = reqs[i].q
           /\ \A u \in Tabs \ {t} : tabs'[u] = tabs[u]
  <2>1. /\ DOMAIN reqs' = DOMAIN reqs /\ reqs'[i].at = "ended"
        /\ \A k \in DOMAIN reqs :
             /\ reqs'[k].kind = reqs[k].kind /\ reqs'[k].q = reqs[k].q
             /\ k # i => reqs'[k] = reqs[k]
    BY <1>1, <1>5, BecomesIs DEF Progress
  <2>2. 0 \notin DOMAIN reqs
    BY ReqsAre
  <2>3. Waited(i)
    BY DEF Waited
  <2> HIDE DEF i
  <2>4. \A k \in DOMAIN reqs : Waited(k)' => Waited(k)
    BY <1>5, <2>2 DEF Waited
  <2>5. /\ Coming(q)' \subseteq Coming(q) \ {i}
        /\ Failing(q)' \subseteq Failing(q) /\ i \notin Failing(q)
        /\ Repeatable(q)' \subseteq Repeatable(q)
    BY <1>5, <2>1, <2>4 DEF Coming, Failing, Repeatable
  <2>6. CASE reqs[i].q = q
    <3>1. i \in Coming(q)
      BY <1>1, <1>5, <2>3, <2>6 DEF Coming
    <3>2. Choosing(q)' \subseteq Choosing(q) \cup {t}
      BY <1>5 DEF Choosing
    <3>3. Offers(q, i, t)
      BY <1>2, <2>5, <3>1, <3>2 DEF Offers, StoresNoMore
    <3> QED
      BY <3>3
  <2>7. CASE reqs[i].q # q
    <3>1. Choosing(q)' \subseteq Choosing(q)
      BY <1>5, <2>7 DEF Choosing
    <3> QED
      BY <1>2, <2>5, <3>1 DEF Shrinks, StoresNoMore
  <2> QED
    BY <2>6, <2>7
<1>6. \/ reqs[i].at = "failed" /\ Fails(t, i)
      \/ /\ reqs[i].at \in {"answered", "refused"} /\ Becomes(i, "ended")
         /\ tabs'[t].wait = 0 /\ tabs'[t].choice = NoQuestion
         /\ \A u \in Tabs \ {t} : tabs'[u] = tabs[u]
      \/ /\ reqs[i].at = "exhausted" /\ Becomes(i, "ended")
         /\ tabs'[t].wait = 0 /\ tabs'[t].choice = reqs[i].q
         /\ \A u \in Tabs \ {t} : tabs'[u] = tabs[u]
  BY TabsAre DEF Deliver, Settle, Page, TypeOK, TabStates
<1> QED
  BY <1>3, <1>4, <1>5, <1>6

\* Every step is one of those that Counts allows.
GetsOn(q) ==
  \/ Shrinks(q)
  \/ \E i, n : Stores(q, i, n) \/ Repeats(q, i, n)
  \/ \E t, n : Offers(q, n, t) \/ Chooses(q, t, n)
  \/ \E n : Begins(q, n)

LEMMA ServedCounts ==
  ASSUME TypeOK, NEW i \in DOMAIN reqs, NEW q \in Questions,
         \/ ReceiveStart(i) \/ ReceiveQuestion(i) \/ ReceiveStop(i)
         \/ PostAnswers(i) \/ StreamAnswers(i) \/ StreamExhausted(i)
         \/ StreamErrs(i) \/ Cancel(i) \/ Raises(i)
  PROVE  Shrinks(q) \/ \E n : Stores(q, i, n)
<1> USE DEF KeepsRest, Running
<1>1. tabs' = tabs
  BY DEF ReceiveStart, ReceiveQuestion, ReceiveStop, PostAnswers, StreamAnswers,
         StreamExhausted, StreamErrs, Cancel, Raises
<1>2. WaitsForNoMore
  BY <1>1 DEF WaitsForNoMore, Waited
<1>3. PICK at \in Progress :
        /\ Becomes(i, at) /\ reqs[i].at \in {"sent", "running"}
        /\ \/ UNCHANGED turns \/ LoadHistory
           \/ /\ AppendTurn(reqs[i].q)
              /\ at = "answered" \/ (at = "failed" /\ faults' = faults + 1)
  BY DEF ReceiveStart, ReceiveQuestion, ReceiveStop, PostAnswers, StreamAnswers,
         StreamExhausted, StreamErrs, Cancel, Raises, Progress, Answers,
         BackfillFails
<1>4. faults + 1 > faults
  BY DEF TypeOK
<1>5. CASE UNCHANGED turns \/ LoadHistory
  <2>1. StoresNoMore(q)
    BY <1>5, TurnsCount
  <2> QED
    BY <1>2, <1>3, <2>1, BecomesCounts
<1>6. CASE /\ AppendTurn(reqs[i].q)
           /\ at = "answered" \/ (at = "failed" /\ faults' = faults + 1)
  BY <1>2, <1>3, <1>4, <1>6, BecomesCounts
<1> QED
  BY <1>3, <1>5, <1>6

LEMMA StepCounts ==
  ASSUME TypeOK, WaitsRight, AskedFirst, [Next]_vars, NEW q \in Questions
  PROVE  GetsOn(q)
<1> USE DEF dbVars
<1>1. ASSUME NEW t \in Tabs, NEW p \in Questions, Start(t, p) \/ Ask(t, p)
      PROVE  GetsOn(q)
  <2>1. PICK kind \in Kinds : SendFrom(t, kind, p, FALSE)
    BY <1>1 DEF Start, Ask, Kinds
  <2>2. /\ Fresh(p) /\ turns' = turns /\ breaks' = breaks /\ faults' = faults
    BY <1>1 DEF Start, Ask
  <2> QED
    BY <2>1, <2>2, SendCounts DEF GetsOn
<1>2. ASSUME NEW t \in Tabs, KeepLooking(t) \/ StopLooking(t)
      PROVE  GetsOn(q)
  <2>1. tabs[t].choice \in Questions /\ tabs[t].send \in BOOLEAN
    BY <1>2, TabsAre DEF KeepLooking, StopLooking, TabStates
  <2>2. PICK kind \in Kinds :
          kind # "stream" /\ SendFrom(t, kind, tabs[t].choice, tabs[t].send)
    BY <1>2 DEF KeepLooking, StopLooking, Kinds
  <2>3. turns' = turns /\ breaks' = breaks /\ faults' = faults
    BY <1>2 DEF KeepLooking, StopLooking
  <2> QED
    BY <2>1, <2>2, <2>3, SendCounts DEF GetsOn
<1>3. ASSUME NEW t \in Tabs, Open(t)
      PROVE  GetsOn(q)
  <2>1. /\ DOMAIN reqs' = DOMAIN reqs
        /\ \A k \in DOMAIN reqs :
             /\ reqs'[k].kind = reqs[k].kind /\ reqs'[k].q = reqs[k].q
             /\ reqs'[k].at = reqs[k].at
    <3>1. CASE tabs[t].wait = 0
      BY <1>3, <3>1 DEF Open, Drop
    <3>2. CASE tabs[t].wait # 0
      BY <1>3, <3>2, WaitingFor, DropsIs DEF Open, Drop
    <3> QED
      BY <3>1, <3>2
  <2>2. /\ tabs'[t].wait = 0 /\ tabs'[t].choice = NoQuestion
        /\ \A u \in Tabs \ {t} : tabs'[u] = tabs[u]
    BY <1>3, TabsAre DEF Open, Page, TypeOK
  <2>3. WaitsForNoMore
    BY <2>2, ReqsAre DEF WaitsForNoMore, Waited
  <2>4. StoresNoMore(q)
    BY <1>3, TurnsCount DEF Open, BackfillFails
  <2>5. Shrinks(q)
    BY <2>1, <2>3, <2>4 DEF WaitsForNoMore, StoresNoMore, Shrinks, Choosing,
       Coming, Failing, Repeatable
  <2> QED
    BY <2>5 DEF GetsOn
<1>4. ASSUME NEW t \in Tabs, Deliver(t)
      PROVE  GetsOn(q)
  BY <1>4, DeliverCounts DEF GetsOn
<1>5. ASSUME NEW t \in Tabs, Break(t)
      PROVE  GetsOn(q)
  <2>1. breaks' > breaks
    BY <1>5 DEF Break, TypeOK
  <2>2. turns' = turns /\ tabs[t].wait # 0 /\ Fails(t, tabs[t].wait)
    BY <1>5 DEF Break
  <2> QED
    BY <2>1, <2>2, FailsCounts DEF GetsOn
<1>6. ASSUME NEW i \in DOMAIN reqs,
             \/ ReceiveStart(i) \/ ReceiveQuestion(i) \/ ReceiveStop(i)
             \/ PostAnswers(i) \/ StreamAnswers(i) \/ StreamExhausted(i)
             \/ StreamErrs(i) \/ Cancel(i) \/ Raises(i)
      PROVE  GetsOn(q)
  BY <1>6, ServedCounts DEF GetsOn
<1>7. CASE DeleteSession \/ Unshare \/ UNCHANGED vars
  <2>1. reqs' = reqs /\ tabs' = tabs /\ (turns' = turns \/ turns' = <<>>)
    BY <1>7 DEF DeleteSession, Unshare, vars
  <2>2. StoresNoMore(q)
    BY <2>1, TurnsCount
  <2>3. Shrinks(q)
    BY <2>1, <2>2 DEF StoresNoMore, Shrinks, Choosing, Coming, Failing,
       Repeatable, Waited
  <2> QED
    BY <2>3 DEF GetsOn
<1> QED
  BY <1>1, <1>2, <1>3, <1>4, <1>5, <1>6, <1>7, NextCases

LEMMA FailsOffers ==
  ASSUME TypeOK, NEW t \in Tabs, NEW i \in DOMAIN reqs, Fails(t, i)
  PROVE  \A u \in Tabs : tabs'[u].choice \in {tabs[u].choice, NoQuestion}
<1>1. CASE tabs' = [tabs EXCEPT ![t].wait = Len(reqs) + 1]
  BY <1>1, TabsAre DEF TypeOK, TabStates
<1>2. CASE \E b \in BOOLEAN : Settle(t, NoQuestion, b)
  <2>1. /\ tabs'[t].choice = NoQuestion
        /\ \A u \in Tabs \ {t} : tabs'[u] = tabs[u]
    BY <1>2, TabsAre DEF Settle, TypeOK, TabStates
  <2> QED
    BY <2>1
<1> QED
  BY <1>1, <1>2, FailsIs

LEMMA AskedStep ==
  ASSUME TypeOK, WaitsRight, AskedFirst, [Next]_vars
  PROVE  AskedFirst'
<1> USE DEF dbVars, KeepsRest
<1>1. /\ \A k \in DOMAIN reqs : k \in DOMAIN reqs' /\ reqs'[k].q = reqs[k].q
      /\ \A t \in Tabs :
           \/ tabs'[t].choice \in {tabs[t].choice, NoQuestion}
           \/ \E i \in DOMAIN reqs : tabs'[t].choice = reqs[i].q
      /\ \/ UNCHANGED turns \/ LoadHistory \/ turns' = <<>>
         \/ \E i \in DOMAIN reqs : AppendTurn(reqs[i].q)
  <2>1. ASSUME NEW t \in Tabs, NEW kind \in Kinds, NEW q \in Questions,
               NEW send \in BOOLEAN, SendFrom(t, kind, q, send), turns' = turns
        PROVE  <1>1
    <3>1. \A k \in DOMAIN reqs : k \in DOMAIN reqs' /\ reqs'[k].q = reqs[k].q
      BY <2>1, SendIs DEF SendFrom
    <3>2. \A u \in Tabs : tabs'[u].choice \in {tabs[u].choice, NoQuestion}
      BY <2>1, TabsAre DEF SendFrom, TypeOK, TabStates
    <3> QED
      BY <2>1, <3>1, <3>2
  <2>2. ASSUME NEW t \in Tabs, NEW q \in Questions, Start(t, q) \/ Ask(t, q)
        PROVE  <1>1
    <3>1. turns' = turns /\ \E kind \in Kinds : SendFrom(t, kind, q, FALSE)
      BY <2>2 DEF Start, Ask, Kinds
    <3> QED
      BY <3>1, <2>1
  <2>3. ASSUME NEW t \in Tabs, KeepLooking(t) \/ StopLooking(t)
        PROVE  <1>1
    <3>1. tabs[t].choice \in Questions /\ tabs[t].send \in BOOLEAN
      BY <2>3, TabsAre DEF KeepLooking, StopLooking, TabStates
    <3>2. /\ turns' = turns
          /\ \E kind \in Kinds : SendFrom(t, kind, tabs[t].choice, tabs[t].send)
      BY <2>3 DEF KeepLooking, StopLooking, Kinds
    <3> QED
      BY <3>1, <3>2, <2>1
  <2>4. ASSUME NEW t \in Tabs, Open(t)
        PROVE  <1>1
    <3>1. \A k \in DOMAIN reqs : k \in DOMAIN reqs' /\ reqs'[k].q = reqs[k].q
      BY <2>4, WaitingFor, DropsIs DEF Open, Drop
    <3>2. /\ tabs'[t].choice = NoQuestion
          /\ \A u \in Tabs \ {t} : tabs'[u] = tabs[u]
      BY <2>4, TabsAre DEF Open, Page, TypeOK
    <3> QED
      BY <2>4, <3>1, <3>2 DEF Open, BackfillFails
  <2>5. ASSUME NEW t \in Tabs, Deliver(t) \/ Break(t)
        PROVE  <1>1
    <3> DEFINE i == tabs[t].wait
    <3>1. i \in DOMAIN reqs /\ turns' = turns
      BY <2>5, WaitingFor DEF Deliver, Break
    <3>2. CASE Fails(t, i)
      <4>1. \A k \in DOMAIN reqs : k \in DOMAIN reqs' /\ reqs'[k].q = reqs[k].q
        BY <3>1, <3>2, FailsIs
      <4>2. \A u \in Tabs : tabs'[u].choice \in {tabs[u].choice, NoQuestion}
        BY <3>1, <3>2, FailsOffers
      <4> QED
        BY <3>1, <4>1, <4>2
    <3>3. CASE Becomes(i, "ended") /\ Deliver(t)
      <4>1. \A k \in DOMAIN reqs : k \in DOMAIN reqs' /\ reqs'[k].q = reqs[k].q
        BY <3>1, <3>3, BecomesIs DEF Progress
      <4>2. \A u \in Tabs : \/ tabs'[u].choice \in {tabs[u].choice, NoQuestion}
                            \/ tabs'[u].choice = reqs[i].q
        <5>1. \/ Fails(t, i)
              \/ /\ \A u \in Tabs \ {t} : tabs'[u] = tabs[u]
                 /\ tabs'[t].choice \in {NoQuestion, reqs[i].q}
          BY <3>3, TabsAre DEF Deliver, Settle, Page, TypeOK, TabStates
        <5>2. CASE Fails(t, i)
          BY <3>1, <5>2, FailsOffers
        <5> QED
          BY <5>1, <5>2
      <4> QED
        BY <3>1, <4>1, <4>2
    <3> QED
      BY <2>5, <3>2, <3>3 DEF Deliver, Break
  <2>6. ASSUME NEW i \in DOMAIN reqs,
               \/ ReceiveStart(i) \/ ReceiveQuestion(i) \/ ReceiveStop(i)
               \/ PostAnswers(i) \/ StreamAnswers(i) \/ StreamExhausted(i)
               \/ StreamErrs(i) \/ Cancel(i) \/ Raises(i)
        PROVE  <1>1
    <3>1. \E at \in Progress : Becomes(i, at)
      BY <2>6 DEF ReceiveStart, ReceiveQuestion, ReceiveStop, PostAnswers,
           StreamAnswers, StreamExhausted, StreamErrs, Cancel, Raises, Answers,
           Progress
    <3>2. \A k \in DOMAIN reqs : k \in DOMAIN reqs' /\ reqs'[k].q = reqs[k].q
      BY <3>1, BecomesIs
    <3>3. tabs' = tabs /\ (UNCHANGED turns \/ LoadHistory \/ AppendTurn(reqs[i].q))
      BY <2>6 DEF ReceiveStart, ReceiveQuestion, ReceiveStop, PostAnswers,
           StreamAnswers, StreamExhausted, StreamErrs, Cancel, Raises, BackfillFails
    <3> QED
      BY <3>2, <3>3
  <2>7. CASE DeleteSession \/ Unshare \/ UNCHANGED vars
    BY <2>7 DEF DeleteSession, Unshare, vars
  <2> QED
    BY <2>2, <2>3, <2>4, <2>5, <2>6, <2>7, NextCases
<1>2. /\ \A q : Asked(q) => Asked(q)'
      /\ \A i \in DOMAIN reqs : Asked(reqs[i].q)
  BY <1>1 DEF Asked
<1>3. \A t \in Tabs : (tabs[t].choice = NoQuestion \/ Asked(tabs[t].choice))'
  BY <1>1, <1>2 DEF AskedFirst
<1>4. \A n \in DOMAIN turns' : (turns[n] = Old \/ Asked(turns[n]))'
  <2>1. CASE UNCHANGED turns \/ LoadHistory \/ turns' = <<>>
    BY <1>2, <2>1 DEF AskedFirst, LoadHistory
  <2>2. ASSUME NEW i \in DOMAIN reqs, AppendTurn(reqs[i].q)
        PROVE  <1>4
    <3>1. turns \in Seq(Questions \cup {Old}) /\ reqs[i].q \in Questions
      BY ReqsAre DEF TypeOK, Requests
    <3>2. \A n \in DOMAIN turns' :
            turns'[n] = reqs[i].q \/ (n \in DOMAIN turns /\ turns'[n] = turns[n])
      BY <2>2, <3>1, AppendProperties, LenProperties DEF AppendTurn
    <3> QED
      BY <1>2, <3>2 DEF AskedFirst
  <2> QED
    BY <1>1, <2>1, <2>2
<1> QED
  BY <1>3, <1>4 DEF AskedFirst

LEMMA NothingYet ==
  ASSUME Init, NEW q \in Questions
  PROVE  AskedFirst /\ Paid(q) /\ Twice(q)
<1>1. q # NoQuestion /\ DOMAIN turns = {} /\ DOMAIN reqs = {}
  BY DEF Init
<1>2. \A t \in Tabs : tabs[t].choice = NoQuestion
  BY DEF Init, Page
<1>3. /\ Stored(q) = {} /\ Coming(q) = {} /\ Failing(q) = {}
      /\ Choosing(q) = {} /\ Repeatable(q) = {}
  BY <1>1, <1>2 DEF Stored, Coming, Failing, Choosing, Repeatable
<1>4. Tokens({}, {}, {}, {}) = {} /\ {} \cup {} = {}
  BY DEF Tokens
<1>5. breaks = 0 /\ faults = 0
  BY DEF Init
<1>6. AtMost({}, 1 + 0 + 0) /\ AtMost({}, 2)
  BY NoneThere, Fewer
<1>7. Paid(q) /\ Twice(q)
  BY <1>3, <1>4, <1>5, <1>6 DEF Paid, Twice
<1>8. AskedFirst
  BY <1>1, <1>2 DEF AskedFirst
<1> QED
  BY <1>7, <1>8

\* The turns of a question are among what is counted with them.
LEMMA TimesCounted ==
  ASSUME NEW q, NEW R, NEW C, NEW A, NEW n \in Nat,
         AtMost(Tokens(Stored(q), R, C, A), n)
  PROVE  Times(q) <= n
<1> DEFINE Turns == {<<"turn", m>> : m \in Stored(q)}
           f == [m \in Stored(q) |-> <<"turn", m>>]
<1>1. Turns \subseteq Tokens(Stored(q), R, C, A)
  BY DEF Tokens
<1>2. IsFiniteSet(Turns) /\ Cardinality(Turns) <= Cardinality(Tokens(Stored(q), R, C, A))
  BY <1>1, FS_Subset DEF AtMost
<1>3. f \in Injection(Stored(q), Turns)
  BY DEF Injection, IsInjective
<1>4. IsFiniteSet(Stored(q)) /\ Cardinality(Stored(q)) <= Cardinality(Turns)
  <2> HIDE DEF f, Turns
  <2> QED
    BY <1>2, <1>3, FS_Injection DEF ExistsInjection
<1>5. Times(q) = Cardinality(Stored(q))
  BY DEF Times, Stored
<1>6. /\ Cardinality(Stored(q)) \in Nat /\ Cardinality(Turns) \in Nat
      /\ Cardinality(Tokens(Stored(q), R, C, A)) \in Nat
      /\ Cardinality(Tokens(Stored(q), R, C, A)) <= n
  BY <1>2, <1>4, FS_CardinalityType DEF AtMost
<1> QED
  BY <1>2, <1>4, <1>5, <1>6

\* A question is stored no more often than once and once more for each break and
\* fault, and never three times, for any number of tabs, questions and requests.
THEOREM RepeatsHaveCauses == Spec => []DuplicatesHaveCauses
<1> DEFINE AllPaid == \A q \in Questions : Paid(q) /\ Twice(q)
<1>1. Init => TypeOK /\ WaitsRight /\ AskedFirst /\ AllPaid
  <2> SUFFICES ASSUME Init PROVE AskedFirst /\ AllPaid
    BY TypeInit
  <2>1. AllPaid
    BY NothingYet
  <2>2. AskedFirst
    BY DEF Init, Page, AskedFirst
  <2> QED
    BY <2>1, <2>2
<1>2. TypeOK /\ WaitsRight /\ AskedFirst /\ AllPaid /\ [Next]_vars => AllPaid'
  <2> SUFFICES ASSUME TypeOK, WaitsRight, AskedFirst, AllPaid, [Next]_vars,
                      NEW q \in Questions
               PROVE  Paid(q)' /\ Twice(q)'
    OBVIOUS
  <2>1. GetsOn(q)
    BY StepCounts
  <2>2. Paid(q) /\ Twice(q)
    OBVIOUS
  <2> QED
    BY <2>1, <2>2, Counts DEF GetsOn
<1>3. TypeOK /\ AllPaid => DuplicatesHaveCauses
  <2> SUFFICES ASSUME TypeOK, AllPaid, NEW q \in Questions
               PROVE  Times(q) <= 1 + breaks + faults /\ Times(q) <= 2
    BY DEF DuplicatesHaveCauses
  <2>1. 1 + breaks + faults \in Nat /\ 2 \in Nat
    BY DEF TypeOK
  <2>2. Paid(q) /\ Twice(q)
    OBVIOUS
  <2>3. Times(q) <= 1 + breaks + faults
    BY <2>1, <2>2, TimesCounted DEF Paid
  <2>4. Times(q) <= 2
    BY <2>1, <2>2, TimesCounted DEF Twice
  <2> QED
    BY <2>3, <2>4
<1> HIDE DEF AllPaid
<1>4. Spec => [](TypeOK /\ WaitsRight /\ AskedFirst /\ AllPaid)
  BY <1>1, <1>2, TypeStep, WaitsStep, AskedStep, PTL DEF Spec
<1> QED
  BY <1>3, <1>4, PTL
===============================================================================
