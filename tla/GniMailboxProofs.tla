--------------------------- MODULE GniMailboxProofs ---------------------------
(***************************************************************************)
(* Theorems about GniMailbox, for every number of clients and requests and *)
(* all sizes of the mailboxes and the queue: credits are exact, a          *)
(* connection is a bounded channel, and the request queue keeps what the   *)
(* application has not received.                                           *)
(***************************************************************************)
EXTENDS GniMailbox, SequenceTheorems, FiniteSetTheorems, TLAPS

\* What is in a slot or an element is a request, or it was never written.
Content == Requests \union {NONE}

\* The types the argument needs.  Counts may be any numbers here.
ClientTypes ==
    /\ pc \in [Clients -> {"idle", "fetch", "swap", "post", "progress", "resend"}]
    /\ wr \in [Clients -> Content]
    /\ resend \in [Clients -> Seq(Content)]
    /\ credits \in [Clients -> Int]
    /\ seen \in [Clients -> Int]
    /\ mbox_index \in [Clients -> Nat]

NetworkTypes ==
    /\ posted \in [Clients -> Seq([request : Content, slot : Slots])]
    /\ delivered \in [Clients -> Nat]
    /\ mbox \in [Clients -> [Slots -> Content]]

ServerTypes ==
    /\ spc \in {"idle", "progress", "backlog", "credit", "finish"}
    /\ reqs_received \in [Clients -> Nat]
    /\ req_index \in Nat
    /\ mbox_backlog \in Seq([conn : Clients, queue_index : Elements, mbox_index : Slots])
    /\ copied \in [Clients -> Seq(Content)]

\* A credit on its way back belongs to the head of the backlog.
HasHead == spc = "credit" => mbox_backlog # <<>>

\* A credit is taken only if there is one.
NotNegative ==
    \A c \in Clients : credits[c] >= 0 /\ (pc[c] = "swap" => seen[c] > 0)

Types == ClientTypes /\ NetworkTypes /\ ServerTypes

IInv == Types /\ HasHead /\ NotNegative /\ CreditsAccounted

-----------------------------------------------------------------------------
\* Indices go round.
LEMMA SlotsWrap == ASSUME NEW i \in Nat PROVE i % MaxCredits \in Slots
BY Assumptions DEF Assumptions, Slots

LEMMA ElementsWrap == ASSUME NEW i \in Nat PROVE i % QueueSize \in Elements
BY Assumptions DEF Assumptions, Elements

\* The invariant holds at the beginning.
LEMMA InitIInv == Init => IInv
BY Assumptions DEF Assumptions, Init, IInv, Types, ClientTypes, NetworkTypes, ServerTypes, HasHead,
   NotNegative,
   CreditsAccounted, InHand, OnItsWay, Content, Slots, Elements

\* At the end of a pass a client is outside the sending of a request.
LEMMA PassPlaces ==
    ASSUME NEW c \in Clients, PassIsOver(c)
    PROVE  /\ pc' = [pc EXCEPT ![c] = "idle"] \/ pc' = [pc EXCEPT ![c] = "progress"]
           /\ wr' = [wr EXCEPT ![c] = NONE]
BY DEF PassIsOver, Goto

\* Appending to one of several sequences, and taking from one.
LEMMA AppendAt ==
    ASSUME NEW S, NEW f \in [Clients -> Seq(S)], NEW c \in Clients, NEW e \in S
    PROVE  [f EXCEPT ![c] = Append(f[c], e)] \in [Clients -> Seq(S)]
OBVIOUS

LEMMA AppendLen ==
    ASSUME NEW S, NEW f \in [Clients -> Seq(S)], NEW c \in Clients, NEW e, NEW x \in Clients
    PROVE  Len([f EXCEPT ![c] = Append(f[c], e)][x]) = IF x = c THEN Len(f[x]) + 1 ELSE Len(f[x])
OBVIOUS

LEMMA ElementIn ==
    ASSUME NEW S, NEW s \in Seq(S), NEW i \in 1 .. Len(s) PROVE s[i] \in S
OBVIOUS

LEMMA HeadIn ==
    ASSUME NEW S, NEW s \in Seq(S), s # <<>> PROVE Head(s) \in S
OBVIOUS

\* The head of the backlog names a client and a slot.
LEMMA HeadOfBacklog ==
    ASSUME ServerTypes, mbox_backlog # <<>>
    PROVE  Head(mbox_backlog).conn \in Clients /\ Head(mbox_backlog).mbox_index \in Slots
<1>1. Head(mbox_backlog) \in [conn : Clients, queue_index : Elements, mbox_index : Slots]
  BY HeadIn DEF ServerTypes
<1>2. QED
  BY <1>1

\* The sum of which CreditsAccounted says that it is MaxCredits.
NPosted(c) == Len(posted[c])
NCopied(c) == Len(copied[c])
Balance(c) == credits[c] + InHand(c) + (NPosted(c) - NCopied(c)) + OnItsWay(c)

\* The sum is kept if no client's changes; its terms are numbers.
LEMMA InBalance ==
    ASSUME CreditsAccounted, \A c \in Clients : Balance(c)' = Balance(c)
    PROVE  CreditsAccounted'
BY DEF CreditsAccounted, Balance, NPosted, NCopied

LEMMA BalanceTypes ==
    ASSUME ClientTypes, NetworkTypes, ServerTypes, NEW x \in Clients
    PROVE  /\ credits[x] \in Int
           /\ NPosted(x) \in Int
           /\ NCopied(x) \in Int
           /\ InHand(x) \in Int
           /\ OnItsWay(x) \in Int
BY DEF ClientTypes, NetworkTypes, ServerTypes, InHand, OnItsWay, NPosted, NCopied

\* Types are kept, given that a credit on its way back has a backlog to belong to.
LEMMA StepTypes == Types /\ HasHead /\ [Next]_vars => Types'
<1> SUFFICES ASSUME Types, HasHead, [Next]_vars PROVE Types'
  OBVIOUS
<1> USE DEF Types
<1>1. ASSUME NEW c \in Clients, NEW r \in Requests, NNTI_gni_send(c, r) PROVE Types'
  BY <1>1 DEF NNTI_gni_send, Goto, network, server, flow, ClientTypes, NetworkTypes, ServerTypes,
     HasHead, Content
<1>2. ASSUME NEW c \in Clients, NEW r \in Requests, WaitForSend(c, r) PROVE Types'
  BY <1>2 DEF WaitForSend, Goto, flow, network, server, ClientTypes, NetworkTypes, ServerTypes,
     HasHead, Content
<1>3. ASSUME NEW c \in Clients, FetchCredits(c) PROVE Types'
  BY <1>3 DEF FetchCredits, Goto, network, server, ClientTypes, NetworkTypes, ServerTypes,
     HasHead, Content
<1>4. ASSUME NEW c \in Clients, NoCredit(c) PROVE Types'
  <2>1. ClientTypes'
    <3>1. CASE Resending(c)
      <4>1. PassIsOver(c) /\ UNCHANGED <<resend, credits, seen, mbox_index>>
        BY <1>4, <3>1 DEF NoCredit, flow
      <4>2. QED
        BY <4>1, PassPlaces DEF ClientTypes, Content
    <3>2. CASE ~Resending(c)
      <4>1. resend' = [resend EXCEPT ![c] = Append(resend[c], wr[c])]
        BY <1>4, <3>2 DEF NoCredit, insert_resend
      <4>2. Append(resend[c], wr[c]) \in Seq(Content)
        BY DEF ClientTypes
      <4>3. resend' \in [Clients -> Seq(Content)]
        BY <4>1, <4>2 DEF ClientTypes
      <4>4. QED
        BY <1>4, <3>2, <4>3 DEF NoCredit, SendReturns, Goto, flow, ClientTypes, Content
    <3>3. QED
      BY <3>1, <3>2
  <2>2. NetworkTypes' /\ ServerTypes'
    BY <1>4 DEF NoCredit, network, server, NetworkTypes, ServerTypes
  <2>3. QED
    BY <2>1, <2>2
<1>5. ASSUME NEW c \in Clients, TakeCredit(c) PROVE Types'
  <2>1. ClientTypes'
    BY <1>5 DEF TakeCredit, Goto, network, server, ClientTypes, Content, HasHead
  <2>2. NetworkTypes'
    BY <1>5 DEF TakeCredit, Goto, network, server, NetworkTypes, Content, HasHead
  <2>3. ServerTypes'
    BY <1>5 DEF TakeCredit, Goto, network, server, ServerTypes, Content, HasHead
  <2> QED
    BY <2>1, <2>2, <2>3
<1>6. ASSUME NEW c \in Clients, RetryCredit(c) PROVE Types'
  <2>1. ClientTypes'
    BY <1>6 DEF RetryCredit, Goto, network, server, ClientTypes, Content, HasHead
  <2>2. NetworkTypes'
    BY <1>6 DEF RetryCredit, Goto, network, server, NetworkTypes, Content, HasHead
  <2>3. ServerTypes'
    BY <1>6 DEF RetryCredit, Goto, network, server, ServerTypes, Content, HasHead
  <2> QED
    BY <2>1, <2>2, <2>3
<1>7. ASSUME NEW c \in Clients, SendDirectly(c) PROVE Types'
  <2>1. ClientTypes'
    BY <1>7 DEF SendDirectly, PostFma, SendReturns, Goto, ClientTypes, Content
  <2>2. NetworkTypes'
    <3>1. NextSlot(c) \in Slots
      BY SlotsWrap DEF NextSlot, ClientTypes
    <3>2. [request |-> wr[c], slot |-> NextSlot(c)] \in [request : Content, slot : Slots]
      BY <3>1 DEF ClientTypes
    <3>3. posted' = [posted EXCEPT ![c] = Append(posted[c], [request |-> wr[c], slot |-> NextSlot(c)])]
      BY <1>7 DEF SendDirectly, PostFma
    <3>4. posted' \in [Clients -> Seq([request : Content, slot : Slots])]
      BY <3>2, <3>3, AppendAt DEF NetworkTypes
    <3>5. QED
      BY <1>7, <3>4 DEF SendDirectly, NetworkTypes
  <2>3. ServerTypes'
    BY <1>7 DEF SendDirectly, server, ServerTypes
  <2>4. QED
    BY <2>1, <2>2, <2>3
<1>8. ASSUME NEW c \in Clients, SendAgain(c) PROVE Types'
  <2>1. ClientTypes'
    <3>1. resend[c] \in Seq(Content) /\ resend[c] # <<>>
      BY <1>8 DEF SendAgain, Resending, ClientTypes
    <3>2. Tail(resend[c]) \in Seq(Content) /\ (Len(resend[c]) > 1 => resend[c][2] \in Content)
      BY <3>1
    <3>3. resend' \in [Clients -> Seq(Content)]
      BY <1>8, <3>2 DEF SendAgain, ClientTypes
    <3>4. mbox_index' \in [Clients -> Nat]
      BY <1>8 DEF SendAgain, PostFma, ClientTypes
    <3>5. CASE Len(resend[c]) > 1
      BY <1>8, <3>2, <3>3, <3>4, <3>5 DEF SendAgain, Goto, ClientTypes, Content
    <3>6. CASE ~(Len(resend[c]) > 1)
      <4>1. PassIsOver(c) /\ UNCHANGED <<credits, seen>>
        BY <1>8, <3>6 DEF SendAgain
      <4>2. QED
        BY <3>3, <3>4, <4>1, PassPlaces DEF ClientTypes, Content
    <3>7. QED
      BY <3>5, <3>6
  <2>2. NetworkTypes'
    <3>1. NextSlot(c) \in Slots
      BY SlotsWrap DEF NextSlot, ClientTypes
    <3>2. [request |-> wr[c], slot |-> NextSlot(c)] \in [request : Content, slot : Slots]
      BY <3>1 DEF ClientTypes
    <3>3. posted' = [posted EXCEPT ![c] = Append(posted[c], [request |-> wr[c], slot |-> NextSlot(c)])]
      BY <1>8 DEF SendAgain, PostFma
    <3>4. posted' \in [Clients -> Seq([request : Content, slot : Slots])]
      BY <3>2, <3>3, AppendAt DEF NetworkTypes
    <3>5. QED
      BY <1>8, <3>4 DEF SendAgain, NetworkTypes
  <2>3. ServerTypes'
    BY <1>8 DEF SendAgain, server, ServerTypes
  <2>4. QED
    BY <2>1, <2>2, <2>3
<1>9. ASSUME NEW c \in Clients, SendCompletes(c) PROVE Types'
  BY <1>9 DEF SendCompletes, Goto, flow, server, ClientTypes, NetworkTypes, ServerTypes, HasHead,
     Content
<1>10. ASSUME NEW c \in Clients, SendTimesOut(c) PROVE Types'
  BY <1>10 DEF SendTimesOut, Goto, flow, network, server, ClientTypes, NetworkTypes, ServerTypes,
     HasHead, Content
<1>11. ASSUME NEW c \in Clients, resend_all(c) PROVE Types'
  <2>1. ClientTypes'
    <3>1. CASE resend[c] = <<>>
      <4>1. PassIsOver(c) /\ UNCHANGED <<resend, credits, seen, mbox_index>>
        BY <1>11, <3>1 DEF resend_all, flow
      <4>2. QED
        BY <4>1, PassPlaces DEF ClientTypes, Content
    <3>2. CASE resend[c] # <<>>
      <4>1. Head(resend[c]) \in Content
        BY <3>2 DEF ClientTypes
      <4>2. QED
        BY <1>11, <3>2, <4>1 DEF resend_all, Goto, flow, ClientTypes, Content
    <3>3. QED
      BY <3>1, <3>2
  <2>2. NetworkTypes' /\ ServerTypes'
    BY <1>11 DEF resend_all, network, server, NetworkTypes, ServerTypes
  <2>3. QED
    BY <2>1, <2>2
<1>12. ASSUME NEW c \in Clients, Deliver(c) PROVE Types'
  <2>1. ClientTypes' /\ ServerTypes'
    BY <1>12 DEF Deliver, client, sending, flow, server, ClientTypes, ServerTypes
  <2>2. NetworkTypes'
    <3> DEFINE p == posted[c][delivered[c] + 1]
    <3>1. p \in [request : Content, slot : Slots]
      <4>1. delivered[c] + 1 \in 1 .. Len(posted[c])
        BY <1>12 DEF Deliver, NetworkTypes
      <4>2. posted[c] \in Seq([request : Content, slot : Slots])
        BY DEF NetworkTypes
      <4>3. QED
        BY <4>1, <4>2, ElementIn
    <3>2. mbox' = [mbox EXCEPT ![c] = [mbox[c] EXCEPT ![p.slot] = p.request]]
      BY <1>12 DEF Deliver
    <3>3. [mbox[c] EXCEPT ![p.slot] = p.request] \in [Slots -> Content]
      BY <3>1 DEF NetworkTypes
    <3>4. mbox' \in [Clients -> [Slots -> Content]]
      BY <3>2, <3>3, AppendAt DEF NetworkTypes
    <3>5. QED
      <4>1. UNCHANGED posted /\ delivered' \in [Clients -> Nat]
        BY <1>12 DEF Deliver, NetworkTypes
      <4>2. QED
        BY <3>4, <4>1 DEF NetworkTypes
  <2>3. QED
    BY <2>1, <2>2
<1>13. ASSUME NNTI_gni_create_work_request PROVE Types'
  BY <1>13 DEF NNTI_gni_create_work_request, client, sending, flow, network, ClientTypes,
     NetworkTypes, ServerTypes, HasHead, Content
<1>14. ASSUME NNTI_gni_destroy_work_request PROVE Types'
  <2>1. req_index' \in Nat
    <3>1. PICK t : req_index' = ResetIndex(t)
      BY <1>14 DEF NNTI_gni_destroy_work_request
    <3>2. QED
      BY <3>1 DEF ResetIndex, ServerTypes
  <2>2. QED
    BY <1>14, <2>1 DEF NNTI_gni_destroy_work_request, client, sending, flow, network,
       ClientTypes, NetworkTypes, ServerTypes
<1>15. ASSUME NEW what \in {"queue", "other"}, ServerWaits(what) PROVE Types'
  BY <1>15 DEF ServerWaits, client, sending, flow, network, queue, ClientTypes, NetworkTypes,
     ServerTypes, HasHead, Content
<1>16. ASSUME NEW c \in Clients, RequestArrives(c) PROVE Types'
  <2>1. ClientTypes'
    BY <1>16, SlotsWrap, ElementsWrap DEF RequestArrives, PutBack, client, sending, flow,
       network, queue, ClientTypes, Content, HasHead
  <2>2. NetworkTypes'
    BY <1>16, SlotsWrap, ElementsWrap DEF RequestArrives, PutBack, client, sending, flow,
       network, queue, NetworkTypes, Content, HasHead
  <2>3. ServerTypes'
    BY <1>16, SlotsWrap, ElementsWrap DEF RequestArrives, PutBack, client, sending, flow,
       network, queue, ServerTypes, Content, HasHead, NetworkTypes
  <2> QED
    BY <2>1, <2>2, <2>3
<1>17. ASSUME NothingArrives PROVE Types'
  BY <1>17 DEF NothingArrives, client, sending, flow, network, queue, ClientTypes, NetworkTypes,
     ServerTypes, HasHead, Content
<1>18. ASSUME execute_mbox_copy PROVE Types'
  <2> DEFINE b == Head(mbox_backlog)
  <2>1. b.conn \in Clients /\ b.mbox_index \in Slots
    <3>1. mbox_backlog # <<>>
      BY <1>18 DEF execute_mbox_copy, Copyable
    <3>2. QED
      BY <3>1, HeadOfBacklog
  <2>2. mbox[b.conn][b.mbox_index] \in Content
    BY <2>1 DEF NetworkTypes
  <2>3. copied' = [copied EXCEPT ![b.conn] = Append(copied[b.conn], mbox[b.conn][b.mbox_index])]
    BY <1>18 DEF execute_mbox_copy
  <2>4. copied' \in [Clients -> Seq(Content)]
    BY <2>1, <2>2, <2>3 DEF ServerTypes
  <2>5. ServerTypes'
    BY <1>18, <2>4 DEF execute_mbox_copy, ServerTypes
  <2>6. QED
    BY <1>18, <2>5 DEF execute_mbox_copy, client, sending, flow, network, ClientTypes, NetworkTypes
<1>19. ASSUME send_back_credits PROVE Types'
  <2> DEFINE b == Head(mbox_backlog)
  <2>1. mbox_backlog # <<>> /\ b.conn \in Clients
    <3>1. mbox_backlog # <<>>
      BY <1>19 DEF send_back_credits, HasHead
    <3>2. QED
      BY <3>1, HeadOfBacklog
  <2>2. credits' = [credits EXCEPT ![b.conn] = credits[b.conn] + 1]
    BY <1>19 DEF send_back_credits
  <2>3. credits' \in [Clients -> Int]
    BY <2>1, <2>2 DEF ClientTypes
  <2>4. ServerTypes'
    BY <1>19, <2>1 DEF send_back_credits, ServerTypes
  <2>5. QED
    BY <1>19, <2>3, <2>4 DEF send_back_credits, sending, network, ClientTypes, NetworkTypes
<1>20. ASSUME BacklogIsDone PROVE Types'
  BY <1>20 DEF BacklogIsDone, client, sending, flow, network, queue, ClientTypes, NetworkTypes,
     ServerTypes, HasHead, Content
<1>21. ASSUME WaitFinishes PROVE Types'
  BY <1>21 DEF WaitFinishes, client, sending, flow, network, ClientTypes, NetworkTypes,
     ServerTypes, HasHead, Content
<1>22. CASE UNCHANGED vars
  BY <1>22 DEF vars, client, sending, flow, network, server, queue, ClientTypes, NetworkTypes,
     ServerTypes, HasHead, Content
<1>23. QED
  BY <1>1, <1>2, <1>3, <1>4, <1>5, <1>6, <1>7, <1>8, <1>9, <1>10, <1>11, <1>12, <1>13, <1>14,
     <1>15, <1>16, <1>17, <1>18, <1>19, <1>20, <1>21, <1>22 DEF Next, Executing, Serving

\* Credits never get below zero: whoever takes one has seen one.
LEMMA StepSigns == ClientTypes /\ ServerTypes /\ HasHead /\ NotNegative /\ [Next]_vars => (HasHead /\ NotNegative)'
<1> SUFFICES ASSUME ClientTypes, ServerTypes, HasHead, NotNegative, [Next]_vars
    PROVE  (HasHead /\ NotNegative)'
  OBVIOUS
<1>1. ASSUME NEW c \in Clients, NEW r \in Requests, NNTI_gni_send(c, r)
      PROVE  (HasHead /\ NotNegative)'
  BY <1>1 DEF NNTI_gni_send, Goto, network, server, flow, ClientTypes, ServerTypes, HasHead,
     NotNegative
<1>2. ASSUME NEW c \in Clients, NEW r \in Requests, WaitForSend(c, r)
      PROVE  (HasHead /\ NotNegative)'
  BY <1>2 DEF WaitForSend, Goto, flow, network, server, ClientTypes, ServerTypes, HasHead,
     NotNegative
<1>3. ASSUME NEW c \in Clients, FetchCredits(c) PROVE (HasHead /\ NotNegative)'
  BY <1>3 DEF FetchCredits, Goto, network, server, ClientTypes, ServerTypes, HasHead, NotNegative
<1>4. ASSUME NEW c \in Clients, NoCredit(c) PROVE (HasHead /\ NotNegative)'
  BY <1>4 DEF NoCredit, Goto, PassIsOver, SendReturns, insert_resend, flow, network, server,
     ClientTypes, ServerTypes, HasHead, NotNegative
<1>5. ASSUME NEW c \in Clients, TakeCredit(c) PROVE (HasHead /\ NotNegative)'
  BY <1>5 DEF TakeCredit, Goto, network, server, ClientTypes, ServerTypes, HasHead, NotNegative
<1>6. ASSUME NEW c \in Clients, RetryCredit(c) PROVE (HasHead /\ NotNegative)'
  BY <1>6 DEF RetryCredit, Goto, network, server, ClientTypes, ServerTypes, HasHead, NotNegative
<1>7. ASSUME NEW c \in Clients, SendDirectly(c) PROVE (HasHead /\ NotNegative)'
  BY <1>7 DEF SendDirectly, Goto, PostFma, NextSlot, SendReturns, server, ClientTypes,
     ServerTypes, HasHead, NotNegative
<1>8. ASSUME NEW c \in Clients, SendAgain(c) PROVE (HasHead /\ NotNegative)'
  BY <1>8 DEF SendAgain, Goto, PostFma, NextSlot, PassIsOver, server, ClientTypes, ServerTypes,
     HasHead, NotNegative
<1>9. ASSUME NEW c \in Clients, SendCompletes(c) PROVE (HasHead /\ NotNegative)'
  BY <1>9 DEF SendCompletes, Goto, flow, server, ClientTypes, ServerTypes, HasHead, NotNegative
<1>10. ASSUME NEW c \in Clients, SendTimesOut(c) PROVE (HasHead /\ NotNegative)'
  BY <1>10 DEF SendTimesOut, Goto, flow, network, server, ClientTypes, ServerTypes, HasHead,
     NotNegative
<1>11. ASSUME NEW c \in Clients, resend_all(c) PROVE (HasHead /\ NotNegative)'
  BY <1>11 DEF resend_all, Goto, PassIsOver, flow, network, server, ClientTypes, ServerTypes,
     HasHead, NotNegative
<1>12. ASSUME NEW c \in Clients, Deliver(c) PROVE (HasHead /\ NotNegative)'
  BY <1>12 DEF Deliver, client, sending, flow, server, ClientTypes, ServerTypes, HasHead,
     NotNegative
<1>13. ASSUME NNTI_gni_create_work_request PROVE (HasHead /\ NotNegative)'
  BY <1>13 DEF NNTI_gni_create_work_request, client, sending, flow, network, ClientTypes,
     ServerTypes, HasHead, NotNegative
<1>14. ASSUME NNTI_gni_destroy_work_request PROVE (HasHead /\ NotNegative)'
  BY <1>14 DEF NNTI_gni_destroy_work_request, client, sending, flow, network, ClientTypes,
     ServerTypes, HasHead, NotNegative
<1>15. ASSUME NEW what \in {"queue", "other"}, ServerWaits(what) PROVE (HasHead /\ NotNegative)'
  BY <1>15 DEF ServerWaits, client, sending, flow, network, queue, ClientTypes, ServerTypes,
     HasHead, NotNegative
<1>16. ASSUME NEW c \in Clients, RequestArrives(c) PROVE (HasHead /\ NotNegative)'
  BY <1>16 DEF RequestArrives, PutBack, client, sending, flow, network, queue, ClientTypes,
     ServerTypes, HasHead, NotNegative
<1>17. ASSUME NothingArrives PROVE (HasHead /\ NotNegative)'
  BY <1>17 DEF NothingArrives, client, sending, flow, network, queue, ClientTypes, ServerTypes,
     HasHead, NotNegative
<1>18. ASSUME execute_mbox_copy PROVE (HasHead /\ NotNegative)'
  BY <1>18 DEF execute_mbox_copy, Copyable, client, sending, flow, network, ClientTypes,
     ServerTypes, HasHead, NotNegative
<1>19. ASSUME send_back_credits PROVE (HasHead /\ NotNegative)'
  <2> DEFINE b == Head(mbox_backlog)
  <2>1. b.conn \in Clients
    <3>1. mbox_backlog # <<>>
      BY <1>19 DEF send_back_credits, HasHead
    <3>2. QED
      BY <3>1, HeadOfBacklog
  <2>2. credits' = [credits EXCEPT ![b.conn] = credits[b.conn] + 1] /\ UNCHANGED <<pc, seen>>
    BY <1>19 DEF send_back_credits, sending
  <2>3. NotNegative'
    BY <2>1, <2>2 DEF ClientTypes, NotNegative
  <2>4. QED
    BY <1>19, <2>3 DEF send_back_credits, HasHead
<1>20. ASSUME BacklogIsDone PROVE (HasHead /\ NotNegative)'
  BY <1>20 DEF BacklogIsDone, client, sending, flow, network, queue, ClientTypes, ServerTypes,
     HasHead, NotNegative
<1>21. ASSUME WaitFinishes PROVE (HasHead /\ NotNegative)'
  BY <1>21 DEF WaitFinishes, client, sending, flow, network, ClientTypes, ServerTypes, HasHead,
     NotNegative
<1>22. CASE UNCHANGED vars
  BY <1>22 DEF vars, client, sending, flow, network, server, queue, ClientTypes, ServerTypes,
     HasHead, NotNegative
<1>23. QED
  BY <1>1, <1>2, <1>3, <1>4, <1>5, <1>6, <1>7, <1>8, <1>9, <1>10, <1>11, <1>12, <1>13, <1>14,
     <1>15, <1>16, <1>17, <1>18, <1>19, <1>20, <1>21, <1>22 DEF Next, Executing, Serving

\* A credit that is taken, posted, copied or returned goes from one term of
\* the sum to another.
LEMMA StepCredits == IInv /\ [Next]_vars => CreditsAccounted'
<1> SUFFICES ASSUME IInv, [Next]_vars PROVE CreditsAccounted'
  OBVIOUS
<1> USE DEF IInv, Types
<1>1. ASSUME NEW c \in Clients, NEW r \in Requests, NNTI_gni_send(c, r) PROVE CreditsAccounted'
  BY <1>1 DEF NNTI_gni_send, Goto, network, server, flow, CreditsAccounted, InHand, OnItsWay,
     ClientTypes, NetworkTypes, ServerTypes, HasHead, Content
<1>2. ASSUME NEW c \in Clients, NEW r \in Requests, WaitForSend(c, r) PROVE CreditsAccounted'
  BY <1>2 DEF WaitForSend, Goto, flow, network, server, CreditsAccounted, InHand, OnItsWay,
     ClientTypes, NetworkTypes, ServerTypes, HasHead, Content
<1>3. ASSUME NEW c \in Clients, FetchCredits(c) PROVE CreditsAccounted'
  BY <1>3 DEF FetchCredits, Goto, network, server, CreditsAccounted, InHand, OnItsWay,
     ClientTypes, NetworkTypes, ServerTypes, HasHead, Content
<1>4. ASSUME NEW c \in Clients, NoCredit(c) PROVE CreditsAccounted'
  BY <1>4 DEF NoCredit, Goto, PassIsOver, SendReturns, insert_resend, flow, network, server,
     CreditsAccounted, InHand, OnItsWay, ClientTypes, NetworkTypes, ServerTypes, HasHead, Content
<1>5. ASSUME NEW c \in Clients, TakeCredit(c) PROVE CreditsAccounted'
  <2>1. credits' = [credits EXCEPT ![c] = credits[c] - 1] /\ pc[c] = "swap" /\ pc' = [pc EXCEPT ![c] = "post"]
    BY <1>5 DEF TakeCredit, Swapped, Goto, ClientTypes
  <2>2. UNCHANGED <<posted, copied, spc, mbox_backlog>>
    BY <1>5 DEF TakeCredit, network, server
  <2>3. \A x \in Clients : credits'[x] + InHand(x)' = credits[x] + InHand(x)
    BY <2>1 DEF InHand, ClientTypes
  <2>4. QED
    BY <2>2, <2>3 DEF CreditsAccounted, InHand, OnItsWay, ClientTypes, NetworkTypes, ServerTypes
<1>6. ASSUME NEW c \in Clients, RetryCredit(c) PROVE CreditsAccounted'
  BY <1>6 DEF RetryCredit, Goto, network, server, CreditsAccounted, InHand, OnItsWay, ClientTypes,
     NetworkTypes, ServerTypes, HasHead, Content
<1>7. ASSUME NEW c \in Clients, SendDirectly(c) PROVE CreditsAccounted'
  <2>1. posted' = [posted EXCEPT ![c] = Append(posted[c], [request |-> wr[c], slot |-> NextSlot(c)])]
    BY <1>7 DEF SendDirectly, PostFma
  <2>2. \A x \in Clients : NPosted(x)' = IF x = c THEN NPosted(x) + 1 ELSE NPosted(x)
    BY <2>1, AppendLen DEF NetworkTypes, NPosted
  <2>3. \A x \in Clients : InHand(x)' = IF x = c THEN 0 ELSE InHand(x)
    BY <1>7 DEF SendDirectly, SendReturns, Goto, InHand, ClientTypes
  <2>4. InHand(c) = 1
    BY <1>7 DEF SendDirectly, InHand
  <2>5. UNCHANGED <<credits, copied, spc, mbox_backlog>>
    BY <1>7 DEF SendDirectly, server
  <2>6. QED
    <3>1. \A x \in Clients : Balance(x)' = Balance(x)
      <4> TAKE x \in Clients
      <4>1. NPosted(x) \in Int /\ NCopied(x) \in Int /\ credits[x] \in Int /\ OnItsWay(x) \in Int /\ InHand(x) \in Int
        BY BalanceTypes
      <4>2. OnItsWay(x)' = OnItsWay(x)
        BY <2>5 DEF OnItsWay
      <4>3. NPosted(x)' = (IF x = c THEN NPosted(x) + 1 ELSE NPosted(x)) /\ NCopied(x)' = NCopied(x)
        BY <2>2, <2>5 DEF NCopied
      <4>4. InHand(x)' = IF x = c THEN 0 ELSE InHand(x)
        BY <2>3
      <4>5. QED
        BY <2>4, <2>5, <4>1, <4>2, <4>3, <4>4 DEF Balance
    <3>2. QED
      BY <3>1, InBalance
<1>8. ASSUME NEW c \in Clients, SendAgain(c) PROVE CreditsAccounted'
  <2>1. posted' = [posted EXCEPT ![c] = Append(posted[c], [request |-> wr[c], slot |-> NextSlot(c)])]
    BY <1>8 DEF SendAgain, PostFma
  <2>2. \A x \in Clients : NPosted(x)' = IF x = c THEN NPosted(x) + 1 ELSE NPosted(x)
    BY <2>1, AppendLen DEF NetworkTypes, NPosted
  <2>3. \A x \in Clients : InHand(x)' = IF x = c THEN 0 ELSE InHand(x)
    <3>1. CASE Len(resend[c]) > 1
      BY <1>8, <3>1 DEF SendAgain, Goto, InHand, ClientTypes
    <3>2. CASE ~(Len(resend[c]) > 1)
      <4>1. PassIsOver(c)
        BY <1>8, <3>2 DEF SendAgain
      <4>2. QED
        BY <4>1, PassPlaces DEF InHand, ClientTypes
    <3>3. QED
      BY <3>1, <3>2
  <2>4. InHand(c) = 1
    BY <1>8 DEF SendAgain, InHand
  <2>5. UNCHANGED <<credits, copied, spc, mbox_backlog>>
    BY <1>8 DEF SendAgain, server
  <2>6. QED
    <3>1. \A x \in Clients : Balance(x)' = Balance(x)
      <4> TAKE x \in Clients
      <4>1. NPosted(x) \in Int /\ NCopied(x) \in Int /\ credits[x] \in Int /\ OnItsWay(x) \in Int /\ InHand(x) \in Int
        BY BalanceTypes
      <4>2. OnItsWay(x)' = OnItsWay(x)
        BY <2>5 DEF OnItsWay
      <4>3. NPosted(x)' = (IF x = c THEN NPosted(x) + 1 ELSE NPosted(x)) /\ NCopied(x)' = NCopied(x)
        BY <2>2, <2>5 DEF NCopied
      <4>4. InHand(x)' = IF x = c THEN 0 ELSE InHand(x)
        BY <2>3
      <4>5. QED
        BY <2>4, <2>5, <4>1, <4>2, <4>3, <4>4 DEF Balance
    <3>2. QED
      BY <3>1, InBalance
<1>9. ASSUME NEW c \in Clients, SendCompletes(c) PROVE CreditsAccounted'
  BY <1>9 DEF SendCompletes, Goto, flow, server, CreditsAccounted, InHand, OnItsWay, ClientTypes,
     NetworkTypes, ServerTypes, HasHead, Content
<1>10. ASSUME NEW c \in Clients, SendTimesOut(c) PROVE CreditsAccounted'
  BY <1>10 DEF SendTimesOut, Goto, flow, network, server, CreditsAccounted, InHand, OnItsWay,
     ClientTypes, NetworkTypes, ServerTypes, HasHead, Content
<1>11. ASSUME NEW c \in Clients, resend_all(c) PROVE CreditsAccounted'
  BY <1>11 DEF resend_all, Goto, PassIsOver, flow, network, server, CreditsAccounted, InHand,
     OnItsWay, ClientTypes, NetworkTypes, ServerTypes, HasHead, Content
<1>12. ASSUME NEW c \in Clients, Deliver(c) PROVE CreditsAccounted'
  BY <1>12 DEF Deliver, client, sending, flow, server, CreditsAccounted, InHand, OnItsWay,
     ClientTypes, NetworkTypes, ServerTypes, HasHead, Content
<1>13. ASSUME NNTI_gni_create_work_request PROVE CreditsAccounted'
  BY <1>13 DEF NNTI_gni_create_work_request, client, sending, flow, network, CreditsAccounted,
     InHand, OnItsWay, ClientTypes, NetworkTypes, ServerTypes, HasHead, Content
<1>14. ASSUME NNTI_gni_destroy_work_request PROVE CreditsAccounted'
  BY <1>14 DEF NNTI_gni_destroy_work_request, client, sending, flow, network, CreditsAccounted,
     InHand, OnItsWay, ClientTypes, NetworkTypes, ServerTypes, HasHead, Content
<1>15. ASSUME NEW what \in {"queue", "other"}, ServerWaits(what) PROVE CreditsAccounted'
  BY <1>15 DEF ServerWaits, client, sending, flow, network, queue, CreditsAccounted, InHand,
     OnItsWay, ClientTypes, NetworkTypes, ServerTypes, HasHead, Content
<1>16. ASSUME NEW c \in Clients, RequestArrives(c) PROVE CreditsAccounted'
  BY <1>16 DEF RequestArrives, PutBack, client, sending, flow, network, queue, CreditsAccounted,
     InHand, OnItsWay, ClientTypes, NetworkTypes, ServerTypes, HasHead, Content
<1>17. ASSUME NothingArrives PROVE CreditsAccounted'
  BY <1>17 DEF NothingArrives, client, sending, flow, network, queue, CreditsAccounted, InHand,
     OnItsWay, ClientTypes, NetworkTypes, ServerTypes, HasHead, Content
<1>18. ASSUME execute_mbox_copy PROVE CreditsAccounted'
  <2> DEFINE b == Head(mbox_backlog)
  <2>1. b.conn \in Clients
    <3>1. mbox_backlog # <<>>
      BY <1>18 DEF execute_mbox_copy, Copyable
    <3>2. QED
      BY <3>1, HeadOfBacklog
  <2>2. \E r : copied' = [copied EXCEPT ![b.conn] = Append(copied[b.conn], r)]
    BY <1>18 DEF execute_mbox_copy
  <2>3. \A x \in Clients : NCopied(x)' = IF x = b.conn THEN NCopied(x) + 1 ELSE NCopied(x)
    BY <2>1, <2>2, AppendLen DEF ServerTypes, NCopied
  <2>4. \A x \in Clients : OnItsWay(x) = 0 /\ OnItsWay(x)' = IF x = b.conn THEN 1 ELSE 0
    BY <1>18 DEF execute_mbox_copy, OnItsWay
  <2>5. UNCHANGED <<credits, pc, posted>>
    BY <1>18 DEF execute_mbox_copy, client, sending, flow, network
  <2>6. QED
    <3>1. \A x \in Clients : Balance(x)' = Balance(x)
      <4> TAKE x \in Clients
      <4>1. NPosted(x) \in Int /\ NCopied(x) \in Int /\ credits[x] \in Int /\ InHand(x) \in Int
        BY BalanceTypes
      <4>2. InHand(x)' = InHand(x)
        BY <2>5 DEF InHand
      <4>3. NCopied(x)' = (IF x = b.conn THEN NCopied(x) + 1 ELSE NCopied(x)) /\ NPosted(x)' = NPosted(x)
        BY <2>3, <2>5 DEF NPosted
      <4>4. OnItsWay(x) = 0 /\ OnItsWay(x)' = IF x = b.conn THEN 1 ELSE 0
        BY <2>4
      <4>5. QED
        BY <2>5, <4>1, <4>2, <4>3, <4>4 DEF Balance
    <3>2. QED
      BY <3>1, InBalance
<1>19. ASSUME send_back_credits PROVE CreditsAccounted'
  <2> DEFINE b == Head(mbox_backlog)
  <2>1. b.conn \in Clients
    <3>1. mbox_backlog # <<>>
      BY <1>19 DEF send_back_credits, HasHead
    <3>2. QED
      BY <3>1, HeadOfBacklog
  <2>2. credits' = [credits EXCEPT ![b.conn] = credits[b.conn] + 1]
    BY <1>19 DEF send_back_credits
  <2>3. \A x \in Clients : OnItsWay(x)' = 0 /\ OnItsWay(x) = IF x = b.conn THEN 1 ELSE 0
    BY <1>19 DEF send_back_credits, OnItsWay
  <2>4. UNCHANGED <<pc, posted, copied>>
    BY <1>19 DEF send_back_credits, sending, network
  <2>5. QED
    <3>1. \A x \in Clients : Balance(x)' = Balance(x)
      <4> TAKE x \in Clients
      <4>1. NPosted(x) \in Int /\ NCopied(x) \in Int /\ credits[x] \in Int /\ InHand(x) \in Int
        BY BalanceTypes
      <4>2. InHand(x)' = InHand(x)
        BY <2>4 DEF InHand
      <4>3. credits'[x] = IF x = b.conn THEN credits[x] + 1 ELSE credits[x]
        BY <2>1, <2>2 DEF ClientTypes
      <4>4. OnItsWay(x)' = 0 /\ OnItsWay(x) = IF x = b.conn THEN 1 ELSE 0
        BY <2>3
      <4>5. NPosted(x)' = NPosted(x) /\ NCopied(x)' = NCopied(x)
        BY <2>4 DEF NPosted, NCopied
      <4>6. QED
        BY <4>1, <4>2, <4>3, <4>4, <4>5 DEF Balance
    <3>2. QED
      BY <3>1, InBalance
<1>20. ASSUME BacklogIsDone PROVE CreditsAccounted'
  BY <1>20 DEF BacklogIsDone, client, sending, flow, network, queue, CreditsAccounted, InHand,
     OnItsWay, ClientTypes, NetworkTypes, ServerTypes, HasHead, Content
<1>21. ASSUME WaitFinishes PROVE CreditsAccounted'
  BY <1>21 DEF WaitFinishes, client, sending, flow, network, CreditsAccounted, InHand, OnItsWay,
     ClientTypes, NetworkTypes, ServerTypes, HasHead, Content
<1>22. CASE UNCHANGED vars
  BY <1>22 DEF vars, client, sending, flow, network, server, queue, CreditsAccounted, InHand,
     OnItsWay, ClientTypes, NetworkTypes, ServerTypes, HasHead, Content
<1>23. QED
  BY <1>1, <1>2, <1>3, <1>4, <1>5, <1>6, <1>7, <1>8, <1>9, <1>10, <1>11, <1>12, <1>13, <1>14,
     <1>15, <1>16, <1>17, <1>18, <1>19, <1>20, <1>21, <1>22 DEF Next, Executing, Serving

-----------------------------------------------------------------------------
(***************************************************************************)
(* The invariant is inductive.                                             *)
(***************************************************************************)
THEOREM Inductive == Spec => []IInv
<1>1. IInv /\ [Next]_vars => IInv'
  BY StepTypes, StepSigns, StepCredits DEF IInv, Types
<1>2. QED
  BY InitIInv, <1>1, PTL DEF Spec

(***************************************************************************)
(* The client's counter of credits, which the client takes from with two   *)
(* operations and the server adds to in between (credits_available,        *)
(* send_back_credits), is exact at all times.                              *)
(***************************************************************************)
THEOREM CreditsAreExact == Spec => []CreditsAccounted
<1>1. IInv => CreditsAccounted
  BY DEF IInv
<1>2. QED
  BY Inductive, <1>1, PTL

(***************************************************************************)
(* There are never more requests on their way to the server or in a        *)
(* mailbox than the mailbox has slots, and never fewer than none are free: *)
(* what a channel of that capacity asks of those who put something in.     *)
(***************************************************************************)
MailboxHasRoom ==
    \A c \in Clients : credits[c] >= 0 /\ NPosted(c) - NCopied(c) <= MaxCredits

THEOREM NoMailboxOverflows == Spec => []MailboxHasRoom
<1>1. IInv => MailboxHasRoom
  <2> SUFFICES ASSUME IInv, NEW c \in Clients
               PROVE  credits[c] >= 0 /\ NPosted(c) - NCopied(c) <= MaxCredits
    BY DEF MailboxHasRoom
  <2>1. Balance(c) = MaxCredits
    BY DEF IInv, CreditsAccounted, Balance, NPosted, NCopied
  <2>2. /\ credits[c] \in Int /\ NPosted(c) \in Int /\ NCopied(c) \in Int
        /\ InHand(c) \in Int /\ OnItsWay(c) \in Int
    BY BalanceTypes DEF IInv, Types
  <2>3. credits[c] >= 0 /\ InHand(c) >= 0 /\ OnItsWay(c) >= 0
    BY DEF IInv, NotNegative, InHand, OnItsWay
  <2>4. MaxCredits \in Int
    BY Assumptions DEF Assumptions
  <2>5. QED
    BY <2>1, <2>2, <2>3, <2>4 DEF Balance
<1>2. QED
  BY Inductive, <1>1, PTL

-----------------------------------------------------------------------------
(***************************************************************************)
(* That credits are exact bounds what is in a mailbox.  From here on the   *)
(* requests themselves are followed.  The client posts a request once.     *)
(* Its counter of slots and the server's agree, so the slot that the       *)
(* server looks at holds the next request that was posted, if the backlog  *)
(* is in order and nobody has written to the slot again.                   *)
(***************************************************************************)

\* Executing a request.
Sending == {"fetch", "swap", "post"}

Sent == {r \in Requests : state[r] # "unsent"}
PostedBy(c) == {posted[c][i].request : i \in DOMAIN posted[c]}

States == state \in [Requests -> {"unsent", "STARTED", "COMPLETE"}]

\* What a client has taken up is its own and was sent, and is in one place:
\* posted, or in the resend queue, or in execution, from the head of that queue
\* or before it is put there.
PostedOnce ==
    \A c \in Clients : \A i \in DOMAIN posted[c] :
        posted[c][i].request \in Sent /\ ClientOf[posted[c][i].request] = c

QueuedOnce ==
    \A c \in Clients : \A i \in DOMAIN resend[c] :
        /\ resend[c][i] \in Sent /\ ClientOf[resend[c][i]] = c /\ resend[c][i] \notin PostedBy(c)
        /\ \A j \in DOMAIN resend[c] : resend[c][i] = resend[c][j] => i = j

ExecutedOnce ==
    \A c \in Clients : pc[c] \in Sending =>
        /\ wr[c] \in Sent /\ ClientOf[wr[c]] = c /\ wr[c] \notin PostedBy(c)
        /\ \A i \in DOMAIN resend[c] : resend[c][i] = wr[c] => i = 1

OnePlace == States /\ PostedOnce /\ QueuedOnce /\ ExecutedOnce

\* Both sides count the same requests, each for itself: the client's counter
\* those it has posted, the server's those that it was told of.
SlotsCounted ==
    \A c \in Clients :
        /\ Len(posted[c]) = mbox_index[c]
        /\ \A i \in DOMAIN posted[c] : posted[c][i].slot = (i - 1) % MaxCredits

Behind ==
    \A c \in Clients :
        Len(copied[c]) <= reqs_received[c] /\ reqs_received[c] <= delivered[c] /\ delivered[c] <= Len(posted[c])

\* What is not copied yet is still in its slot.
MailboxHolds ==
    \A c \in Clients : \A i \in Len(copied[c]) + 1 .. delivered[c] :
        mbox[c][(i - 1) % MaxCredits] = posted[c][i].request

\* The entries of the backlog have numbers, for each connection those of the
\* requests that have arrived and whose credit has not gone back, in order.
Settled(c) == Len(copied[c]) - OnItsWay(c)

Numbered(numbers, backlog, c, low, high) ==
    /\ \A j \in DOMAIN backlog : backlog[j].conn = c =>
         numbers[j] \in low .. high - 1 /\ backlog[j].mbox_index = numbers[j] % MaxCredits
    /\ \A n \in low .. high - 1 : \E j \in DOMAIN backlog : backlog[j].conn = c /\ numbers[j] = n
    /\ \A i, j \in DOMAIN backlog :
         i < j /\ backlog[i].conn = c /\ backlog[j].conn = c => numbers[i] < numbers[j]

Backlog ==
    \E numbers \in [DOMAIN mbox_backlog -> Nat] :
        \A c \in Clients : Numbered(numbers, mbox_backlog, c, Settled(c), reqs_received[c])

InOrder == SlotsCounted /\ Behind /\ MailboxHolds /\ Backlog

\* A request copied to an element whose credit is on its way back.
Filling(e) == spc = "credit" /\ Head(mbox_backlog).queue_index = e

QueueTypes ==
    /\ attached \in Elements \cup {NoElement}
    /\ head \in Elements /\ tail \in Elements
    /\ element \in [Elements -> {"POSTED", "RDMA_COMPLETE", "WAIT_COMPLETE"}]
    /\ req_buffer \in [Elements -> Content]
    /\ received \in Seq(Content)
    /\ spc # "idle" => waits_for \in {"queue", "other"} /\ (waits_for = "queue" => attached # NoElement)
    /\ spc = "finish" => waits_for = "queue"

\* What is in an element that is free has been received.
FreeIsReceived ==
    \A e \in Elements :
        req_buffer[e] # NONE /\ element[e] # "RDMA_COMPLETE" /\ ~Filling(e) => req_buffer[e] \in ToSet(received)

QInv == QueueTypes /\ FreeIsReceived

Channelled == IInv /\ OnePlace /\ InOrder /\ QInv

-----------------------------------------------------------------------------
(***************************************************************************)
(* A request is in one place at the client.                                *)
(***************************************************************************)

\* At the beginning there is no request anywhere.
LEMMA InitOnePlace == Init => OnePlace
BY DEF Init, OnePlace, States, PostedOnce, QueuedOnce, ExecutedOnce, Sending, Sent, PostedBy

\* Posting adds the request in execution to what the client has posted.
LEMMA Posting ==
    ASSUME ClientTypes, NetworkTypes, NEW c \in Clients, PostFma(c)
    PROVE  /\ \A x \in Clients : PostedBy(x)' = IF x = c THEN PostedBy(x) \cup {wr[c]} ELSE PostedBy(x)
           /\ \A x \in Clients \ {c} : posted'[x] = posted[x]
           /\ posted'[c] = Append(posted[c], [request |-> wr[c], slot |-> NextSlot(c)])
           /\ DOMAIN posted'[c] = 1 .. Len(posted[c]) + 1 /\ DOMAIN posted[c] = 1 .. Len(posted[c]) /\ Len(posted[c]) \in Nat
           /\ \A i \in DOMAIN posted[c] : posted'[c][i] = posted[c][i]
           /\ posted'[c][Len(posted[c]) + 1] = [request |-> wr[c], slot |-> NextSlot(c)]
           /\ posted'[c][Len(posted[c]) + 1].request = wr[c] /\ posted'[c][Len(posted[c]) + 1].slot = NextSlot(c)
<1>. DEFINE p == [request |-> wr[c], slot |-> NextSlot(c)]
<1>1. posted' = [posted EXCEPT ![c] = Append(posted[c], p)] /\ p.request = wr[c]
  BY DEF PostFma
<1>2. posted \in [Clients -> Seq([request : Content, slot : Slots])]
  BY DEF NetworkTypes
<1>. HIDE DEF p
<1>3. \A x \in Clients \ {c} : posted'[x] = posted[x]
  BY <1>1, <1>2
<1>4. posted'[c] = Append(posted[c], p)
  BY <1>1, <1>2
<1>5. /\ DOMAIN posted'[c] = 1 .. Len(posted[c]) + 1 /\ DOMAIN posted[c] = 1 .. Len(posted[c]) /\ Len(posted[c]) \in Nat
      /\ \A i \in DOMAIN posted[c] : posted'[c][i] = posted[c][i]
      /\ posted'[c][Len(posted[c]) + 1] = p
  BY <1>2, <1>4
<1>6. PostedBy(c)' = PostedBy(c) \cup {wr[c]}
  <2>1. \A i \in DOMAIN posted'[c] : posted'[c][i].request \in PostedBy(c) \cup {wr[c]}
    BY <1>1, <1>5 DEF PostedBy
  <2>2. \A i \in DOMAIN posted[c] : i \in DOMAIN posted'[c] /\ posted'[c][i].request = posted[c][i].request
    BY <1>5
  <2>3. Len(posted[c]) + 1 \in DOMAIN posted'[c] /\ posted'[c][Len(posted[c]) + 1].request = wr[c]
    BY <1>1, <1>5
  <2>. QED  BY <2>1, <2>2, <2>3 DEF PostedBy
<1>7. \A x \in Clients \ {c} : PostedBy(x)' = PostedBy(x)
  BY <1>3 DEF PostedBy
<1>. QED  BY <1>3, <1>4, <1>5, <1>6, <1>7 DEF p

\* What a queued request becomes when the head is taken.
LEMMA TailOf ==
    ASSUME NEW S, NEW s \in Seq(S), s # <<>>
    PROVE  /\ DOMAIN s = 1 .. Len(s) /\ DOMAIN Tail(s) = 1 .. Len(s) - 1 /\ Len(s) \in Nat \ {0}
           /\ \A i \in DOMAIN Tail(s) : i + 1 \in DOMAIN s /\ Tail(s)[i] = s[i + 1]
           /\ Head(s) = s[1] /\ 1 \in DOMAIN s
OBVIOUS

\* The actions that move requests of a client, and those that move none.
LEMMA MovesNone ==
    ASSUME [Next]_vars
    PROVE  \/ \E c \in Clients :
                \/ \E r \in Requests : NNTI_gni_send(c, r) \/ WaitForSend(c, r)
                \/ FetchCredits(c) \/ TakeCredit(c) \/ RetryCredit(c) \/ NoCredit(c)
                \/ SendDirectly(c) \/ SendAgain(c) \/ SendCompletes(c) \/ SendTimesOut(c) \/ resend_all(c)
           \/ UNCHANGED <<state, posted, resend, wr, pc>>
<1>1. CASE UNCHANGED vars
  BY <1>1 DEF vars, client, network, sending
<1>2. ASSUME NEW c \in Clients, Deliver(c) PROVE UNCHANGED <<state, posted, resend, wr, pc>>
  BY <1>2 DEF Deliver, client, sending
<1>3. CASE NNTI_gni_create_work_request \/ NNTI_gni_destroy_work_request
  BY <1>3 DEF NNTI_gni_create_work_request, NNTI_gni_destroy_work_request, client, network, sending
<1>4. ASSUME NEW what, ServerWaits(what) PROVE UNCHANGED <<state, posted, resend, wr, pc>>
  BY <1>4 DEF ServerWaits, client, network, sending
<1>5. CASE Serving
  BY <1>5 DEF Serving, RequestArrives, NothingArrives, execute_mbox_copy, send_back_credits, BacklogIsDone,
              WaitFinishes, client, network, sending
<1>. QED  BY <1>1, <1>2, <1>3, <1>4, <1>5 DEF Next, Executing

\* A request moves, it is not duplicated: from being sent to the resend queue
\* or to what is posted, and from the resend queue to what is posted.
LEMMA StepOnePlace == ASSUME ClientTypes, NetworkTypes, OnePlace, [Next]_vars PROVE OnePlace'
<1>. USE DEF OnePlace
<1>1. ASSUME NEW c \in Clients, NEW r \in Requests, NNTI_gni_send(c, r) PROVE OnePlace'
  <2>1. /\ state[r] = "unsent" /\ ClientOf[r] = c
        /\ state' = [state EXCEPT ![r] = "STARTED"] /\ wr' = [wr EXCEPT ![c] = r]
        /\ pc' = [pc EXCEPT ![c] = "fetch"] /\ UNCHANGED <<posted, resend>>
    BY <1>1 DEF NNTI_gni_send, Goto, network
  <2>2. States' /\ Sent \subseteq Sent' /\ r \notin Sent
    BY <2>1 DEF States, Sent
  <2>3. PostedOnce'
    BY <2>1, <2>2 DEF PostedOnce
  <2>4. QueuedOnce'
    BY <2>1, <2>2 DEF QueuedOnce, PostedBy
  <2>5. r \in Sent' /\ r \notin PostedBy(c) /\ \A i \in DOMAIN resend[c] : resend[c][i] # r
    BY <2>1 DEF States, Sent, PostedBy, PostedOnce, QueuedOnce
  <2>6. ExecutedOnce'
    BY <2>1, <2>2, <2>5 DEF ExecutedOnce, PostedBy, ClientTypes
  <2>. QED  BY <2>2, <2>3, <2>4, <2>6
<1>2. ASSUME NEW c \in Clients, NEW r \in Requests, WaitForSend(c, r) PROVE OnePlace'
  BY <1>2 DEF WaitForSend, Goto, network, States, PostedOnce, QueuedOnce, ExecutedOnce, PostedBy, Sent, Sending, ClientTypes
<1>3. ASSUME NEW c \in Clients, FetchCredits(c) \/ TakeCredit(c) \/ RetryCredit(c) PROVE OnePlace'
  <2>1. /\ pc[c] \in Sending /\ \E p \in Sending : pc' = [pc EXCEPT ![c] = p]
        /\ UNCHANGED <<state, posted, resend, wr>>
    BY <1>3 DEF FetchCredits, TakeCredit, RetryCredit, Goto, network, Sending
  <2>. QED  BY <2>1 DEF States, PostedOnce, QueuedOnce, ExecutedOnce, PostedBy, Sent, ClientTypes
<1>4. ASSUME NEW c \in Clients, NoCredit(c) PROVE OnePlace'
  <2>1. pc[c] \in Sending /\ UNCHANGED <<state, posted>>
    BY <1>4 DEF NoCredit, Sending, network
  <2>2. States' /\ PostedOnce' /\ Sent' = Sent /\ \A x \in Clients : PostedBy(x)' = PostedBy(x)
    BY <2>1 DEF States, PostedOnce, Sent, PostedBy
  <2>3. CASE Resending(c)
    <3>1. PassIsOver(c) /\ UNCHANGED resend
      BY <1>4, <2>3 DEF NoCredit
    <3>2. \A x \in Clients : pc'[x] \in Sending => pc[x] \in Sending /\ wr'[x] = wr[x]
      BY <3>1, PassPlaces DEF Sending, ClientTypes
    <3>. QED  BY <2>2, <3>1, <3>2 DEF QueuedOnce, ExecutedOnce
  <2>4. CASE ~Resending(c)
    <3>1. /\ pc' = [pc EXCEPT ![c] = "idle"] /\ wr' = [wr EXCEPT ![c] = NONE]
          /\ resend' = [resend EXCEPT ![c] = Append(resend[c], wr[c])]
      BY <1>4, <2>4 DEF NoCredit, SendReturns, Goto, insert_resend
    <3>2. resend[c] \in Seq(Content) /\ wr[c] \in Content
      BY DEF ClientTypes
    <3>3. \A i \in DOMAIN resend[c] : resend[c][i] # wr[c]
      BY <2>1, <2>4, <3>2 DEF ExecutedOnce, Resending
    <3>4. /\ resend'[c] = Append(resend[c], wr[c]) /\ \A x \in Clients \ {c} : resend'[x] = resend[x]
          /\ DOMAIN resend'[c] = 1 .. Len(resend[c]) + 1 /\ DOMAIN resend[c] = 1 .. Len(resend[c]) /\ Len(resend[c]) \in Nat
          /\ \A i \in DOMAIN resend[c] : resend'[c][i] = resend[c][i]
          /\ resend'[c][Len(resend[c]) + 1] = wr[c]
      BY <3>1, <3>2 DEF ClientTypes
    <3>5. wr[c] \in Sent /\ ClientOf[wr[c]] = c /\ wr[c] \notin PostedBy(c)
      BY <2>1 DEF ExecutedOnce
    <3>6. QueuedOnce'
      <4>. SUFFICES ASSUME NEW x \in Clients, NEW i \in DOMAIN resend'[x]
                    PROVE  /\ resend'[x][i] \in Sent' /\ ClientOf[resend'[x][i]] = x /\ resend'[x][i] \notin PostedBy(x)
                           /\ \A j \in DOMAIN resend'[x] : resend'[x][i] = resend'[x][j] => i = j
        BY <2>2 DEF QueuedOnce
      <4>1. CASE x # c
        BY <4>1, <2>2, <3>4 DEF QueuedOnce
      <4>2. CASE x = c /\ i \in DOMAIN resend[c]
        BY <4>2, <2>2, <3>3, <3>4 DEF QueuedOnce
      <4>3. CASE x = c /\ i = Len(resend[c]) + 1
        BY <4>3, <2>2, <3>3, <3>4, <3>5 DEF QueuedOnce
      <4>. QED  BY <4>1, <4>2, <4>3, <3>4
    <3>7. ExecutedOnce'
      <4>1. \A x \in Clients : pc'[x] \in Sending => x # c /\ pc[x] \in Sending /\ wr'[x] = wr[x]
        BY <3>1 DEF Sending, ClientTypes
      <4>. QED  BY <4>1, <2>2, <3>4 DEF ExecutedOnce
    <3>. QED  BY <2>2, <3>6, <3>7
  <2>. QED  BY <2>3, <2>4
<1>5. ASSUME NEW c \in Clients, SendDirectly(c) PROVE OnePlace'
  <2>1. /\ pc[c] = "post" /\ ~Resending(c) /\ PostFma(c) /\ UNCHANGED <<state, resend>>
        /\ pc' = [pc EXCEPT ![c] = "idle"] /\ wr' = [wr EXCEPT ![c] = NONE]
    BY <1>5 DEF SendDirectly, SendReturns, Goto
  <2>p. /\ \A x \in Clients : PostedBy(x)' = IF x = c THEN PostedBy(x) \cup {wr[c]} ELSE PostedBy(x)
        /\ \A x \in Clients \ {c} : posted'[x] = posted[x]
        /\ DOMAIN posted'[c] = 1 .. Len(posted[c]) + 1 /\ DOMAIN posted[c] = 1 .. Len(posted[c])
        /\ \A i \in DOMAIN posted[c] : posted'[c][i] = posted[c][i]
        /\ posted'[c][Len(posted[c]) + 1].request = wr[c]
    BY <2>1, Posting
  <2>2. wr[c] \in Sent /\ ClientOf[wr[c]] = c /\ \A i \in DOMAIN resend[c] : resend[c][i] # wr[c]
    BY <2>1 DEF ExecutedOnce, Resending, Sending, ClientTypes
  <2>3. States' /\ Sent' = Sent
    BY <2>1 DEF States, Sent
  <2>4. PostedOnce'
    BY <2>1, <2>2, <2>3, <2>p DEF PostedOnce
  <2>5. QueuedOnce'
    BY <2>1, <2>2, <2>3, <2>p DEF QueuedOnce
  <2>6. \A x \in Clients : pc'[x] \in Sending => x # c /\ pc[x] \in Sending /\ wr'[x] = wr[x]
    BY <2>1 DEF Sending, ClientTypes
  <2>7. ExecutedOnce'
    BY <2>1, <2>3, <2>6, <2>p DEF ExecutedOnce
  <2>. QED  BY <2>3, <2>4, <2>5, <2>7
<1>6. ASSUME NEW c \in Clients, SendAgain(c) PROVE OnePlace'
  <2>1. /\ pc[c] = "post" /\ Resending(c) /\ PostFma(c) /\ UNCHANGED state
        /\ resend' = [resend EXCEPT ![c] = Tail(resend[c])]
    BY <1>6 DEF SendAgain
  <2>p. /\ \A x \in Clients : PostedBy(x)' = IF x = c THEN PostedBy(x) \cup {wr[c]} ELSE PostedBy(x)
        /\ \A x \in Clients \ {c} : posted'[x] = posted[x]
        /\ DOMAIN posted'[c] = 1 .. Len(posted[c]) + 1 /\ DOMAIN posted[c] = 1 .. Len(posted[c])
        /\ \A i \in DOMAIN posted[c] : posted'[c][i] = posted[c][i]
        /\ posted'[c][Len(posted[c]) + 1].request = wr[c]
    BY <2>1, Posting
  <2>2. /\ resend[c] \in Seq(Content) /\ resend[c] # <<>> /\ wr[c] = resend[c][1]
        /\ resend'[c] = Tail(resend[c]) /\ \A x \in Clients \ {c} : resend'[x] = resend[x]
    BY <2>1 DEF Resending, ClientTypes
  <2>3. /\ DOMAIN resend[c] = 1 .. Len(resend[c]) /\ DOMAIN resend'[c] = 1 .. Len(resend[c]) - 1
        /\ \A i \in DOMAIN resend'[c] : i + 1 \in DOMAIN resend[c] /\ resend'[c][i] = resend[c][i + 1]
        /\ 1 \in DOMAIN resend[c] /\ Len(resend[c]) \in Nat \ {0}
    BY <2>2, TailOf
  <2>4. wr[c] \in Sent /\ ClientOf[wr[c]] = c
    BY <2>1 DEF ExecutedOnce, Sending
  <2>5. \A i \in DOMAIN resend'[c] : resend'[c][i] # wr[c]
    BY <2>2, <2>3 DEF QueuedOnce
  <2>6. States' /\ Sent' = Sent
    BY <2>1 DEF States, Sent
  <2>7. PostedOnce'
    BY <2>1, <2>4, <2>6, <2>p DEF PostedOnce
  <2>8. QueuedOnce'
    <3>. SUFFICES ASSUME NEW x \in Clients, NEW i \in DOMAIN resend'[x]
                  PROVE  /\ resend'[x][i] \in Sent' /\ ClientOf[resend'[x][i]] = x /\ resend'[x][i] \notin PostedBy(x)'
                         /\ \A j \in DOMAIN resend'[x] : resend'[x][i] = resend'[x][j] => i = j
      BY <2>6 DEF QueuedOnce
    <3>1. CASE x # c
      BY <3>1, <2>1, <2>2, <2>6, <2>p DEF QueuedOnce
    <3>2. CASE x = c
      <4>1. i + 1 \in DOMAIN resend[c] /\ resend'[c][i] = resend[c][i + 1] /\ resend[c][i + 1] \notin PostedBy(c)'
        BY <3>2, <2>1, <2>3, <2>5, <2>p DEF QueuedOnce
      <4>2. \A j \in DOMAIN resend'[c] : resend'[c][i] = resend'[c][j] => i + 1 = j + 1
        BY <3>2, <4>1, <2>3 DEF QueuedOnce
      <4>. QED  BY <3>2, <4>1, <4>2, <2>3, <2>6 DEF QueuedOnce
    <3>. QED  BY <3>1, <3>2
  <2>9. ExecutedOnce'
    <3>1. CASE Len(resend[c]) > 1
      <4>1. wr' = [wr EXCEPT ![c] = resend[c][2]] /\ pc' = [pc EXCEPT ![c] = "fetch"]
        BY <1>6, <3>1 DEF SendAgain, Goto
      <4>2. 1 \in DOMAIN resend'[c] /\ wr'[c] = resend'[c][1]
        <5>1. 1 \in DOMAIN resend'[c] /\ resend'[c][1] = resend[c][1 + 1]
          BY <3>1, <2>3
        <5>. QED  BY <4>1, <5>1 DEF ClientTypes
      <4>3. \A x \in Clients \ {c} : pc'[x] = pc[x] /\ wr'[x] = wr[x]
        BY <4>1 DEF ClientTypes
      <4>4. ASSUME NEW x \in Clients \ {c}, pc'[x] \in Sending
            PROVE  /\ wr'[x] \in Sent' /\ ClientOf[wr'[x]] = x /\ wr'[x] \notin PostedBy(x)'
                   /\ \A i \in DOMAIN resend'[x] : resend'[x][i] = wr'[x] => i = 1
        BY <4>3, <4>4, <2>1, <2>2, <2>6, <2>p DEF ExecutedOnce
      <4>5. /\ wr'[c] \in Sent' /\ ClientOf[wr'[c]] = c /\ wr'[c] \notin PostedBy(c)'
            /\ \A i \in DOMAIN resend'[c] : resend'[c][i] = wr'[c] => i = 1
        BY <4>2, <2>8 DEF QueuedOnce
      <4>. QED  BY <4>4, <4>5 DEF ExecutedOnce
    <3>2. CASE ~(Len(resend[c]) > 1)
      <4>1. PassIsOver(c)
        BY <1>6, <3>2 DEF SendAgain
      <4>2. \A x \in Clients : pc'[x] \in Sending => x # c /\ pc[x] \in Sending /\ wr'[x] = wr[x]
        BY <4>1, PassPlaces DEF Sending, ClientTypes
      <4>. QED  BY <4>2, <2>1, <2>2, <2>6, <2>p DEF ExecutedOnce
    <3>. QED  BY <3>1, <3>2
  <2>. QED  BY <2>6, <2>7, <2>8, <2>9
<1>7. ASSUME NEW c \in Clients, SendCompletes(c) PROVE OnePlace'
  <2>1. PICK r : state' = [state EXCEPT ![r] = "COMPLETE"]
    BY <1>7 DEF SendCompletes
  <2>2. pc' = [pc EXCEPT ![c] = "resend"] /\ UNCHANGED <<wr, resend, posted>>
    BY <1>7 DEF SendCompletes, Goto
  <2>3. States' /\ Sent \subseteq Sent'
    BY <2>1 DEF States, Sent
  <2>. QED  BY <2>2, <2>3 DEF PostedOnce, QueuedOnce, ExecutedOnce, PostedBy, Sending, ClientTypes
<1>8. ASSUME NEW c \in Clients, SendTimesOut(c) PROVE OnePlace'
  BY <1>8 DEF SendTimesOut, Goto, network, States, PostedOnce, QueuedOnce, ExecutedOnce, PostedBy, Sent, Sending, ClientTypes
<1>9. ASSUME NEW c \in Clients, resend_all(c) PROVE OnePlace'
  <2>1. UNCHANGED <<state, resend, posted>>
    BY <1>9 DEF resend_all, network
  <2>2. States' /\ PostedOnce' /\ QueuedOnce' /\ Sent' = Sent /\ \A x \in Clients : PostedBy(x)' = PostedBy(x)
    BY <2>1 DEF States, PostedOnce, QueuedOnce, Sent, PostedBy
  <2>3. CASE resend[c] = <<>>
    <3>1. PassIsOver(c)
      BY <1>9, <2>3 DEF resend_all
    <3>2. \A x \in Clients : pc'[x] \in Sending => pc[x] \in Sending /\ wr'[x] = wr[x]
      BY <3>1, PassPlaces DEF Sending, ClientTypes
    <3>. QED  BY <2>1, <2>2, <3>2 DEF ExecutedOnce
  <2>4. CASE resend[c] # <<>>
    <3>1. wr' = [wr EXCEPT ![c] = Head(resend[c])] /\ pc' = [pc EXCEPT ![c] = "fetch"]
      BY <1>9, <2>4 DEF resend_all, Goto
    <3>2. resend[c] \in Seq(Content) /\ 1 \in DOMAIN resend[c] /\ wr'[c] = resend[c][1]
      BY <3>1, <2>4, TailOf DEF ClientTypes
    <3>3. \A x \in Clients \ {c} : pc'[x] = pc[x] /\ wr'[x] = wr[x]
      BY <3>1 DEF ClientTypes
    <3>. QED  BY <2>1, <2>2, <3>2, <3>3 DEF ExecutedOnce, QueuedOnce
  <2>. QED  BY <2>3, <2>4
<1>10. CASE UNCHANGED <<state, posted, resend, wr, pc>>
  BY <1>10 DEF States, PostedOnce, QueuedOnce, ExecutedOnce, PostedBy, Sent
<1>. QED  BY <1>1, <1>2, <1>3, <1>4, <1>5, <1>6, <1>7, <1>8, <1>9, <1>10, MovesNone

-----------------------------------------------------------------------------
(***************************************************************************)
(* The two sides count the same slots.                                     *)
(***************************************************************************)
\* Quotient and remainder.
LEMMA Division ==
    ASSUME NEW m \in Nat \ {0}, NEW a \in Nat
    PROVE  a = m * (a \div m) + (a % m) /\ a % m \in 0 .. m - 1 /\ a \div m \in Nat
OBVIOUS

\* A positive multiple of a number is at least that number.
LEMMA Multiple == ASSUME NEW m \in Nat \ {0}, NEW k \in Int, m * k > 0 PROVE m * k >= m
<1>1. k > 0
  <2>1. CASE k <= 0
    <3>1. m * k <= 0
      BY <2>1
    <3>. QED  BY <3>1
  <2>. QED  BY <2>1
<1>2. m * (k - 1) >= 0
  BY <1>1
<1>. QED  BY <1>2

\* Two numbers less than the size of the ring apart are in different slots.
LEMMA SlotsDiffer ==
    ASSUME NEW a \in Nat, NEW b \in Nat, a < b, b - a < MaxCredits
    PROVE  a % MaxCredits # b % MaxCredits
<1>. SUFFICES ASSUME a % MaxCredits = b % MaxCredits PROVE FALSE
  OBVIOUS
<1>. DEFINE m == MaxCredits
            p == a \div m
            q == b \div m
<1>0. m \in Nat \ {0}
  BY Assumptions DEF Assumptions
<1>1. a = m * p + (a % m) /\ p \in Nat
  BY <1>0, Division
<1>2. b = m * q + (b % m) /\ q \in Nat
  BY <1>0, Division
<1>3. a % m \in 0 .. m - 1
  BY <1>0, Division
<1>. HIDE DEF p, q, m
<1>r. a % m = b % m
  BY DEF m
<1>4. b - a = m * q - m * p
  BY <1>0, <1>1, <1>2, <1>3, <1>r
<1>5. m * q - m * p = m * (q - p)
  BY <1>0, <1>1, <1>2
<1>6. m * (q - p) > 0
  BY <1>4, <1>5
<1>7. m * (q - p) >= m
  BY <1>0, <1>1, <1>2, <1>6, Multiple
<1>8. b - a < m /\ b - a \in Int
  BY DEF m
<1>. QED  BY <1>0, <1>4, <1>5, <1>7, <1>8

\* No more than the slots there are, and one less for the request in hand.
LEMMA Room ==
    ASSUME IInv, NEW c \in Clients
    PROVE  /\ credits[c] >= 0 /\ NPosted(c) - NCopied(c) <= MaxCredits
           /\ pc[c] = "post" => NPosted(c) - NCopied(c) < MaxCredits
<1>1. Balance(c) = MaxCredits
  BY DEF IInv, CreditsAccounted, Balance, NPosted, NCopied
<1>2. /\ credits[c] \in Int /\ NPosted(c) \in Int /\ NCopied(c) \in Int
      /\ InHand(c) \in Int /\ OnItsWay(c) \in Int
  BY BalanceTypes DEF IInv, Types
<1>3. credits[c] >= 0 /\ InHand(c) >= 0 /\ OnItsWay(c) >= 0 /\ (pc[c] = "post" => InHand(c) = 1)
  BY DEF IInv, NotNegative, InHand, OnItsWay
<1>4. MaxCredits \in Int
  BY Assumptions DEF Assumptions
<1>. QED  BY <1>1, <1>2, <1>3, <1>4 DEF Balance

\* The actions that matter for what is on its way.
LEMMA NetworkSteps ==
    ASSUME [Next]_vars
    PROVE  \/ \E c \in Clients : SendDirectly(c) \/ SendAgain(c) \/ Deliver(c) \/ RequestArrives(c)
           \/ execute_mbox_copy \/ send_back_credits
           \/ /\ UNCHANGED <<posted, mbox_index, delivered, mbox, reqs_received, mbox_backlog, copied>>
              /\ spc' = "credit" <=> spc = "credit"
<1>. DEFINE Same == /\ UNCHANGED <<posted, mbox_index, delivered, mbox, reqs_received, mbox_backlog, copied>>
                    /\ spc' = "credit" <=> spc = "credit"
<1>1. CASE UNCHANGED vars
  BY <1>1 DEF vars, client, flow, network, server
<1>2. ASSUME NEW c \in Clients, NEW r \in Requests, NNTI_gni_send(c, r) \/ WaitForSend(c, r) PROVE Same
  BY <1>2 DEF NNTI_gni_send, WaitForSend, flow, network, server
<1>3. ASSUME NEW c \in Clients, FetchCredits(c) \/ TakeCredit(c) \/ RetryCredit(c) \/ NoCredit(c) PROVE Same
  BY <1>3 DEF FetchCredits, TakeCredit, RetryCredit, NoCredit, flow, network, server
<1>4. ASSUME NEW c \in Clients, SendCompletes(c) \/ SendTimesOut(c) \/ resend_all(c) PROVE Same
  BY <1>4 DEF SendCompletes, SendTimesOut, resend_all, flow, network, server
<1>5. CASE NNTI_gni_create_work_request \/ NNTI_gni_destroy_work_request
  BY <1>5 DEF NNTI_gni_create_work_request, NNTI_gni_destroy_work_request, client, flow, network
<1>6. ASSUME NEW what, ServerWaits(what) PROVE Same
  BY <1>6 DEF ServerWaits, client, flow, network
<1>7. CASE NothingArrives \/ WaitFinishes
  BY <1>7 DEF NothingArrives, WaitFinishes, client, flow, network
<1>8. CASE BacklogIsDone
  BY <1>8 DEF BacklogIsDone, client, flow, network
<1>. QED  BY <1>1, <1>2, <1>3, <1>4, <1>5, <1>6, <1>7, <1>8 DEF Next, Executing, Serving

\* At the beginning nothing is counted.
LEMMA InitInOrder == Init => InOrder
<1>. SUFFICES ASSUME Init PROVE InOrder
  OBVIOUS
<1>1. SlotsCounted /\ Behind /\ MailboxHolds
  BY DEF Init, SlotsCounted, Behind, MailboxHolds
<1>2. Backlog
  <2>. DEFINE none == [j \in DOMAIN mbox_backlog |-> 0]
  <2>1. DOMAIN mbox_backlog = {} /\ none \in [DOMAIN mbox_backlog -> Nat]
    BY DEF Init
  <2>2. \A c \in Clients : Settled(c) = 0 /\ reqs_received[c] = 0
    BY DEF Init, Settled, OnItsWay
  <2>. HIDE DEF none
  <2>3. \A c \in Clients : Numbered(none, mbox_backlog, c, Settled(c), reqs_received[c])
    BY <2>1, <2>2 DEF Numbered
  <2>. QED  BY <2>1, <2>3 DEF Backlog
<1>. QED  BY <1>1, <1>2 DEF InOrder

\* Counts are numbers.
LEMMA CountsAreNumbers ==
    ASSUME Types, NEW c \in Clients
    PROVE  /\ Len(posted[c]) \in Nat /\ DOMAIN posted[c] = 1 .. Len(posted[c])
           /\ Len(copied[c]) \in Nat /\ DOMAIN copied[c] = 1 .. Len(copied[c])
           /\ delivered[c] \in Nat /\ reqs_received[c] \in Nat /\ mbox_index[c] \in Nat
           /\ OnItsWay(c) \in {0, 1} /\ Settled(c) \in Int
           /\ MaxCredits \in Nat \ {0}
BY Assumptions DEF Assumptions, Types, ClientTypes, NetworkTypes, ServerTypes, OnItsWay, Settled

\* Nothing of the server's side changes.
LEMMA SameBacklog ==
    ASSUME Backlog, UNCHANGED <<mbox_backlog, reqs_received>>, \A c \in Clients : Settled(c)' = Settled(c)
    PROVE  Backlog'
BY DEF Backlog

\* A request that is posted has the next slot.
LEMMA SendInOrder ==
    ASSUME IInv, InOrder, NEW c \in Clients, SendDirectly(c) \/ SendAgain(c)
    PROVE  InOrder'
<1>1. /\ PostFma(c) /\ mbox_index' = [mbox_index EXCEPT ![c] = mbox_index[c] + 1]
      /\ UNCHANGED <<delivered, mbox, spc, reqs_received, mbox_backlog, copied>>
  BY DEF SendDirectly, SendAgain, PostFma, server
<1>p. /\ \A x \in Clients \ {c} : posted'[x] = posted[x]
      /\ posted'[c] = Append(posted[c], [request |-> wr[c], slot |-> NextSlot(c)])
      /\ DOMAIN posted'[c] = 1 .. Len(posted[c]) + 1
      /\ \A i \in DOMAIN posted[c] : posted'[c][i] = posted[c][i]
      /\ posted'[c][Len(posted[c]) + 1].slot = NextSlot(c)
  BY <1>1, Posting DEF IInv, Types
<1>2. Types
  BY DEF IInv
<1>3. Len(posted'[c]) = Len(posted[c]) + 1
  BY <1>p, <1>2, CountsAreNumbers
<1>4. NextSlot(c) = (Len(posted[c]) + 1 - 1) % MaxCredits /\ mbox_index'[c] = Len(posted[c]) + 1
  BY <1>1, <1>2, CountsAreNumbers DEF InOrder, SlotsCounted, NextSlot, Types, ClientTypes
<1>5. SlotsCounted'
  <2>1. ASSUME NEW x \in Clients \ {c}
        PROVE  Len(posted'[x]) = mbox_index'[x] /\ \A i \in DOMAIN posted'[x] : posted'[x][i].slot = (i - 1) % MaxCredits
    BY <1>1, <1>p DEF InOrder, SlotsCounted, IInv, Types, ClientTypes
  <2>2. \A i \in DOMAIN posted'[c] : posted'[c][i].slot = (i - 1) % MaxCredits
    <3>. SUFFICES ASSUME NEW i \in DOMAIN posted'[c] PROVE posted'[c][i].slot = (i - 1) % MaxCredits
      OBVIOUS
    <3>1. CASE i \in DOMAIN posted[c]
      BY <3>1, <1>p DEF InOrder, SlotsCounted
    <3>2. CASE i = Len(posted[c]) + 1
      BY <3>2, <1>p, <1>4
    <3>. QED  BY <3>1, <3>2, <1>p, <1>2, CountsAreNumbers
  <2>. QED  BY <2>1, <2>2, <1>3, <1>4 DEF SlotsCounted
<1>6. Behind'
  <2>1. \A x \in Clients : Len(posted'[x]) >= Len(posted[x])
    BY <1>p, <1>2, <1>3, CountsAreNumbers
  <2>. QED  BY <1>1, <1>2, <1>3, <2>1, CountsAreNumbers DEF InOrder, Behind
<1>7. MailboxHolds'
  <2>. SUFFICES ASSUME NEW x \in Clients, NEW i \in Len(copied[x]) + 1 .. delivered[x]
                PROVE  mbox[x][(i - 1) % MaxCredits] = posted'[x][i].request
    BY <1>1 DEF MailboxHolds
  <2>1. i \in DOMAIN posted[x]
    BY <1>2, CountsAreNumbers DEF InOrder, Behind
  <2>2. posted'[x][i] = posted[x][i]
    BY <2>1, <1>p
  <2>. QED  BY <2>2 DEF InOrder, MailboxHolds
<1>8. Backlog'
  <2>1. \A x \in Clients : Settled(x)' = Settled(x)
    BY <1>1 DEF Settled, OnItsWay
  <2>. QED  BY <1>1, <2>1, SameBacklog DEF InOrder
<1>. QED  BY <1>5, <1>6, <1>7, <1>8 DEF InOrder

\* A request is written into a slot whose last request has been copied.
LEMMA DeliverInOrder ==
    ASSUME IInv, InOrder, NEW c \in Clients, Deliver(c)
    PROVE  InOrder'
<1>. DEFINE d == delivered[c]
            p == posted[c][d + 1]
<1>1. /\ d < Len(posted[c]) /\ delivered' = [delivered EXCEPT ![c] = d + 1]
      /\ mbox' = [mbox EXCEPT ![c] = [mbox[c] EXCEPT ![p.slot] = p.request]]
      /\ UNCHANGED <<posted, mbox_index, spc, reqs_received, mbox_backlog, copied>>
  BY DEF Deliver, client, flow, server
<1>2. Types
  BY DEF IInv
<1>3. d + 1 \in DOMAIN posted[c] /\ p.slot = (d + 1 - 1) % MaxCredits /\ d + 1 - 1 = d /\ d \in Nat
  BY <1>1, <1>2, CountsAreNumbers DEF InOrder, SlotsCounted
<1>4. p.slot = d % MaxCredits /\ p.slot \in Slots
  BY <1>3, SlotsWrap
<1>5. delivered'[c] = d + 1 /\ \A x \in Clients \ {c} : delivered'[x] = delivered[x] /\ mbox'[x] = mbox[x]
  BY <1>1, <1>2 DEF Types, NetworkTypes
<1>6. /\ mbox'[c][p.slot] = p.request
      /\ \A s \in Slots \ {p.slot} : mbox'[c][s] = mbox[c][s]
  BY <1>1, <1>4, <1>2 DEF Types, NetworkTypes
<1>7. SlotsCounted'
  BY <1>1 DEF InOrder, SlotsCounted
<1>8. Behind'
  BY <1>1, <1>2, <1>5, CountsAreNumbers DEF InOrder, Behind
<1>9. MailboxHolds'
  <2>. SUFFICES ASSUME NEW x \in Clients, NEW i \in Len(copied[x]) + 1 .. delivered'[x]
                PROVE  mbox'[x][(i - 1) % MaxCredits] = posted[x][i].request
    BY <1>1 DEF MailboxHolds
  <2>1. CASE x # c
    BY <2>1, <1>5 DEF InOrder, MailboxHolds
  <2>2. CASE x = c /\ i = d + 1
    BY <2>2, <1>3, <1>4, <1>6
  <2>3. CASE x = c /\ i # d + 1
    <3>1. i - 1 \in Nat /\ i \in Len(copied[c]) + 1 .. d /\ i - 1 < d
      BY <2>3, <1>2, <1>3, <1>5, CountsAreNumbers, SMTT(30)
    <3>2. d - (i - 1) < MaxCredits
      <4>1. Len(posted[c]) - Len(copied[c]) <= MaxCredits
        BY Room DEF NPosted, NCopied
      <4>2. d < Len(posted[c]) /\ i - 1 >= Len(copied[c])
        BY <1>1, <3>1, <1>2, CountsAreNumbers
      <4>3. Len(posted[c]) \in Int /\ Len(copied[c]) \in Int /\ MaxCredits \in Int /\ d \in Int /\ i - 1 \in Int
        BY <1>2, <1>3, <3>1, CountsAreNumbers
      <4>. HIDE DEF d
      <4>. QED  BY <4>1, <4>2, <4>3
    <3>3. (i - 1) % MaxCredits # d % MaxCredits
      BY <3>1, <3>2, <1>3, SlotsDiffer
    <3>4. (i - 1) % MaxCredits \in Slots
      BY <3>1, SlotsWrap
    <3>5. mbox'[c][(i - 1) % MaxCredits] = mbox[c][(i - 1) % MaxCredits]
      BY <3>3, <3>4, <1>4, <1>6
    <3>. QED  BY <2>3, <3>1, <3>5 DEF InOrder, MailboxHolds
  <2>. QED  BY <2>1, <2>2, <2>3
<1>10. Backlog'
  <2>1. \A x \in Clients : Settled(x)' = Settled(x)
    BY <1>1 DEF Settled, OnItsWay
  <2>. QED  BY <1>1, <2>1, SameBacklog DEF InOrder
<1>. QED  BY <1>7, <1>8, <1>9, <1>10 DEF InOrder

\* The next number of its connection is put at the end of the backlog.
LEMMA ArriveInOrder ==
    ASSUME IInv, InOrder, NEW c \in Clients, RequestArrives(c)
    PROVE  InOrder'
<1>. DEFINE L == Len(mbox_backlog)
            new == [conn |-> c, queue_index |-> req_index % QueueSize, mbox_index |-> reqs_received[c] % MaxCredits]
<1>1. /\ reqs_received[c] < delivered[c] /\ reqs_received' = [reqs_received EXCEPT ![c] = reqs_received[c] + 1]
      /\ mbox_backlog' = Append(mbox_backlog, new)
      /\ spc = "progress" /\ spc' = "backlog"
      /\ UNCHANGED <<posted, mbox_index, delivered, mbox, copied>>
  BY DEF RequestArrives, Arrived, PutBack, client, flow, network
<1>2. Types
  BY DEF IInv
<1>3. reqs_received'[c] = reqs_received[c] + 1 /\ \A x \in Clients \ {c} : reqs_received'[x] = reqs_received[x]
  BY <1>1, <1>2 DEF Types, ServerTypes
<1>4. SlotsCounted' /\ MailboxHolds'
  BY <1>1 DEF InOrder, SlotsCounted, MailboxHolds
<1>5. Behind'
  BY <1>1, <1>2, <1>3, CountsAreNumbers DEF InOrder, Behind
<1>6. Backlog'
  <2>1. mbox_backlog \in Seq([conn : Clients, queue_index : Elements, mbox_index : Slots])
    BY <1>2 DEF Types, ServerTypes
  <2>2. /\ L \in Nat /\ DOMAIN mbox_backlog = 1 .. L /\ DOMAIN mbox_backlog' = 1 .. L + 1
        /\ \A j \in 1 .. L : mbox_backlog'[j] = mbox_backlog[j]
        /\ mbox_backlog'[L + 1] = new
    BY <2>1, <1>1
  <2>3. new.conn = c /\ new.mbox_index = reqs_received[c] % MaxCredits
    OBVIOUS
  <2>4. \A x \in Clients : Settled(x)' = Len(copied[x]) /\ Settled(x) = Len(copied[x])
    BY <1>1, <1>2, CountsAreNumbers DEF Settled, OnItsWay
  <2>5. PICK numbers \in [DOMAIN mbox_backlog -> Nat] : \A x \in Clients : Numbered(numbers, mbox_backlog, x, Settled(x), reqs_received[x])
    BY DEF InOrder, Backlog
  <2>. DEFINE more == [j \in DOMAIN mbox_backlog' |-> IF j = L + 1 THEN reqs_received[c] ELSE numbers[j]]
  <2>6. more[L + 1] = reqs_received[c] /\ \A j \in 1 .. L : more[j] = numbers[j]
    BY <2>2
  <2>7. more \in [DOMAIN mbox_backlog' -> Nat]
    BY <2>2, <1>2, CountsAreNumbers
  <2>. HIDE DEF new, more, L
  <2>8. ASSUME NEW x \in Clients PROVE Numbered(more, mbox_backlog', x, Settled(x)', reqs_received'[x])
    <3>0. reqs_received[x] \in Nat /\ Len(copied[x]) \in Nat /\ Len(copied[x]) <= reqs_received[x]
      BY <1>2, CountsAreNumbers DEF InOrder, Behind
    <3>n. Numbered(numbers, mbox_backlog, x, Settled(x), reqs_received[x])
      BY <2>5
    <3>1. ASSUME NEW j \in 1 .. L + 1, mbox_backlog'[j].conn = x
          PROVE  /\ more[j] \in Len(copied[x]) .. reqs_received'[x] - 1
                 /\ mbox_backlog'[j].mbox_index = more[j] % MaxCredits
      <4>1. CASE j = L + 1
        BY <3>0, <3>1, <4>1, <2>2, <2>3, <2>6, <1>3
      <4>2. CASE j # L + 1
        <5>1. j \in 1 .. L /\ mbox_backlog[j].conn = x
          BY <3>1, <4>2, <2>2
        <5>2. numbers[j] \in Len(copied[x]) .. reqs_received[x] - 1 /\ mbox_backlog[j].mbox_index = numbers[j] % MaxCredits
          BY <5>1, <3>n, <2>2, <2>4 DEF Numbered
        <5>3. numbers[j] \in Len(copied[x]) .. reqs_received'[x] - 1
          BY <5>2, <3>0, <1>3
        <5>. QED  BY <5>1, <5>2, <5>3, <2>2, <2>6
      <4>. QED  BY <4>1, <4>2
    <3>2. ASSUME NEW n \in Len(copied[x]) .. reqs_received'[x] - 1
          PROVE  \E j \in 1 .. L + 1 : mbox_backlog'[j].conn = x /\ more[j] = n
      <4>1. CASE x = c /\ n = reqs_received[c]
        BY <4>1, <2>2, <2>3, <2>6
      <4>2. CASE ~(x = c /\ n = reqs_received[c])
        <5>1. n \in Len(copied[x]) .. reqs_received[x] - 1
          BY <4>2, <3>0, <1>3
        <5>2. PICK j \in 1 .. L : mbox_backlog[j].conn = x /\ numbers[j] = n
          BY <5>1, <3>n, <2>2, <2>4 DEF Numbered
        <5>. QED  BY <5>2, <2>2, <2>6
      <4>. QED  BY <4>1, <4>2
    <3>3. ASSUME NEW i \in 1 .. L + 1, NEW j \in 1 .. L + 1, i < j, mbox_backlog'[i].conn = x, mbox_backlog'[j].conn = x
          PROVE  more[i] < more[j]
      <4>1. i \in 1 .. L /\ mbox_backlog[i].conn = x
        BY <3>3, <2>2
      <4>2. CASE j = L + 1
        <5>1. x = c /\ more[j] = reqs_received[c]
          BY <4>2, <3>3, <2>2, <2>3, <2>6
        <5>2. numbers[i] \in Len(copied[c]) .. reqs_received[c] - 1
          BY <4>1, <5>1, <3>n, <2>2, <2>4 DEF Numbered
        <5>. QED  BY <4>1, <5>1, <5>2, <2>6, <3>0
      <4>3. CASE j # L + 1
        <5>1. j \in 1 .. L /\ mbox_backlog[j].conn = x
          BY <3>3, <4>3, <2>2
        <5>2. numbers[i] < numbers[j]
          BY <3>3, <4>1, <5>1, <3>n, <2>2 DEF Numbered
        <5>. QED  BY <4>1, <5>1, <5>2, <2>6
      <4>. QED  BY <4>2, <4>3
    <3>. QED  BY <3>1, <3>2, <3>3, <2>2, <2>4 DEF Numbered
  <2>. QED  BY <2>7, <2>8 DEF Backlog
<1>. QED  BY <1>4, <1>5, <1>6 DEF InOrder

\* The head of the backlog has the lowest number of its connection.
LEMMA HeadIsFirst ==
    ASSUME Types, NEW c \in Clients, mbox_backlog # <<>>, Head(mbox_backlog).conn = c,
           NEW numbers \in [DOMAIN mbox_backlog -> Nat], Numbered(numbers, mbox_backlog, c, Settled(c), reqs_received[c])
    PROVE  /\ numbers[1] = Settled(c) /\ Settled(c) < reqs_received[c]
           /\ Head(mbox_backlog).mbox_index = Settled(c) % MaxCredits
<1>1. Settled(c) \in Int /\ reqs_received[c] \in Nat
  BY CountsAreNumbers
<1>2. 1 \in DOMAIN mbox_backlog /\ Head(mbox_backlog) = mbox_backlog[1] /\ DOMAIN mbox_backlog = 1 .. Len(mbox_backlog)
  BY DEF Types, ServerTypes
<1>3. numbers[1] \in Settled(c) .. reqs_received[c] - 1 /\ mbox_backlog[1].mbox_index = numbers[1] % MaxCredits
  BY <1>2 DEF Numbered
<1>4. Settled(c) \in Settled(c) .. reqs_received[c] - 1
  BY <1>1, <1>3
<1>5. PICK j \in DOMAIN mbox_backlog : mbox_backlog[j].conn = c /\ numbers[j] = Settled(c)
  BY <1>4 DEF Numbered
<1>6. j = 1 \/ numbers[1] < numbers[j]
  BY <1>2, <1>5 DEF Numbered
<1>. QED  BY <1>1, <1>2, <1>3, <1>5, <1>6

\* What is copied is the next request posted: the heart of the matter.
LEMMA CopiesNext ==
    ASSUME IInv, InOrder, execute_mbox_copy, NEW c, c = Head(mbox_backlog).conn
    PROVE  /\ c \in Clients /\ Len(copied[c]) < reqs_received[c] /\ Len(copied[c]) < Len(posted[c])
           /\ copied' = [copied EXCEPT ![c] = Append(copied[c], posted[c][Len(copied[c]) + 1].request)]
<1>. DEFINE b == Head(mbox_backlog)
            n == Len(copied[c])
<1>1. Types /\ mbox_backlog # <<>> /\ spc = "backlog"
  BY DEF IInv, execute_mbox_copy, Copyable
<1>2. c \in Clients
  BY <1>1, HeadOfBacklog DEF Types
<1>3. PICK numbers \in [DOMAIN mbox_backlog -> Nat] : Numbered(numbers, mbox_backlog, c, Settled(c), reqs_received[c])
  BY <1>2 DEF InOrder, Backlog
<1>4. Settled(c) = n /\ n \in Nat
  BY <1>1, <1>2, CountsAreNumbers DEF Settled, OnItsWay
<1>5. n < reqs_received[c] /\ b.mbox_index = n % MaxCredits
  BY <1>1, <1>2, <1>3, <1>4, HeadIsFirst
<1>6. n + 1 \in Len(copied[c]) + 1 .. delivered[c] /\ n < Len(posted[c])
  BY <1>1, <1>2, <1>4, <1>5, CountsAreNumbers DEF InOrder, Behind
<1>7. mbox[c][(n + 1 - 1) % MaxCredits] = posted[c][n + 1].request
  BY <1>2, <1>6, SMTT(30) DEF InOrder, MailboxHolds
<1>8. n + 1 - 1 = n
  BY <1>4
<1>9. mbox[c][b.mbox_index] = posted[c][n + 1].request
  BY <1>5, <1>7, <1>8
<1>10. copied' = [copied EXCEPT ![c] = Append(copied[c], mbox[c][b.mbox_index])]
  BY DEF execute_mbox_copy
<1>. QED  BY <1>2, <1>5, <1>6, <1>9, <1>10

\* Copying makes room for the next request in order.
LEMMA CopyInOrder ==
    ASSUME IInv, InOrder, execute_mbox_copy
    PROVE  InOrder'
<1>. DEFINE c == Head(mbox_backlog).conn
<1>1. /\ c \in Clients /\ Len(copied[c]) < reqs_received[c]
      /\ copied' = [copied EXCEPT ![c] = Append(copied[c], posted[c][Len(copied[c]) + 1].request)]
  BY CopiesNext
<1>2. /\ spc = "backlog" /\ spc' = "credit"
      /\ UNCHANGED <<posted, mbox_index, delivered, mbox, reqs_received, mbox_backlog>>
  BY DEF execute_mbox_copy, client, flow, network
<1>3. Types
  BY DEF IInv
<1>4. Len(copied'[c]) = Len(copied[c]) + 1 /\ \A x \in Clients \ {c} : copied'[x] = copied[x]
  BY <1>1, <1>3 DEF Types, ServerTypes
<1>5. SlotsCounted'
  BY <1>2 DEF InOrder, SlotsCounted
<1>6. Behind'
  BY <1>1, <1>2, <1>3, <1>4, CountsAreNumbers DEF InOrder, Behind
<1>7. MailboxHolds'
  <2>1. \A x \in Clients : Len(copied'[x]) + 1 .. delivered[x] \subseteq Len(copied[x]) + 1 .. delivered[x]
    BY <1>3, <1>4, CountsAreNumbers, SMTT(30)
  <2>2. \A x \in Clients : \A i \in Len(copied[x]) + 1 .. delivered[x] :
          mbox[x][(i - 1) % MaxCredits] = posted[x][i].request
    BY DEF InOrder, MailboxHolds
  <2>3. \A x \in Clients : \A i \in Len(copied'[x]) + 1 .. delivered[x] :
          mbox[x][(i - 1) % MaxCredits] = posted[x][i].request
    BY <2>1, <2>2
  <2>. QED  BY <1>2, <2>3 DEF MailboxHolds
<1>8. Backlog'
  <2>1. \A x \in Clients : Settled(x)' = Settled(x)
    <3>1. \A x \in Clients : OnItsWay(x) = 0 /\ OnItsWay(x)' = IF x = c THEN 1 ELSE 0
      BY <1>2 DEF OnItsWay
    <3>. QED  BY <3>1, <1>3, <1>4, CountsAreNumbers DEF Settled
  <2>. QED  BY <1>2, <2>1, SameBacklog DEF InOrder
<1>. QED  BY <1>5, <1>6, <1>7, <1>8 DEF InOrder

\* The lowest number of its connection leaves the backlog.
LEMMA CreditInOrder ==
    ASSUME IInv, InOrder, send_back_credits
    PROVE  InOrder'
<1>. DEFINE c == Head(mbox_backlog).conn
            L == Len(mbox_backlog)
<1>1. /\ spc = "credit" /\ spc' = "backlog" /\ mbox_backlog' = Tail(mbox_backlog)
      /\ UNCHANGED <<posted, mbox_index, delivered, mbox, reqs_received, copied>>
  BY DEF send_back_credits, network
<1>2. Types /\ mbox_backlog # <<>>
  BY <1>1 DEF IInv, HasHead
<1>3. c \in Clients
  BY <1>2, HeadOfBacklog DEF Types
<1>4. SlotsCounted' /\ Behind' /\ MailboxHolds'
  BY <1>1 DEF InOrder, SlotsCounted, Behind, MailboxHolds
<1>5. Backlog'
  <2>1. /\ L \in Nat \ {0} /\ DOMAIN mbox_backlog = 1 .. L /\ DOMAIN mbox_backlog' = 1 .. L - 1
        /\ \A j \in 1 .. L - 1 : j + 1 \in 1 .. L /\ mbox_backlog'[j] = mbox_backlog[j + 1]
        /\ Head(mbox_backlog) = mbox_backlog[1] /\ 1 \in 1 .. L
    BY <1>1, <1>2, TailOf DEF Types, ServerTypes
  <2>2. PICK numbers \in [DOMAIN mbox_backlog -> Nat] : \A x \in Clients : Numbered(numbers, mbox_backlog, x, Settled(x), reqs_received[x])
    BY DEF InOrder, Backlog
  <2>3. numbers[1] = Settled(c)
    BY <1>2, <1>3, <2>2, HeadIsFirst
  <2>4. \A x \in Clients : Settled(x)' = IF x = c THEN Settled(x) + 1 ELSE Settled(x)
    <3>1. \A x \in Clients : OnItsWay(x)' = 0 /\ OnItsWay(x) = IF x = c THEN 1 ELSE 0
      BY <1>1 DEF OnItsWay
    <3>. QED  BY <3>1, <1>1, <1>2, CountsAreNumbers DEF Settled
  <2>. DEFINE fewer == [j \in DOMAIN mbox_backlog' |-> numbers[j + 1]]
  <2>5. fewer \in [DOMAIN mbox_backlog' -> Nat] /\ \A j \in 1 .. L - 1 : fewer[j] = numbers[j + 1]
    BY <2>1
  <2>. HIDE DEF fewer, L, c
  <2>6. ASSUME NEW x \in Clients PROVE Numbered(fewer, mbox_backlog', x, Settled(x)', reqs_received'[x])
    <3>0. Settled(x) \in Int /\ reqs_received[x] \in Nat
      BY <1>2, CountsAreNumbers
    <3>n. Numbered(numbers, mbox_backlog, x, Settled(x), reqs_received[x])
      BY <2>2
    <3>1. ASSUME NEW j \in 1 .. L - 1, mbox_backlog'[j].conn = x
          PROVE  /\ fewer[j] \in Settled(x)' .. reqs_received[x] - 1
                 /\ mbox_backlog'[j].mbox_index = fewer[j] % MaxCredits
      <4>1. j + 1 \in 1 .. L /\ mbox_backlog[j + 1].conn = x /\ fewer[j] = numbers[j + 1]
        BY <3>1, <2>1, <2>5
      <4>2. numbers[j + 1] \in Settled(x) .. reqs_received[x] - 1 /\ mbox_backlog[j + 1].mbox_index = numbers[j + 1] % MaxCredits
        BY <4>1, <3>n, <2>1 DEF Numbered
      <4>3. CASE x = c
        <5>1. mbox_backlog[1].conn = x /\ 1 < j + 1
          BY <4>3, <2>1 DEF c
        <5>2. numbers[1] < numbers[j + 1]
          BY <5>1, <4>1, <3>n, <2>1 DEF Numbered
        <5>3. Settled(x)' = numbers[1] + 1 /\ numbers[1] \in Int
          BY <4>3, <3>0, <2>3, <2>4
        <5>4. fewer[j] \in Settled(x)' .. reqs_received[x] - 1
          BY <4>1, <4>2, <5>2, <5>3, <3>0
        <5>5. mbox_backlog'[j].mbox_index = fewer[j] % MaxCredits
          BY <4>1, <4>2, <2>1
        <5>. QED  BY <5>4, <5>5
      <4>4. CASE x # c
        BY <4>1, <4>2, <4>4, <3>0, <2>1, <2>4
      <4>. QED  BY <4>3, <4>4
    <3>2. ASSUME NEW n \in Settled(x)' .. reqs_received[x] - 1
          PROVE  \E j \in 1 .. L - 1 : mbox_backlog'[j].conn = x /\ fewer[j] = n
      <4>1. n \in Settled(x) .. reqs_received[x] - 1 /\ (x = c => n # numbers[1])
        BY <3>0, <2>3, <2>4
      <4>2. PICK k \in 1 .. L : mbox_backlog[k].conn = x /\ numbers[k] = n
        BY <4>1, <3>n, <2>1 DEF Numbered
      <4>3. k # 1
        BY <4>1, <4>2, <2>1 DEF c
      <4>4. k - 1 \in 1 .. L - 1 /\ k - 1 + 1 = k
        BY <4>2, <4>3, <2>1
      <4>5. mbox_backlog'[k - 1] = mbox_backlog[k] /\ fewer[k - 1] = numbers[k]
        BY <4>4, <2>1, <2>5
      <4>. QED  BY <4>2, <4>4, <4>5
    <3>3. ASSUME NEW i \in 1 .. L - 1, NEW j \in 1 .. L - 1, i < j, mbox_backlog'[i].conn = x, mbox_backlog'[j].conn = x
          PROVE  fewer[i] < fewer[j]
      <4>1. i + 1 \in 1 .. L /\ j + 1 \in 1 .. L /\ i + 1 < j + 1
        BY <3>3, <2>1
      <4>2. numbers[i + 1] < numbers[j + 1]
        BY <4>1, <3>3, <3>n, <2>1 DEF Numbered
      <4>. QED  BY <4>2, <2>5
    <3>4. reqs_received'[x] = reqs_received[x]
      BY <1>1
    <3>. QED  BY <3>1, <3>2, <3>3, <3>4, <2>1 DEF Numbered
  <2>. QED  BY <2>5, <2>6 DEF Backlog
<1>. QED  BY <1>4, <1>5 DEF InOrder

\* Every step keeps the slots in order.
LEMMA StepInOrder == ASSUME IInv, InOrder, [Next]_vars PROVE InOrder'
<1>1. CASE /\ UNCHANGED <<posted, mbox_index, delivered, mbox, reqs_received, mbox_backlog, copied>>
           /\ spc' = "credit" <=> spc = "credit"
  <2>1. \A x \in Clients : Settled(x)' = Settled(x)
    BY <1>1 DEF Settled, OnItsWay
  <2>2. Backlog'
    BY <1>1, <2>1, SameBacklog DEF InOrder
  <2>. QED  BY <1>1, <2>2 DEF InOrder, SlotsCounted, Behind, MailboxHolds
<1>. QED
  BY <1>1, NetworkSteps, SendInOrder, DeliverInOrder, ArriveInOrder, CopyInOrder, CreditInOrder

-----------------------------------------------------------------------------
(***************************************************************************)
(* The request queue: what is in a free element has been received.         *)
(***************************************************************************)
\* At the beginning the elements are empty.
LEMMA InitQInv == Init => QInv
BY Assumptions DEF Assumptions, Init, QInv, QueueTypes, FreeIsReceived, Elements, Content

\* Elements are counted round the queue.
LEMMA FromTailIn == ASSUME QueueTypes, NEW k \in Nat PROVE FromTail(k) \in Elements
<1>1. tail + k \in Nat
  BY DEF QueueTypes, Elements
<1>. QED  BY <1>1, ElementsWrap DEF FromTail

\* The number of elements in use is a number.
LEMMA InUseIn == ASSUME QueueTypes PROVE InUse \in Nat
<1>1. QueueSize \in Nat \ {0} /\ head - tail + QueueSize \in Nat
  BY Assumptions DEF Assumptions, QueueTypes, Elements
<1>. QED  BY <1>1, Division DEF InUse

\* The actions of the server.
LEMMA ServerSteps ==
    ASSUME [Next]_vars
    PROVE  \/ NNTI_gni_create_work_request \/ NNTI_gni_destroy_work_request
           \/ \E what \in {"queue", "other"} : ServerWaits(what)
           \/ Serving \/ UNCHANGED server
<1>1. CASE UNCHANGED vars
  BY <1>1 DEF vars
<1>2. ASSUME NEW c \in Clients, NEW r \in Requests, NNTI_gni_send(c, r) \/ WaitForSend(c, r) PROVE UNCHANGED server
  BY <1>2 DEF NNTI_gni_send, WaitForSend
<1>3. ASSUME NEW c \in Clients, Executing(c) \/ Deliver(c) PROVE UNCHANGED server
  BY <1>3 DEF Executing, Deliver, FetchCredits, TakeCredit, RetryCredit, NoCredit, SendDirectly, SendAgain,
              SendCompletes, SendTimesOut, resend_all
<1>. QED  BY <1>1, <1>2, <1>3 DEF Next

\* An element is given back only after the application has received what is
\* in it, and until then it is not free.
LEMMA StepQInv == ASSUME IInv, QInv, [Next]_vars PROVE QInv'
<1>. USE DEF QInv
<1>1. CASE UNCHANGED server
  BY <1>1 DEF server, queue, QueueTypes, FreeIsReceived, Filling
<1>2. CASE NNTI_gni_create_work_request
  <2>1. /\ spc = "idle" /\ UNCHANGED <<spc, waits_for, tail, element, req_buffer, mbox_backlog, received>>
    BY <1>2 DEF NNTI_gni_create_work_request
  <2>2. attached' \in Elements /\ head' \in Elements
    <3>1. PICK k \in 0 .. InUse : attached' = FromTail(k) /\ head' = IF k = InUse THEN Advanced ELSE head
      BY <1>2 DEF NNTI_gni_create_work_request
    <3>2. k \in Nat
      BY <3>1, InUseIn
    <3>3. head \in Elements /\ head + 1 \in Nat
      BY DEF QueueTypes, Elements
    <3>. QED  BY <3>1, <3>2, <3>3, FromTailIn, ElementsWrap DEF Advanced
  <2>. QED  BY <2>1, <2>2 DEF QueueTypes, FreeIsReceived, Filling
<1>3. CASE NNTI_gni_destroy_work_request
  <2>1. /\ spc = "idle" /\ attached' = NoElement
        /\ UNCHANGED <<spc, waits_for, head, req_buffer, mbox_backlog, received>>
    BY <1>3 DEF NNTI_gni_destroy_work_request
  <2>. DEFINE Back == {FromTail(k) : k \in Passed}
  <2>2. /\ element' = [e \in Elements |-> IF e \in Back THEN "POSTED" ELSE element[e]]
        /\ tail' = FromTail(Cardinality(Passed))
    BY <1>3 DEF NNTI_gni_destroy_work_request
  <2>3. \A e \in Back : element[e] = "WAIT_COMPLETE"
    <3>1. ASSUME NEW k \in Passed PROVE element[FromTail(k)] = "WAIT_COMPLETE"
      <4>1. k \in 0 .. InUse - 1 /\ \A j \in 0 .. k : element[FromTail(j)] = "WAIT_COMPLETE"
        BY DEF Passed
      <4>. QED  BY <4>1, InUseIn
    <3>. QED  BY <3>1
  <2>4. tail' \in Elements
    <3>1. Cardinality(Passed) \in Nat
      <4>1. IsFiniteSet(0 .. InUse - 1)
        BY InUseIn, FS_Interval
      <4>2. Passed \subseteq 0 .. InUse - 1
        BY DEF Passed
      <4>. QED  BY <4>1, <4>2, FS_Subset, FS_CardinalityType
    <3>. QED  BY <2>2, <3>1, FromTailIn
  <2>. HIDE DEF Back
  <2>5. /\ element' \in [Elements -> {"POSTED", "RDMA_COMPLETE", "WAIT_COMPLETE"}]
        /\ \A e \in Elements : element'[e] # "RDMA_COMPLETE" => element[e] # "RDMA_COMPLETE"
    BY <2>2, <2>3 DEF QueueTypes
  <2>6. FreeIsReceived'
    BY <2>1, <2>5 DEF FreeIsReceived, Filling
  <2>. QED  BY <2>1, <2>4, <2>5, <2>6 DEF QueueTypes
<1>4. ASSUME NEW what \in {"queue", "other"}, ServerWaits(what) PROVE QInv'
  <2>1. /\ spc = "idle" /\ spc' \in {"finish", "progress"} /\ (spc' = "finish" => what = "queue")
        /\ what = "queue" => attached # NoElement
        /\ waits_for' = what
        /\ UNCHANGED <<attached, head, tail, element, req_buffer, mbox_backlog, received>>
    BY <1>4 DEF ServerWaits, queue
  <2>. QED  BY <2>1 DEF QueueTypes, FreeIsReceived, Filling
<1>5. CASE (\E c \in Clients : RequestArrives(c)) \/ NothingArrives
  <2>1. /\ spc = "progress" /\ spc' = "backlog"
        /\ UNCHANGED <<waits_for, attached, head, tail, element, req_buffer, received>>
    BY <1>5 DEF RequestArrives, NothingArrives, queue
  <2>. QED  BY <2>1 DEF QueueTypes, FreeIsReceived, Filling
<1>6. CASE execute_mbox_copy
  <2>. DEFINE b == Head(mbox_backlog)
              r == mbox[b.conn][b.mbox_index]
  <2>1. /\ spc = "backlog" /\ spc' = "credit" /\ mbox_backlog # <<>>
        /\ req_buffer' = [req_buffer EXCEPT ![b.queue_index] = r]
        /\ UNCHANGED <<waits_for, attached, head, tail, element, mbox_backlog, received>>
    BY <1>6 DEF execute_mbox_copy, Copyable
  <2>2. r \in Content
    BY <2>1, HeadOfBacklog DEF IInv, Types, NetworkTypes
  <2>3. QueueTypes'
    BY <2>1, <2>2 DEF QueueTypes
  <2>4. \A e \in Elements : ~Filling(e)' => e # b.queue_index /\ ~Filling(e)
    BY <2>1 DEF Filling
  <2>5. \A e \in Elements : e # b.queue_index => req_buffer'[e] = req_buffer[e]
    BY <2>1 DEF QueueTypes
  <2>. QED  BY <2>1, <2>3, <2>4, <2>5 DEF FreeIsReceived
<1>7. CASE send_back_credits
  <2>. DEFINE q == Head(mbox_backlog).queue_index
  <2>1. /\ spc = "credit" /\ spc' = "backlog"
        /\ element' = [element EXCEPT ![q] = "RDMA_COMPLETE"]
        /\ UNCHANGED <<waits_for, attached, head, tail, req_buffer, received>>
    BY <1>7 DEF send_back_credits
  <2>2. QueueTypes'
    BY <2>1 DEF QueueTypes
  <2>3. \A e \in Elements : element'[e] # "RDMA_COMPLETE" => element[e] # "RDMA_COMPLETE" /\ ~Filling(e)
    BY <2>1 DEF QueueTypes, Filling
  <2>. QED  BY <2>1, <2>2, <2>3 DEF FreeIsReceived
<1>8. CASE BacklogIsDone
  <2>1. /\ spc = "backlog" /\ spc' \in {"idle", "finish", "progress"}
        /\ (spc' = "finish" => waits_for # "other") /\ (spc' # "idle" => waits_for' = waits_for)
        /\ UNCHANGED <<attached, head, tail, element, req_buffer, mbox_backlog, received>>
    BY <1>8 DEF BacklogIsDone, queue
  <2>. QED  BY <2>1 DEF QueueTypes, FreeIsReceived, Filling
<1>9. CASE WaitFinishes
  <2>1. /\ spc = "finish" /\ spc' = "idle"
        /\ element' = [element EXCEPT ![attached] = "WAIT_COMPLETE"]
        /\ received' = Append(received, req_buffer[attached])
        /\ UNCHANGED <<attached, head, tail, req_buffer, mbox_backlog>>
    BY <1>9 DEF WaitFinishes, WaitComplete
  <2>2. attached \in Elements /\ received \in Seq(Content) /\ req_buffer[attached] \in Content
    BY <2>1 DEF QueueTypes
  <2>3. QueueTypes'
    BY <2>1, <2>2 DEF QueueTypes
  <2>4. ToSet(received) \subseteq ToSet(received') /\ req_buffer[attached] \in ToSet(received')
    <3>1. /\ \A i \in DOMAIN received : i \in DOMAIN received' /\ received'[i] = received[i]
          /\ Len(received) + 1 \in DOMAIN received' /\ received'[Len(received) + 1] = req_buffer[attached]
      BY <2>1, <2>2
    <3>. QED  BY <3>1 DEF ToSet
  <2>5. \A e \in Elements : e # attached => element'[e] = element[e] /\ (Filling(e) <=> Filling(e)')
    BY <2>1 DEF QueueTypes, Filling
  <2>. QED  BY <2>1, <2>3, <2>4, <2>5 DEF FreeIsReceived
<1>. QED
  BY <1>1, <1>2, <1>3, <1>4, <1>5, <1>6, <1>7, <1>8, <1>9, ServerSteps DEF Serving

-----------------------------------------------------------------------------

(***************************************************************************)
(* The four parts together are inductive: requests are in one place, slots *)
(* are counted in order, and elements are kept, given exact credits.       *)
(***************************************************************************)
THEOREM ChannelledIsInductive == Spec => []Channelled
<1>1. Init => Channelled
  BY InitIInv, InitOnePlace, InitInOrder, InitQInv DEF Channelled
<1>2. Channelled /\ [Next]_vars => Channelled'
  <2>1. IInv /\ [Next]_vars => IInv'
    BY StepTypes, StepSigns, StepCredits DEF IInv, Types
  <2>. QED  BY <2>1, StepOnePlace, StepInOrder, StepQInv DEF Channelled, IInv, Types
<1>. QED  BY <1>1, <1>2, PTL DEF Spec

(***************************************************************************)
(* A request in the queue is overwritten only after the application has    *)
(* received it (execute_mbox_copy writes to an element that is POSTED).    *)
(***************************************************************************)
THEOREM RequestsAreKept == Spec => KeptUntilReceived
<1>. DEFINE Kept(e) == req_buffer[e] # NONE /\ req_buffer'[e] # req_buffer[e] => req_buffer[e] \in ToSet(received)
<1>1. Channelled /\ [Next]_vars => [\A e \in Elements : Kept(e)]_vars
  <2>. SUFFICES ASSUME Channelled, [Next]_vars, NEW e \in Elements, req_buffer[e] # NONE, req_buffer'[e] # req_buffer[e]
                PROVE  req_buffer[e] \in ToSet(received)
    OBVIOUS
  <2>1. CASE execute_mbox_copy
    <3>1. PICK r : req_buffer' = [req_buffer EXCEPT ![Head(mbox_backlog).queue_index] = r]
      BY <2>1 DEF execute_mbox_copy
    <3>2. e = Head(mbox_backlog).queue_index
      BY <3>1 DEF Channelled, QInv, QueueTypes
    <3>3. spc = "backlog" /\ element[e] = "POSTED"
      BY <2>1, <3>2 DEF execute_mbox_copy, Copyable
    <3>. QED  BY <3>3 DEF Channelled, QInv, FreeIsReceived, Filling
  <2>2. CASE UNCHANGED req_buffer
    BY <2>2
  <2>3. execute_mbox_copy \/ UNCHANGED req_buffer
    BY ServerSteps DEF NNTI_gni_create_work_request, NNTI_gni_destroy_work_request, ServerWaits, Serving,
       RequestArrives, NothingArrives, send_back_credits, BacklogIsDone, WaitFinishes, server, queue
  <2>. QED  BY <2>1, <2>2, <2>3
<1>. QED  BY <1>1, ChannelledIsInductive, PTL DEF Spec, KeptUntilReceived

-----------------------------------------------------------------------------
\* A sequence with one more element at its end, as a function.
LEMMA AppendIs ==
    ASSUME NEW S, NEW s \in Seq(S), NEW e \in S
    PROVE  Append(s, e) = [i \in 1 .. Len(s) + 1 |-> IF i = Len(s) + 1 THEN e ELSE s[i]]
<1>. DEFINE t == Append(s, e)
<1>1. /\ t \in Seq(S) /\ Len(t) = Len(s) + 1 /\ Len(s) \in Nat
      /\ \A i \in 1 .. Len(s) + 1 : t[i] = IF i = Len(s) + 1 THEN e ELSE s[i]
  OBVIOUS
<1>. HIDE DEF t
<1>2. t \in [1 .. Len(t) -> S]
  BY <1>1, ElementOfSeq
<1>3. t = [i \in 1 .. Len(t) |-> t[i]]
  BY <1>2
<1>. QED  BY <1>1, <1>3 DEF t

\* What a client posts it puts into the channel: there is room, and the request
\* was in no channel before.
LEMMA PostIsPut ==
    ASSUME Channelled, NEW c \in Clients, pc[c] = "post", PostFma(c), UNCHANGED copied
    PROVE  Channel!Put(c, wr[c])
<1>1. Types /\ wr[c] \in Sent /\ ClientOf[wr[c]] = c /\ wr[c] \notin PostedBy(c)
  BY DEF Channelled, OnePlace, ExecutedOnce, Sending, IInv
<1>p. /\ \A x \in Clients \ {c} : posted'[x] = posted[x]
      /\ DOMAIN posted'[c] = 1 .. Len(posted[c]) + 1 /\ DOMAIN posted[c] = 1 .. Len(posted[c]) /\ Len(posted[c]) \in Nat
      /\ \A i \in DOMAIN posted[c] : posted'[c][i] = posted[c][i]
      /\ posted'[c] = Append(posted[c], [request |-> wr[c], slot |-> NextSlot(c)])
      /\ posted'[c][Len(posted[c]) + 1].request = wr[c]
  BY <1>1, Posting DEF Types
<1>l. Len(posted'[c]) = Len(posted[c]) + 1
  BY <1>1, <1>p, CountsAreNumbers
<1>2. \A d \in Clients : RequestsPosted[d] \in Seq(Content) /\ Len(RequestsPosted[d]) = Len(posted[d])
                         /\ \A i \in 1 .. Len(posted[d]) : RequestsPosted[d][i] = posted[d][i].request
  <2>. SUFFICES ASSUME NEW d \in Clients
                PROVE  /\ RequestsPosted[d] \in Seq(Content) /\ Len(RequestsPosted[d]) = Len(posted[d])
                       /\ \A i \in 1 .. Len(posted[d]) : RequestsPosted[d][i] = posted[d][i].request
    OBVIOUS
  <2>1. posted[d] \in Seq([request : Content, slot : Slots])
    BY <1>1 DEF Types, NetworkTypes
  <2>2. Len(posted[d]) \in Nat /\ \A i \in 1 .. Len(posted[d]) : posted[d][i].request \in Content
    <3>1. \A i \in 1 .. Len(posted[d]) : posted[d][i] \in [request : Content, slot : Slots]
      BY <2>1, ElementIn
    <3>. QED  BY <2>1, <3>1
  <2>3. RequestsPosted[d] = [i \in 1 .. Len(posted[d]) |-> posted[d][i].request]
    BY DEF RequestsPosted
  <2>. QED  BY <2>2, <2>3
<1>3. Len(RequestsPosted[c]) - Len(copied[c]) < MaxCredits
  BY <1>2, Room DEF Channelled, NPosted, NCopied
<1>4. \A d \in Clients : wr[c] \notin ToSet(RequestsPosted[d])
  <2>. SUFFICES ASSUME NEW d \in Clients, NEW i \in DOMAIN RequestsPosted[d], RequestsPosted[d][i] = wr[c] PROVE FALSE
    BY DEF ToSet
  <2>1. i \in DOMAIN posted[d] /\ posted[d][i].request = wr[c]
    <3>1. posted[d] \in Seq([request : Content, slot : Slots])
      BY <1>1 DEF Types, NetworkTypes
    <3>2. DOMAIN posted[d] = 1 .. Len(posted[d]) /\ DOMAIN RequestsPosted[d] = 1 .. Len(RequestsPosted[d])
      BY <3>1, <1>2
    <3>. QED  BY <3>2, <1>2
  <2>2. d = c
    BY <1>1, <2>1 DEF Channelled, OnePlace, PostedOnce
  <2>. QED  BY <1>1, <2>1, <2>2 DEF PostedBy
<1>5. RequestsPosted' = [RequestsPosted EXCEPT ![c] = Append(RequestsPosted[c], wr[c])]
  <2>. DEFINE after == [RequestsPosted EXCEPT ![c] = Append(RequestsPosted[c], wr[c])]
              now(d) == [i \in 1 .. Len(posted'[d]) |-> posted'[d][i].request]
  <2>1. RequestsPosted' = [d \in Clients |-> now(d)] /\ DOMAIN RequestsPosted = Clients
    BY DEF RequestsPosted
  <2>2. \A d \in Clients \ {c} : now(d) = RequestsPosted[d]
    BY <1>p DEF RequestsPosted
  <2>3. now(c) = Append(RequestsPosted[c], wr[c])
    <3>1. wr[c] \in Content
      BY <1>1 DEF Types, ClientTypes
    <3>2. Append(RequestsPosted[c], wr[c])
            = [i \in 1 .. Len(posted[c]) + 1 |-> IF i = Len(posted[c]) + 1 THEN wr[c] ELSE RequestsPosted[c][i]]
      <4>1. RequestsPosted[c] \in Seq(Content) /\ Len(RequestsPosted[c]) = Len(posted[c])
        BY <1>2
      <4>. QED  BY <4>1, <3>1, AppendIs
    <3>3. \A i \in 1 .. Len(posted[c]) + 1 :
            posted'[c][i].request = IF i = Len(posted[c]) + 1 THEN wr[c] ELSE RequestsPosted[c][i]
      BY <1>2, <1>p
    <3>4. now(c) = [i \in 1 .. Len(posted[c]) + 1 |-> posted'[c][i].request]
      BY <1>l
    <3>. DEFINE one(i) == posted'[c][i].request
                two(i) == IF i = Len(posted[c]) + 1 THEN wr[c] ELSE RequestsPosted[c][i]
    <3>. HIDE DEF now, one, two
    <3>5. [i \in 1 .. Len(posted[c]) + 1 |-> one(i)] = [i \in 1 .. Len(posted[c]) + 1 |-> two(i)]
      BY <3>3 DEF one, two
    <3>. QED  BY <3>2, <3>4, <3>5 DEF one, two
  <2>. QED  BY <2>1, <2>2, <2>3
<1>. QED  BY <1>3, <1>4, <1>5 DEF Channel!Put, Channel!ToSet, ToSet

\* Every step is one of the channel, or does not change it.
LEMMA StepImplements ==
    ASSUME Channelled, [Next]_vars
    PROVE  [Channel!Next]_(Channel!vars)
<1>1. ASSUME NEW c \in Clients, SendDirectly(c) \/ SendAgain(c) PROVE Channel!Next
  <2>1. pc[c] = "post" /\ PostFma(c) /\ UNCHANGED copied
    BY <1>1 DEF SendDirectly, SendAgain, server
  <2>2. wr[c] \in Requests
    BY <2>1 DEF Channelled, OnePlace, ExecutedOnce, Sending, Sent
  <2>. QED  BY <2>1, <2>2, PostIsPut DEF Channel!Next
<1>2. CASE execute_mbox_copy
  <2>. DEFINE c == Head(mbox_backlog).conn
  <2>1. /\ c \in Clients /\ Len(copied[c]) < Len(posted[c])
        /\ copied' = [copied EXCEPT ![c] = Append(copied[c], posted[c][Len(copied[c]) + 1].request)]
    BY <1>2, CopiesNext DEF Channelled
  <2>2. UNCHANGED RequestsPosted
    BY <1>2 DEF execute_mbox_copy, network, RequestsPosted
  <2>3. Len(RequestsPosted[c]) = Len(posted[c]) /\ RequestsPosted[c][Len(copied[c]) + 1] = posted[c][Len(copied[c]) + 1].request
    <3>1. Len(posted[c]) \in Nat /\ Len(copied[c]) \in Nat
      BY <2>1, CountsAreNumbers DEF Channelled, IInv
    <3>2. RequestsPosted[c] = [i \in 1 .. Len(posted[c]) |-> posted[c][i].request]
      BY <2>1 DEF RequestsPosted
    <3>. QED  BY <2>1, <3>1, <3>2
  <2>. HIDE DEF c
  <2>. QED  BY <2>1, <2>2, <2>3 DEF Channel!Next, Channel!Take
<1>3. CASE UNCHANGED <<posted, copied>>
  BY <1>3 DEF RequestsPosted, Channel!vars
<1>4. (\E c \in Clients : SendDirectly(c) \/ SendAgain(c)) \/ execute_mbox_copy \/ UNCHANGED <<posted, copied>>
  <2>1. ASSUME NEW c \in Clients, Deliver(c) PROVE UNCHANGED <<posted, copied>>
    BY <2>1 DEF Deliver, server
  <2>2. ASSUME NEW c \in Clients, RequestArrives(c) PROVE UNCHANGED <<posted, copied>>
    BY <2>2 DEF RequestArrives, network
  <2>3. CASE send_back_credits
    BY <2>3 DEF send_back_credits, network
  <2>. QED  BY <2>1, <2>2, <2>3, NetworkSteps
<1>. QED  BY <1>1, <1>2, <1>3, <1>4

(***************************************************************************)
(* A connection is a bounded channel: requests leave it once and in the    *)
(* order in which they were posted, though both sides count for themselves *)
(* (execute_send_wr, process_event, execute_mbox_copy).                    *)
(***************************************************************************)
THEOREM ConnectionsAreChannels == Spec => ImplementsChannel
<1>1. Init => Channel!Init
  <2>. SUFFICES ASSUME Init PROVE Channel!Init
    OBVIOUS
  <2>1. RequestsPosted = [c \in Clients |-> <<>>]
    BY DEF Init, RequestsPosted
  <2>. QED  BY <2>1 DEF Init, Channel!Init
<1>2. Channelled /\ [Next]_vars => [Channel!Next]_(Channel!vars)
  BY StepImplements
<1>. QED  BY <1>1, <1>2, ChannelledIsInductive, PTL DEF Spec, ImplementsChannel, Channel!Spec

===============================================================================
