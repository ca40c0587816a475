--------------------------- MODULE ZkHandle_proof ---------------------------
(***************************************************************************)
(* Theorems about ZkHandle, for any number of servers, requests and        *)
(* credentials, any depth of nested calls, with and without watchers that  *)
(* poll the handle.                                                        *)
(***************************************************************************)
EXTENDS ZkHandle, ZkSequences

-----------------------------------------------------------------------------
(* Type correctness                                                        *)

\* Sending a part of a queue leaves the rest of it.
LEMMA FlushType ==
    ASSUME TypeOK, NEW q \in Seq(Packets), FlushSendQueue(q)
    PROVE  toSend' \in Seq(Packets) /\ toServer' \in Seq(Packets)
<1>1. PICK k \in 0 .. (IF state = "CONNECTED" /\ fd = "Open" THEN Len(q) ELSE 0) :
          /\ toSend' = SubSeq(q, k + 1, Len(q))
          /\ toServer' = toServer \o SubSeq(q, 1, k)
  BY DEF FlushSendQueue
<1>2. Len(q) \in Nat /\ k \in Nat /\ k <= Len(q) /\ \A i \in 1 .. Len(q) : q[i] \in Packets
  BY LenProperties, ElementOfSeq
<1>3. /\ \A i \in k + 1 .. Len(q) : q[i] \in Packets
      /\ \A i \in 1 .. k : q[i] \in Packets
  BY <1>2
<1>4. SubSeq(q, k + 1, Len(q)) \in Seq(Packets) /\ SubSeq(q, 1, k) \in Seq(Packets)
  BY <1>2, <1>3, SubSeqProperties
<1>5. toServer \in Seq(Packets)
  BY DEF TypeOK
<1> QED
  BY <1>1, <1>4, <1>5, ConcatProperties

\* get_auth_completions() and the calls that follow it keep the list's type.
LEMMA CallAuthType ==
    ASSUME TypeOK, NEW rc \in Codes, CallAuthCompletions(rc)
    PROVE  authList' \in Seq({"waiting"} \cup Codes)
<1>1. Len(authList) \in Nat
      /\ \A i \in 1 .. Len(authList) : authList[i] \in {"waiting"} \cup Codes
  BY LenProperties, ElementOfSeq DEF TypeOK
<1>2. \A i \in 1 .. Len(authList) :
          (IF authList[i] = "waiting" THEN rc ELSE authList[i]) \in {"waiting"} \cup Codes
  BY <1>1
<1> QED
  BY <1>1, <1>2, IsASeq DEF CallAuthCompletions

\* One faked reply for each outstanding request.
LEMMA FakedType ==
    ASSUME TypeOK, NEW rc \in Codes
    PROVE  /\ FakedReplies(rc) \in Seq(Completions)
           /\ Len(FakedReplies(rc)) = Len(sentRequests)
           /\ \A i \in 1 .. Len(sentRequests) :
                  FakedReplies(rc)[i].kind = "reply" /\ FakedReplies(rc)[i].id = sentRequests[i]
<1>1. Len(sentRequests) \in Nat /\ \A i \in 1 .. Len(sentRequests) : sentRequests[i] \in Nat
  BY LenProperties, ElementOfSeq DEF TypeOK
<1>2. \A i \in 1 .. Len(sentRequests) :
          [kind |-> "reply", id |-> sentRequests[i], rc |-> rc] \in Completions
  BY <1>1 DEF Completions
<1>3. FakedReplies(rc) \in Seq(Completions)
  BY <1>1, <1>2, IsASeq DEF FakedReplies
<1>4. FakedReplies(rc) \in [1 .. Len(sentRequests) -> Completions]
  BY <1>2 DEF FakedReplies
<1>5. Len(FakedReplies(rc)) = Len(sentRequests)
  BY <1>1, <1>3, <1>4, LenProperties
<1> QED
  BY <1>3, <1>5 DEF FakedReplies

LEMMA FreeCompletionsType ==
    ASSUME TypeOK, NEW rc \in Codes, FreeCompletions(rc)
    PROVE  sentRequests' \in Seq(Nat) /\ completionsToProcess' \in Seq(Completions)
<1>1. FakedReplies(rc) \in Seq(Completions)
  BY FakedType
<1> QED
  BY <1>1, ConcatProperties, EmptySeq DEF FreeCompletions, TypeOK

\* cleanup_bufs() queues faked replies and answers the credentials.
LEMMA CleanupType ==
    ASSUME TypeOK, NEW rc \in Codes, CleanupBufs(rc)
    PROVE  /\ toSend' \in Seq(Packets) /\ toProcess' \in Seq(Responses)
           /\ sentRequests' \in Seq(Nat) /\ completionsToProcess' \in Seq(Completions)
           /\ authList' \in Seq({"waiting"} \cup Codes) /\ inputBuffer' \in InputBuffers
<1>1. FreeCompletions(rc) /\ CallAuthCompletions(rc)
  BY DEF CleanupBufs
<1> QED
  BY <1>1, FreeCompletionsType, CallAuthType, EmptySeq
  DEF CleanupBufs, CleanupInput, InputBuffers

LEMMA DestroyType ==
    ASSUME TypeOK, Destroy
    PROVE  /\ freed' = TRUE
           /\ toSend' \in Seq(Packets) /\ toProcess' \in Seq(Responses)
           /\ sentRequests' \in Seq(Nat) /\ completionsToProcess' \in Seq(Completions)
           /\ authList' \in Seq({"waiting"} \cup Codes) /\ inputBuffer' \in InputBuffers
           /\ fd' \in FdStates /\ state' \in States /\ peer' = "none"
           /\ toServer' \in Seq(Packets) /\ fromServer' \in Seq(Responses)
<1>1. CleanupBufs("ZCLOSING") /\ "ZCLOSING" \in Codes
  BY DEF Destroy, Codes
<1>2. fd' \in FdStates /\ state' \in States
  BY DEF Destroy, TypeOK, FdStates, States
<1> QED
  BY <1>1, <1>2, CleanupType, EmptySeq DEF Destroy

\* handle_error() closes the socket and may enter the session watchers.
LEMMA HandleErrorType ==
    ASSUME TypeOK, NEW base \in Seq(Frames), NEW s \in States, NEW rc \in Codes,
           HandleError(base, s, rc)
    PROVE  /\ state' \in States /\ fd' \in FdStates /\ stack' \in Seq(Frames)
           /\ completionsToProcess' \in Seq(Completions)
           /\ peer' \in {"none", "up", "hung", "down"}
           /\ toServer' \in Seq(Packets) /\ fromServer' \in Seq(Responses)
<1>1. [fn |-> "handleError", rc |-> rc] \in Frames /\ Frame("completions") \in Frames
      /\ Event \in Completions
  BY DEF Frames, Frame, Event, Completions, Codes
<1> DEFINE rest == Append(base, [fn |-> "handleError", rc |-> rc])
<1>2. rest \in Seq(Frames) /\ Push(rest, "completions") \in Seq(Frames)
  BY <1>1, AppendProperties DEF Push
<1>3. completionsToProcess \in Seq(Completions)
      /\ Append(completionsToProcess, Event) \in Seq(Completions)
  BY <1>1, AppendProperties DEF TypeOK
<1>4. \/ stack' = rest /\ completionsToProcess' = completionsToProcess
      \/ /\ stack' = Push(rest, "completions")
         /\ completionsToProcess' = Append(completionsToProcess, Event)
  BY DEF HandleError
<1>5. stack' \in Seq(Frames) /\ completionsToProcess' \in Seq(Completions)
  BY <1>2, <1>3, <1>4
<1>6. toServer' \in Seq(Packets) /\ fromServer' \in Seq(Responses)
  BY EmptySeq DEF HandleError, CloseFd
<1> QED
  BY <1>5, <1>6 DEF HandleError, CloseFd, FdStates

LEMMA FailInApiType ==
    ASSUME TypeOK, NEW s \in States, NEW rc \in Codes, FailInApi(s, rc)
    PROVE  TypeOK'
<1>1. Push(stack, "epilog") \in Seq(Frames)
  BY AppendProperties DEF TypeOK, Push, Frames, Frame, Codes
<1>2. HandleError(Push(stack, "epilog"), s, rc)
  BY DEF FailInApi
<1>3. /\ state' \in States /\ fd' \in FdStates /\ stack' \in Seq(Frames)
      /\ completionsToProcess' \in Seq(Completions)
      /\ peer' \in {"none", "up", "hung", "down"}
      /\ toServer' \in Seq(Packets) /\ fromServer' \in Seq(Responses)
  BY <1>1, <1>2, HandleErrorType
<1> QED
  BY <1>3 DEF FailInApi, TypeOK, session, history

\* Pushing and popping frames.
LEMMA StackType ==
    ASSUME TypeOK
    PROVE  /\ stack # <<>> => Below \in Seq(Frames) /\ Top \in Frames
           /\ \A f \in {"epilog", "handleError", "checkEvents", "process", "completions",
                        "watcher"} :
                  /\ Frame(f) \in Frames
                  /\ \A s \in Seq(Frames) : Push(s, f) \in Seq(Frames)
<1>1. \A f \in {"epilog", "handleError", "checkEvents", "process", "completions", "watcher"} :
          Frame(f) \in Frames
  BY DEF Frame, Frames, Codes
<1>2. stack \in Seq(Frames)
  BY DEF TypeOK
<1> QED
  BY <1>1, <1>2, PopFacts, AppendProperties DEF Below, Top, Push

\* Entering the loop of zookeeper_process().
LEMMA LoopType ==
    ASSUME TypeOK, ToProcessLoop
    PROVE  stack' \in Seq(Frames) /\ refCounter' \in Int
<1>1. Push(stack, "epilog") \in Seq(Frames)
  BY StackType DEF TypeOK
<1> QED
  BY <1>1, StackType DEF ToProcessLoop, TypeOK

LEMMA InterestType ==
    ASSUME TypeOK, Interest
    PROVE  TypeOK'
<1> USE DEF queues, session, lifetime, history, network
<1>1. CASE InterestWrap
  BY <1>1 DEF InterestWrap, TypeOK
<1>2. CASE InterestConnect
  BY <1>2, EmptySeq DEF InterestConnect, TypeOK, States, FdStates
<1>3. CASE InterestConnectNow
  <2>1. Packet("connect", clientId) \in Packets
    BY DEF Packet, Packets, TypeOK
  <2>2. <<Packet("connect", clientId)>> \in Seq(Packets)
    BY <2>1
  <2> QED
    BY <1>3, <2>2, EmptySeq DEF InterestConnectNow, TypeOK, States, FdStates, InputBuffers
<1>4. CASE InterestConnectFails
  BY <1>4, FailInApiType DEF InterestConnectFails, Codes, TypeOK
<1>5. CASE InterestTimeout
  BY <1>5, FailInApiType DEF InterestTimeout, Codes, TypeOK
<1>6. CASE InterestPing
  <2>1. Append(toSend, Packet("ping", 0)) \in Seq(Packets)
    BY AppendProperties DEF Packet, Packets, TypeOK
  <2>2. toSend' \in Seq(Packets) /\ toServer' \in Seq(Packets)
    BY <1>6, <2>1, FlushType DEF InterestPing
  <2> QED
    BY <1>6, <2>2 DEF InterestPing, TypeOK
<1> QED
  BY <1>1, <1>2, <1>3, <1>4, <1>5, <1>6 DEF Interest

LEMMA CheckEventsType ==
    ASSUME TypeOK, CheckEvents
    PROVE  TypeOK'
<1> USE DEF queues, session, lifetime, history, network
<1>0. Readable => /\ Head(fromServer) \in Responses /\ Head(fromServer).id \in Nat
                  /\ Tail(fromServer) \in Seq(Responses)
  <2>1. fromServer # <<>> => Head(fromServer) \in Responses
                             /\ Tail(fromServer) \in Seq(Responses)
    BY HeadTailProperties DEF TypeOK
  <2> QED
    BY <2>1 DEF Readable, Responses
<1>1. CASE ProcessConnected
  <2>1. Append(toServer, Packet("connect", clientId)) \in Seq(Packets)
    BY AppendProperties DEF Packet, Packets, TypeOK
  <2>2. stack' \in Seq(Frames) /\ refCounter' \in Int
    BY <1>1, LoopType DEF ProcessConnected
  <2> QED
    BY <1>1, <2>1, <2>2 DEF ProcessConnected, TypeOK, States, InputBuffers
<1>2. CASE ProcessFails
  BY <1>2, FailInApiType DEF ProcessFails, Codes, TypeOK
<1>3. CASE ProcessWrite
  <2>1. toSend' \in Seq(Packets) /\ toServer' \in Seq(Packets)
    BY <1>3, FlushType DEF ProcessWrite, TypeOK
  <2>2. stack' \in Seq(Frames) /\ refCounter' \in Int
    BY <1>3, LoopType DEF ProcessWrite
  <2> QED
    BY <1>3, <2>1, <2>2 DEF ProcessWrite, TypeOK
<1>4. CASE ProcessNothing
  <2>1. toSend' \in Seq(Packets) /\ toServer' \in Seq(Packets)
    BY <1>4, FlushType DEF ProcessNothing, TypeOK
  <2> QED
    BY <1>4, <2>1 DEF ProcessNothing, TypeOK, InputBuffers
<1>5. CASE ProcessRead
  <2>1. Append(toProcess, Head(fromServer)) \in Seq(Responses)
    BY <1>0, <1>5, AppendProperties DEF ProcessRead, TypeOK
  <2>2. stack' \in Seq(Frames) /\ refCounter' \in Int
    BY <1>5, LoopType DEF ProcessRead
  <2>3. toSend' \in Seq(Packets) /\ toServer' \in Seq(Packets)
    BY <1>5, FlushType DEF ProcessRead, TypeOK
  <2> QED
    BY <1>0, <1>5, <2>1, <2>2, <2>3 DEF ProcessRead, TypeOK, InputBuffers
<1>6. CASE ProcessEstablished
  <2>1. Len(authList) \in Nat
    BY LenProperties DEF TypeOK
  <2>2. \A i \in 1 .. Len(authList) : Packet("auth", Len(authList) + 1 - i) \in Packets
    BY <2>1 DEF Packet, Packets
  <2>3. AllCredentials \in Seq(Packets)
    BY <2>1, <2>2, IsASeq DEF AllCredentials
  <2>4. <<>> \in Seq(Packets) /\ <<Packet("setWatches", 0)>> \in Seq(Packets)
    BY DEF Packet, Packets
  <2>5. toSend' \in Seq(Packets)
    <3>1. PICK w \in {<<>>, <<Packet("setWatches", 0)>>} :
              toSend' = AllCredentials \o w \o toSend
      BY <1>6 DEF ProcessEstablished
    <3>2. AllCredentials \o w \in Seq(Packets)
      BY <2>3, <2>4, ConcatProperties
    <3> QED
      BY <3>1, <3>2, ConcatProperties DEF TypeOK
  <2>6. Append(completionsToProcess, Event) \in Seq(Completions)
    BY AppendProperties DEF TypeOK, Event, Completions, Codes
  <2>7. stack' \in Seq(Frames)
    <3>1. Push(stack, "epilog") \in Seq(Frames)
      BY StackType DEF TypeOK
    <3>2. Push(Push(stack, "epilog"), "process") \in Seq(Frames)
      BY <3>1, StackType
    <3>3. Push(Push(Push(stack, "epilog"), "process"), "checkEvents") \in Seq(Frames)
      BY <3>2, StackType
    <3> QED
      BY <1>6, <3>3, StackType DEF ProcessEstablished
  <2> QED
    BY <1>0, <1>6, <2>5, <2>6, <2>7 DEF ProcessEstablished, TypeOK, States, InputBuffers
<1>7. CASE ProcessExpired
  BY <1>7, FailInApiType DEF ProcessExpired, Codes, States
<1> QED
  BY <1>1, <1>2, <1>3, <1>4, <1>5, <1>6, <1>7 DEF CheckEvents

LEMMA ContinueType ==
    ASSUME TypeOK, Continue
    PROVE  TypeOK'
<1> USE DEF queues, session, lifetime, history, network
<1>a. stack # <<>> => Below \in Seq(Frames) /\ Top \in Frames /\ Top.rc \in Codes
  BY StackType DEF Frames
<1>b. toProcess # <<>> => Head(toProcess) \in Responses /\ Tail(toProcess) \in Seq(Responses)
  BY HeadTailProperties DEF TypeOK
<1>c. completionsToProcess # <<>> =>
          /\ Head(completionsToProcess) \in Completions
          /\ Tail(completionsToProcess) \in Seq(Completions)
  BY HeadTailProperties DEF TypeOK
<1>d. sentRequests # <<>> => Head(sentRequests) \in Nat /\ Tail(sentRequests) \in Seq(Nat)
  BY HeadTailProperties DEF TypeOK
<1>e. Append(completionsToProcess, Event) \in Seq(Completions)
  BY AppendProperties DEF TypeOK, Event, Completions, Codes
<1>1. CASE CheckEventsTail
  <2>1. fromServer' \in Seq(Responses) /\ peer' \in {"none", "up", "hung", "down"}
    BY <1>1, EmptySeq DEF CheckEventsTail, CutShort, TypeOK
  <2> QED
    BY <1>1, <1>a, <2>1 DEF CheckEventsTail, TopIs, TypeOK, InputBuffers
<1>2. CASE ProcessDone
  <2>1. stack' \in Seq(Frames)
    BY <1>2, <1>a, StackType DEF ProcessDone, TopIs
  <2> QED
    BY <1>2, <2>1 DEF ProcessDone, TypeOK
<1>3. CASE ProcessIgnored
  BY <1>3, <1>b DEF ProcessIgnored, Received, TypeOK
<1>4. CASE ProcessEvent
  BY <1>4, <1>b, <1>e DEF ProcessEvent, Received, TypeOK
<1>5. CASE ProcessAuth
  <2>1. AuthCode(Head(toProcess).ok) \in Codes
    BY DEF AuthCode, Codes
  <2>2. authList' \in Seq({"waiting"} \cup Codes)
    <3>1. Len(authList) \in Nat
          /\ \A i \in 1 .. Len(authList) : authList[i] \in {"waiting"} \cup Codes
      BY LenProperties, ElementOfSeq DEF TypeOK
    <3> QED
      BY <1>5, <2>1, <3>1, IsASeq DEF ProcessAuth, CallAuthCompletions
  <2>3. CASE Head(toProcess).ok
    BY <1>5, <1>b, <2>2, <2>3 DEF ProcessAuth, Received, TypeOK
  <2>4. CASE ~ Head(toProcess).ok
    <3>1. HandleError(Below, "AUTH_FAILED", "ZAUTHFAILED") /\ stack # <<>> /\ toProcess # <<>>
      BY <1>5, <2>4 DEF ProcessAuth, Received, TopIs
    <3>2. /\ state' \in States /\ fd' \in FdStates /\ stack' \in Seq(Frames)
          /\ completionsToProcess' \in Seq(Completions)
          /\ peer' \in {"none", "up", "hung", "down"}
          /\ toServer' \in Seq(Packets) /\ fromServer' \in Seq(Responses)
      BY <1>a, <3>1, HandleErrorType DEF States, Codes
    <3> QED
      BY <1>5, <1>b, <2>2, <3>1, <3>2 DEF ProcessAuth, TypeOK
  <2> QED
    BY <2>3, <2>4
<1>6. CASE ProcessReply
  <2>1. [kind |-> "reply", id |-> Head(sentRequests), rc |-> "ZOK"] \in Completions
    BY <1>6, <1>d DEF ProcessReply, Completions, Codes
  <2>2. completionsToProcess' \in Seq(Completions)
    BY <1>6, <2>1, AppendProperties DEF ProcessReply, TypeOK
  <2> QED
    BY <1>6, <1>b, <1>d, <2>2 DEF ProcessReply, ReplyReceived, Received, TypeOK
<1>7. CASE ProcessOutOfOrder
  <2>1. /\ HandleError(Below, state, "ZRUNTIMEINCONSISTENCY")
        /\ stack # <<>> /\ toProcess # <<>>
    BY <1>7 DEF ProcessOutOfOrder, ReplyReceived, Received, TopIs
  <2>2. state \in States /\ "ZRUNTIMEINCONSISTENCY" \in Codes
    BY DEF TypeOK, Codes
  <2>3. /\ state' \in States /\ fd' \in FdStates /\ stack' \in Seq(Frames)
        /\ completionsToProcess' \in Seq(Completions)
        /\ peer' \in {"none", "up", "hung", "down"}
        /\ toServer' \in Seq(Packets) /\ fromServer' \in Seq(Responses)
    BY <1>a, <2>1, <2>2, HandleErrorType
  <2> QED
    BY <1>7, <1>b, <2>1, <2>3 DEF ProcessOutOfOrder, TypeOK
<1>8. CASE ProcessAfterClose
  BY <1>8, <1>a, <1>b DEF ProcessAfterClose, ReplyReceived, Received, TopIs, TypeOK
<1>9. CASE RunCompletion
  <2>1. [xid |-> Head(completionsToProcess).id, rc |-> Head(completionsToProcess).rc]
          \in Callbacks
    BY <1>9, <1>c DEF RunCompletion, Callbacks, Completions
  <2>2. callbacks' \in Seq(Callbacks)
    BY <1>9, <2>1, AppendProperties DEF RunCompletion, TypeOK
  <2> QED
    BY <1>9, <1>c, <2>2 DEF RunCompletion, TypeOK
<1>10. CASE RunWatcher
  <2>1. stack' \in Seq(Frames)
    BY <1>10, StackType DEF RunWatcher, TypeOK
  <2> QED
    BY <1>10, <1>c, <2>1 DEF RunWatcher, TypeOK
<1>11. CASE CompletionsDone
  BY <1>11, <1>a DEF CompletionsDone, TopIs, TypeOK
<1>12. CASE WatcherReturns
  BY <1>12, <1>a DEF WatcherReturns, TopIs, TypeOK
<1>13. CASE HandleErrorTail
  <2>1. CleanupBufs(Top.rc) /\ stack # <<>>
    BY <1>13 DEF HandleErrorTail, TopIs
  <2>2. /\ toSend' \in Seq(Packets) /\ toProcess' \in Seq(Responses)
        /\ sentRequests' \in Seq(Nat) /\ completionsToProcess' \in Seq(Completions)
        /\ authList' \in Seq({"waiting"} \cup Codes) /\ inputBuffer' \in InputBuffers
    BY <1>a, <2>1, CleanupType
  <2>3. stack' \in Seq(Frames)
    BY <1>13, <1>a, <2>1, StackType DEF HandleErrorTail
  <2>4. toServer' \in Seq(Packets) /\ fromServer' \in Seq(Responses)
    BY <1>13, EmptySeq DEF HandleErrorTail
  <2> QED
    BY <1>13, <2>2, <2>3, <2>4 DEF HandleErrorTail, TypeOK, StateAfterError, States, FdStates
<1>14. CASE Epilog
  <2>1. stack' \in Seq(Frames) /\ refCounter' \in Int
    BY <1>14, <1>a DEF Epilog, TopIs, TypeOK
  <2>2. CASE CloseDue
    BY <1>14, <2>1, <2>2, DestroyType DEF Epilog, TypeOK
  <2>3. CASE ~ CloseDue
    BY <1>14, <2>1, <2>3 DEF Epilog, TypeOK
  <2> QED
    BY <2>2, <2>3
<1> QED
  BY <1>1, <1>2, <1>3, <1>4, <1>5, <1>6, <1>7, <1>8, <1>9, <1>10, <1>11, <1>12, <1>13, <1>14
  DEF Continue

LEMMA ApiType ==
    ASSUME TypeOK, Api
    PROVE  TypeOK'
<1> USE DEF queues, session, lifetime, history, network
<1>1. CASE Submit
  <2>1. Append(sentRequests, nextXid) \in Seq(Nat)
    BY AppendProperties DEF TypeOK
  <2>2. Append(toSend, Packet("request", nextXid)) \in Seq(Packets)
    BY AppendProperties DEF TypeOK, Packet, Packets
  <2>3. toSend' \in Seq(Packets) /\ toServer' \in Seq(Packets)
    BY <1>1, <2>2, FlushType DEF Submit
  <2> QED
    BY <1>1, <2>1, <2>3 DEF Submit, TypeOK
<1>2. CASE SubmitRefused
  <2>1. toSend' \in Seq(Packets) /\ toServer' \in Seq(Packets)
    BY <1>2, FlushType DEF SubmitRefused, TypeOK
  <2> QED
    BY <1>2, <2>1 DEF SubmitRefused, TypeOK
<1>3. CASE AddAuth
  <2>1. authList' \in Seq({"waiting"} \cup Codes)
    BY <1>3, AppendProperties DEF AddAuth, TypeOK
  <2>2. Len(authList) + 1 \in Nat
    BY LenProperties DEF TypeOK
  <2>3. <<Packet("auth", Len(authList) + 1)>> \in Seq(Packets)
    BY <2>2 DEF Packet, Packets
  <2>4. toSend' \in Seq(Packets)
    BY <1>3, <2>3, ConcatProperties DEF AddAuth, TypeOK
  <2> QED
    BY <1>3, <2>1, <2>4 DEF AddAuth, TypeOK
<1>4. CASE CloseInCallback
  <2>1. authList' \in Seq({"waiting"} \cup Codes)
    BY <1>4, CallAuthType DEF CloseInCallback, Codes
  <2>2. sentRequests' \in Seq(Nat) /\ completionsToProcess' \in Seq(Completions)
    BY <1>4, FreeCompletionsType DEF CloseInCallback, Codes
  <2> QED
    BY <1>4, <2>1, <2>2 DEF CloseInCallback, TypeOK
<1>5. CASE CloseAtTop
  <2>1. Destroy /\ refCounter' = 1 /\ closeRequested' = TRUE
    BY <1>5 DEF CloseAtTop
  <2>2. closeRequested' \in BOOLEAN /\ freed' \in BOOLEAN
    BY <2>1, Zenon DEF Destroy
  <2>3. /\ toSend' \in Seq(Packets) /\ toProcess' \in Seq(Responses)
        /\ sentRequests' \in Seq(Nat) /\ completionsToProcess' \in Seq(Completions)
        /\ authList' \in Seq({"waiting"} \cup Codes) /\ inputBuffer' \in InputBuffers
        /\ fd' \in FdStates /\ state' \in States /\ peer' = "none"
        /\ toServer' \in Seq(Packets) /\ fromServer' \in Seq(Responses)
    BY <2>1, DestroyType
  <2>4. UNCHANGED <<stack, connectIndex, clientId, nextXid, history>>
    BY <1>5 DEF CloseAtTop
  <2> QED
    BY <2>1, <2>2, <2>3, <2>4 DEF TypeOK
<1> QED
  BY <1>1, <1>2, <1>3, <1>4, <1>5 DEF Api

LEMMA EnvironmentType ==
    ASSUME TypeOK, Environment
    PROVE  TypeOK'
<1> USE DEF queues, session, lifetime, history, network
<1>1. CASE ServerStep
  <2> DEFINE p == Head(toServer)
  <2>1. p \in Packets /\ p.id \in Nat /\ Tail(toServer) \in Seq(Packets)
    <3>1. p \in Packets /\ Tail(toServer) \in Seq(Packets)
      BY <1>1, HeadTailProperties DEF ServerStep, TypeOK
    <3> QED
      BY <3>1 DEF Packets
  <2>2. \A k \in {"primer", "reply", "auth", "setWatches", "ping"}, n \in Nat, b \in BOOLEAN :
            Append(fromServer, Response(k, n, b)) \in Seq(Responses)
    BY AppendProperties DEF TypeOK, Response, Responses
  <2>3. fromServer' \in Seq(Responses) /\ granted' \subseteq Nat
    <3>1. CASE p.kind = "connect"
      BY <1>1, <2>1, <2>2, <3>1 DEF ServerStep, TypeOK
    <3>2. CASE p.kind = "request"
      BY <1>1, <2>1, <2>2, <3>2 DEF ServerStep, TypeOK
    <3>3. CASE p.kind = "auth"
      BY <1>1, <2>1, <2>2, <3>3 DEF ServerStep, TypeOK
    <3>4. CASE p.kind \in {"setWatches", "ping"}
      BY <1>1, <2>1, <2>2, <3>4 DEF ServerStep, TypeOK
    <3> QED
      BY <2>1, <3>1, <3>2, <3>3, <3>4 DEF Packets
  <2> QED
    BY <1>1, <2>1, <2>3 DEF ServerStep, TypeOK
<1>2. CASE ServerEvent
  <2>1. fromServer' \in Seq(Responses)
    BY <1>2, AppendProperties DEF ServerEvent, TypeOK, Response, Responses
  <2> QED
    BY <1>2, <2>1 DEF ServerEvent, TypeOK
<1>3. CASE PeerFails
  BY <1>3 DEF PeerFails, TypeOK
<1> QED
  BY <1>1, <1>2, <1>3 DEF Environment

LEMMA TypeInit == Init => TypeOK
<1> SUFFICES ASSUME Init PROVE TypeOK
  OBVIOUS
<1>1. \A S : <<>> \in Seq(S)
  BY EmptySeq
<1>2. /\ toSend \in Seq(Packets) /\ toProcess \in Seq(Responses)
      /\ sentRequests \in Seq(Nat) /\ completionsToProcess \in Seq(Completions)
      /\ authList \in Seq({"waiting"} \cup Codes) /\ stack \in Seq(Frames)
      /\ callbacks \in Seq(Callbacks)
      /\ toServer \in Seq(Packets) /\ fromServer \in Seq(Responses)
  BY <1>1 DEF Init
<1>3. closeRequested \in BOOLEAN /\ freed \in BOOLEAN
  BY Zenon DEF Init
<1> QED
  BY <1>2, <1>3 DEF Init, TypeOK, States, FdStates, InputBuffers

LEMMA TypeStep == TypeOK /\ [Next]_vars => TypeOK'
<1>1. ASSUME TypeOK, UNCHANGED vars
      PROVE  TypeOK'
  BY <1>1 DEF vars, queues, session, lifetime, history, network, TypeOK
<1> QED
  BY <1>1, InterestType, CheckEventsType, ContinueType, ApiType, EnvironmentType DEF Next

\* The state of the handle has its type.
THEOREM TypeCorrect == Spec => []TypeOK
<1> QED
  BY TypeInit, TypeStep, PTL DEF Spec

-----------------------------------------------------------------------------
(* The request ledger                                                      *)

\* What the types say about the lengths and elements of the queues.
LEMMA QueueFacts ==
    ASSUME TypeOK
    PROVE  /\ Len(callbacks) \in Nat /\ DOMAIN callbacks = 1 .. Len(callbacks)
           /\ Len(sentRequests) \in Nat /\ DOMAIN sentRequests = 1 .. Len(sentRequests)
           /\ Len(completionsToProcess) \in Nat
           /\ DOMAIN completionsToProcess = 1 .. Len(completionsToProcess)
           /\ \A i \in DOMAIN completionsToProcess : completionsToProcess[i] \in Completions
           /\ \A i \in DOMAIN completionsToProcess : completionsToProcess[i].id \in Nat
           /\ nextXid \in Nat /\ FirstSent \in Int
<1>1. /\ Len(callbacks) \in Nat /\ DOMAIN callbacks = 1 .. Len(callbacks)
      /\ Len(sentRequests) \in Nat /\ DOMAIN sentRequests = 1 .. Len(sentRequests)
      /\ Len(completionsToProcess) \in Nat
      /\ DOMAIN completionsToProcess = 1 .. Len(completionsToProcess)
  BY LenProperties DEF TypeOK
<1>2. \A i \in DOMAIN completionsToProcess : completionsToProcess[i] \in Completions
  BY <1>1, ElementOfSeq DEF TypeOK
<1> QED
  BY <1>1, <1>2 DEF Completions, TypeOK, FirstSent

\* Nothing it speaks of changes.
LEMMA LedgerKept ==
    ASSUME RequestLedger,
           UNCHANGED <<callbacks, completionsToProcess, sentRequests, nextXid>>
    PROVE  RequestLedger'
BY DEF RequestLedger, LedgerCalled, LedgerReady, LedgerSent, LedgerCount, FirstSent, ReplyAt

\* A session or watch event is queued.
LEMMA LedgerEvent ==
    ASSUME TypeOK, RequestLedger,
           completionsToProcess' = Append(completionsToProcess, Event),
           UNCHANGED <<callbacks, sentRequests, nextXid>>
    PROVE  RequestLedger'
<1> DEFINE c == completionsToProcess
           d == completionsToProcess'
<1>1. c \in Seq(Completions) /\ Event \in Completions /\ Event.kind = "event"
  BY DEF TypeOK, Event, Completions, Codes
<1>2. /\ d \in Seq(Completions) /\ Len(d) = Len(c) + 1
      /\ \A i \in 1 .. Len(c) : d[i] = c[i]
      /\ d[Len(c) + 1] = Event
  BY <1>1, AppendProperties
<1>3. DOMAIN d = 1 .. Len(c) + 1 /\ DOMAIN c = 1 .. Len(c) /\ Len(c) \in Nat
  BY <1>2, QueueFacts, LenProperties
<1> HIDE DEF c, d
<1>4. \A i \in DOMAIN d : d[i].kind = "reply" => i \in DOMAIN c /\ d[i] = c[i]
  <2> SUFFICES ASSUME NEW i \in DOMAIN d, d[i].kind = "reply", i \notin 1 .. Len(c)
               PROVE  FALSE
    BY <1>2, <1>3
  <2> QED
    BY <1>1, <1>2, <1>3
<1>5. \A i \in DOMAIN c : i \in DOMAIN d /\ d[i] = c[i]
  BY <1>2, <1>3
<1>6. FirstSent' = FirstSent
  BY DEF FirstSent
<1>7. LedgerReady'
  BY <1>4, <1>5, <1>6 DEF RequestLedger, LedgerReady, ReplyAt, c, d
<1> QED
  BY <1>6, <1>7 DEF RequestLedger, LedgerCalled, LedgerSent, LedgerCount

\* All outstanding requests are failed.
LEMMA LedgerFree ==
    ASSUME TypeOK, RequestLedger, NEW rc \in Codes, FreeCompletions(rc),
           UNCHANGED <<callbacks, nextXid>>
    PROVE  RequestLedger'
<1> DEFINE c == completionsToProcess
           d == completionsToProcess'
           q == sentRequests
           r == FakedReplies(rc)
<1>0. c \in Seq(Completions) /\ r \in Seq(Completions)
  BY FakedType DEF TypeOK
<1>1. /\ Len(r) = Len(q)
      /\ \A i \in 1 .. Len(q) : r[i].kind = "reply" /\ r[i].id = q[i]
  BY FakedType
<1>2. /\ Len(c) \in Nat /\ Len(q) \in Nat /\ DOMAIN c = 1 .. Len(c)
      /\ DOMAIN q = 1 .. Len(q) /\ Len(callbacks) \in Nat /\ nextXid \in Nat
      /\ \A i \in 1 .. Len(c) : c[i].id \in Nat
  BY QueueFacts
<1>3. /\ d \in Seq(Completions) /\ Len(d) = Len(c) + Len(r)
      /\ \A i \in 1 .. Len(c) : d[i] = c[i]
      /\ \A i \in 1 .. Len(r) : d[Len(c) + i] = r[i]
  <2>1. d = c \o r
    BY DEF FreeCompletions
  <2> HIDE DEF c, d, q, r
  <2> QED
    BY <1>0, <2>1, JoinFacts
<1>4. DOMAIN d = 1 .. Len(c) + Len(q)
  BY <1>1, <1>3, LenProperties
<1>5. FirstSent' = nextXid /\ FirstSent = nextXid - Len(q) /\ sentRequests' = <<>>
  BY EmptySeq, <1>2 DEF FreeCompletions, FirstSent
<1>6. \A i \in 1 .. Len(q) : q[i] = nextXid - Len(q) + i - 1
  BY <1>2, <1>5 DEF RequestLedger, LedgerSent
<1>7. /\ \A i \in 1 .. Len(c) : c[i].kind = "reply"
             => c[i].id \in Len(callbacks) + 1 .. nextXid - Len(q) - 1
      /\ \A x \in Len(callbacks) + 1 .. nextXid - Len(q) - 1 :
             \E i \in 1 .. Len(c) : c[i].kind = "reply" /\ c[i].id = x
      /\ \A i, j \in 1 .. Len(c) : c[i].kind = "reply" /\ c[j].kind = "reply" /\ i < j
             => c[i].id < c[j].id
      /\ Len(callbacks) < nextXid - Len(q)
  BY <1>2, <1>5 DEF RequestLedger, LedgerReady, LedgerCount, ReplyAt
<1> HIDE DEF c, d, q, r
<1>8. \A i \in 1 .. Len(c) : i \in DOMAIN d /\ d[i] = c[i]
  BY <1>1, <1>2, <1>3, <1>4
<1>9. \A k \in 1 .. Len(q) : /\ Len(c) + k \in DOMAIN d
                             /\ d[Len(c) + k].kind = "reply"
                             /\ d[Len(c) + k].id = nextXid - Len(q) + k - 1
  <2> TAKE k \in 1 .. Len(q)
  <2>1. Len(c) + k \in 1 .. Len(c) + Len(q)
    BY <1>2
  <2>2. d[Len(c) + k] = r[k]
    BY <1>1, <1>3
  <2>3. r[k].kind = "reply" /\ r[k].id = q[k]
    BY <1>1
  <2>4. q[k] = nextXid - Len(q) + k - 1
    BY <1>6
  <2> QED
    BY <1>4, <2>1, <2>2, <2>3, <2>4
<1>10. \A i \in DOMAIN d : i \in 1 .. Len(c) \/ \E k \in 1 .. Len(q) : i = Len(c) + k
  <2> TAKE i \in DOMAIN d
  <2>1. CASE i <= Len(c)
    BY <1>2, <1>4, <2>1
  <2>2. CASE ~ i <= Len(c)
    <3>1. i - Len(c) \in 1 .. Len(q) /\ i = Len(c) + (i - Len(c))
      BY <1>2, <1>4, <2>2
    <3> QED
      BY <3>1
  <2> QED
    BY <2>1, <2>2
<1>11. \A i \in DOMAIN d : d[i].kind = "reply" => d[i].id \in Len(callbacks) + 1 .. nextXid - 1
  <2> SUFFICES ASSUME NEW i \in DOMAIN d, d[i].kind = "reply"
               PROVE  d[i].id \in Len(callbacks) + 1 .. nextXid - 1
    OBVIOUS
  <2>1. CASE i \in 1 .. Len(c)
    BY <1>2, <1>7, <1>8, <2>1
  <2>2. CASE \E k \in 1 .. Len(q) : i = Len(c) + k
    <3>1. PICK k \in 1 .. Len(q) : i = Len(c) + k
      BY <2>2
    <3>2. d[i].id = nextXid - Len(q) + k - 1
      BY <1>9, <3>1
    <3> QED
      BY <1>2, <1>7, <3>2
  <2> QED
    BY <1>10, <2>1, <2>2
<1>12. \A x \in Len(callbacks) + 1 .. nextXid - 1 :
           \E i \in DOMAIN d : d[i].kind = "reply" /\ d[i].id = x
  <2> TAKE x \in Len(callbacks) + 1 .. nextXid - 1
  <2>1. CASE x < nextXid - Len(q)
    <3>1. x \in Len(callbacks) + 1 .. nextXid - Len(q) - 1
      BY <1>2, <2>1
    <3> QED
      BY <1>7, <1>8, <3>1
  <2>2. CASE ~ x < nextXid - Len(q)
    <3> DEFINE k == x - (nextXid - Len(q)) + 1
    <3>1. k \in 1 .. Len(q) /\ nextXid - Len(q) + k - 1 = x
      BY <1>2, <2>2
    <3> HIDE DEF k
    <3> QED
      BY <1>9, <3>1
  <2> QED
    BY <2>1, <2>2
<1>13. \A i, j \in DOMAIN d : d[i].kind = "reply" /\ d[j].kind = "reply" /\ i < j
           => d[i].id < d[j].id
  <2> SUFFICES ASSUME NEW i \in DOMAIN d, NEW j \in DOMAIN d,
                      d[i].kind = "reply", d[j].kind = "reply", i < j
               PROVE  d[i].id < d[j].id
    OBVIOUS
  <2>1. CASE i \in 1 .. Len(c) /\ j \in 1 .. Len(c)
    BY <1>7, <1>8, <2>1
  <2>2. CASE i \in 1 .. Len(c) /\ \E k \in 1 .. Len(q) : j = Len(c) + k
    <3>1. PICK k \in 1 .. Len(q) : j = Len(c) + k
      BY <2>2
    <3>2. d[j].id = nextXid - Len(q) + k - 1
      BY <1>9, <3>1
    <3>3. d[i].id \in Len(callbacks) + 1 .. nextXid - Len(q) - 1
      BY <1>7, <1>8, <2>2
    <3> QED
      BY <1>2, <3>2, <3>3
  <2>3. CASE /\ \E k \in 1 .. Len(q) : i = Len(c) + k
             /\ \E k \in 1 .. Len(q) : j = Len(c) + k
    <3>1. PICK k \in 1 .. Len(q) : i = Len(c) + k
      BY <2>3
    <3>2. PICK m \in 1 .. Len(q) : j = Len(c) + m
      BY <2>3
    <3>3. k < m
      BY <1>2, <3>1, <3>2
    <3> QED
      BY <1>2, <1>9, <3>1, <3>2, <3>3
  <2>4. CASE j \in 1 .. Len(c) /\ \E k \in 1 .. Len(q) : i = Len(c) + k
    BY <1>2, <2>4
  <2> QED
    BY <1>10, <2>1, <2>2, <2>3, <2>4
<1>14. LedgerReady'
  BY <1>5, <1>11, <1>12, <1>13 DEF LedgerReady, ReplyAt, d
<1>15. LedgerCount'
  BY <1>2, <1>5, <1>7 DEF LedgerCount
<1>16. LedgerSent'
  BY <1>5, EmptySeq DEF LedgerSent
<1> QED
  BY <1>14, <1>15, <1>16 DEF RequestLedger, LedgerCalled

\* The ledger, spelled out on the variables.
LEMMA LedgerSays ==
    ASSUME TypeOK, RequestLedger
    PROVE  /\ \A i \in 1 .. Len(callbacks) : callbacks[i].xid = i
           /\ \A i \in 1 .. Len(completionsToProcess) : completionsToProcess[i].kind = "reply"
                  => completionsToProcess[i].id \in Len(callbacks) + 1 .. FirstSent - 1
           /\ \A x \in Len(callbacks) + 1 .. FirstSent - 1 :
                  \E i \in 1 .. Len(completionsToProcess) :
                      completionsToProcess[i].kind = "reply" /\ completionsToProcess[i].id = x
           /\ \A i, j \in 1 .. Len(completionsToProcess) :
                  /\ completionsToProcess[i].kind = "reply"
                  /\ completionsToProcess[j].kind = "reply" /\ i < j
                  => completionsToProcess[i].id < completionsToProcess[j].id
           /\ \A i \in 1 .. Len(sentRequests) : sentRequests[i] = FirstSent + i - 1
           /\ Len(callbacks) < FirstSent
BY QueueFacts
DEF RequestLedger, LedgerCalled, LedgerReady, LedgerSent, LedgerCount, ReplyAt

\* A request is accepted.
LEMMA LedgerSubmit ==
    ASSUME TypeOK, RequestLedger,
           sentRequests' = Append(sentRequests, nextXid), nextXid' = nextXid + 1,
           UNCHANGED <<callbacks, completionsToProcess>>
    PROVE  RequestLedger'
<1> DEFINE q == sentRequests
           p == sentRequests'
<1>1. Len(q) \in Nat /\ nextXid \in Nat /\ FirstSent = nextXid - Len(q)
  BY QueueFacts DEF FirstSent
<1>2. /\ p \in Seq(Nat) /\ Len(p) = Len(q) + 1
      /\ \A i \in 1 .. Len(q) : p[i] = q[i]
      /\ p[Len(q) + 1] = nextXid
  BY <1>1, AppendProperties DEF TypeOK
<1>3. DOMAIN p = 1 .. Len(q) + 1
  BY <1>2, LenProperties
<1>4. \A i \in 1 .. Len(q) : q[i] = nextXid - Len(q) + i - 1
  BY <1>1, LedgerSays
<1>5. FirstSent' = nextXid' - Len(p) /\ nextXid' = nextXid + 1
  BY DEF FirstSent
<1> HIDE DEF q, p
<1>6. FirstSent' = FirstSent
  BY <1>1, <1>2, <1>5
<1>7. \A i \in DOMAIN p : p[i] = nextXid - Len(q) + i - 1
  <2> TAKE i \in DOMAIN p
  <2>1. CASE i \in 1 .. Len(q)
    BY <1>2, <1>4, <2>1
  <2>2. CASE i = Len(q) + 1
    BY <1>1, <1>2, <2>2
  <2> QED
    BY <1>1, <1>3, <2>1, <2>2
<1>8. LedgerSent'
  BY <1>1, <1>6, <1>7 DEF LedgerSent, p
<1> QED
  BY <1>6, <1>8 DEF RequestLedger, LedgerCalled, LedgerReady, LedgerCount, ReplyAt

\* The oldest outstanding request is answered.
LEMMA LedgerReply ==
    ASSUME TypeOK, RequestLedger, sentRequests # <<>>,
           sentRequests' = Tail(sentRequests),
           completionsToProcess' = Append(completionsToProcess,
               [kind |-> "reply", id |-> Head(sentRequests), rc |-> "ZOK"]),
           UNCHANGED <<callbacks, nextXid>>
    PROVE  RequestLedger'
<1> DEFINE c == completionsToProcess
           d == completionsToProcess'
           q == sentRequests
           p == sentRequests'
           e == [kind |-> "reply", id |-> Head(sentRequests), rc |-> "ZOK"]
           f == FirstSent
           n == Len(callbacks)
<1>1. /\ p \in Seq(Nat) /\ Head(q) = q[1] /\ Len(q) \in Nat \ {0} /\ q[1] \in Nat
      /\ Len(p) = Len(q) - 1 /\ DOMAIN p = 1 .. Len(q) - 1
      /\ \A i \in 1 .. Len(q) - 1 : p[i] = q[i + 1]
  BY TailFacts, ElementOfSeq DEF TypeOK
<1>2. e \in Completions /\ e.kind = "reply" /\ e.id = q[1]
  BY <1>1 DEF Completions, Codes
<1>3. c \in Seq(Completions)
  BY DEF TypeOK
<1>4. /\ d \in Seq(Completions) /\ Len(d) = Len(c) + 1
      /\ \A i \in 1 .. Len(c) : d[i] = c[i]
      /\ d[Len(c) + 1] = e
  BY <1>2, <1>3, AppendProperties
<1>5. DOMAIN d = 1 .. Len(c) + 1 /\ Len(c) \in Nat
  BY <1>3, <1>4, LenProperties
<1>6. nextXid \in Nat /\ f = nextXid - Len(q) /\ f' = nextXid - Len(p) /\ n \in Nat /\ f \in Int
  BY QueueFacts DEF FirstSent
<1>7. /\ \A i \in 1 .. Len(c) : c[i].kind = "reply" => c[i].id \in n + 1 .. f - 1
      /\ \A x \in n + 1 .. f - 1 : \E i \in 1 .. Len(c) : c[i].kind = "reply" /\ c[i].id = x
      /\ \A i, j \in 1 .. Len(c) : c[i].kind = "reply" /\ c[j].kind = "reply" /\ i < j
             => c[i].id < c[j].id
      /\ \A i \in 1 .. Len(q) : q[i] = f + i - 1
      /\ n < f
  BY LedgerSays
<1>8. \A i \in DOMAIN callbacks : callbacks[i].xid = i
  BY DEF RequestLedger, LedgerCalled
<1> HIDE DEF c, d, q, p, e, f, n
<1>a. n \in Nat /\ f \in Int /\ Len(c) \in Nat
  BY <1>5, <1>6
<1>9. f' = f + 1 /\ q[1] = f
  BY <1>1, <1>6, <1>7
<1>10. /\ d[Len(c) + 1].kind = "reply" /\ d[Len(c) + 1].id = f
       /\ Len(c) + 1 \in DOMAIN d
       /\ \A i \in 1 .. Len(c) : i \in DOMAIN d /\ d[i] = c[i]
       /\ \A i \in DOMAIN d : i \in 1 .. Len(c) \/ i = Len(c) + 1
  BY <1>2, <1>4, <1>5, <1>9
<1>11. \A i \in DOMAIN d : d[i].kind = "reply" => d[i].id \in n + 1 .. f
  <2> SUFFICES ASSUME NEW i \in DOMAIN d, d[i].kind = "reply"
               PROVE  d[i].id \in n + 1 .. f
    OBVIOUS
  <2>1. CASE i \in 1 .. Len(c)
    <3>1. d[i].id \in n + 1 .. f - 1
      BY <1>7, <1>10, <2>1
    <3> QED
      BY <1>a, <3>1
  <2>2. CASE i = Len(c) + 1
    BY <1>a, <1>7, <1>10, <2>2
  <2> QED
    BY <1>10, <2>1, <2>2
<1>12. \A x \in n + 1 .. f : \E i \in DOMAIN d : d[i].kind = "reply" /\ d[i].id = x
  <2> TAKE x \in n + 1 .. f
  <2>1. CASE x = f
    BY <1>10, <2>1
  <2>2. CASE x # f
    <3>1. x \in n + 1 .. f - 1
      BY <1>a, <2>2
    <3> QED
      BY <1>7, <1>10, <3>1
  <2> QED
    BY <2>1, <2>2
<1>13. \A i, j \in DOMAIN d : d[i].kind = "reply" /\ d[j].kind = "reply" /\ i < j
           => d[i].id < d[j].id
  <2> SUFFICES ASSUME NEW i \in DOMAIN d, NEW j \in DOMAIN d,
                      d[i].kind = "reply", d[j].kind = "reply", i < j
               PROVE  d[i].id < d[j].id
    OBVIOUS
  <2>1. i \in 1 .. Len(c)
    BY <1>5, <1>10
  <2>2. CASE j \in 1 .. Len(c)
    BY <1>7, <1>10, <2>1, <2>2
  <2>3. CASE j = Len(c) + 1
    <3>1. c[i].kind = "reply" /\ d[i].id = c[i].id
      BY <1>10, <2>1
    <3>2. d[i].id \in n + 1 .. f - 1
      BY <1>7, <2>1, <3>1
    <3> QED
      BY <1>a, <1>10, <2>3, <3>2
  <2> QED
    BY <1>10, <2>2, <2>3
<1>14. \A i \in DOMAIN p : p[i] = f + 1 + i - 1
  <2> TAKE i \in DOMAIN p
  <2>1. i \in 1 .. Len(q) - 1 /\ i + 1 \in 1 .. Len(q)
    BY <1>1
  <2>2. p[i] = q[i + 1] /\ q[i + 1] = f + (i + 1) - 1
    BY <1>1, <1>7, <2>1
  <2> QED
    BY <1>a, <2>1, <2>2
<1>15. f + 1 - 1 = f /\ n < f + 1
  BY <1>a, <1>7
<1>16. n' = n
  BY DEF n
<1>17. f' - 1 = f
  BY <1>a, <1>9
<1>18. /\ \A i \in DOMAIN d : d[i].kind = "reply" => d[i].id \in n' + 1 .. f' - 1
       /\ \A x \in n' + 1 .. f' - 1 : \E i \in DOMAIN d : d[i].kind = "reply" /\ d[i].id = x
  BY <1>11, <1>12, <1>16, <1>17, Zenon
<1>19. LedgerReady'
  BY <1>13, <1>18 DEF LedgerReady, ReplyAt, d, f, n
<1>20. LedgerSent' /\ LedgerCount' /\ LedgerCalled'
  BY <1>8, <1>9, <1>14, <1>15, <1>16 DEF LedgerSent, LedgerCount, LedgerCalled, p, f, n
<1> QED
  BY <1>19, <1>20 DEF RequestLedger

\* The completion of a request runs: it is the oldest one not yet run.
LEMMA LedgerRun ==
    ASSUME TypeOK, RequestLedger, completionsToProcess # <<>>,
           Head(completionsToProcess).kind = "reply",
           completionsToProcess' = Tail(completionsToProcess),
           callbacks' = Append(callbacks, [xid |-> Head(completionsToProcess).id,
                                           rc |-> Head(completionsToProcess).rc]),
           UNCHANGED <<sentRequests, nextXid>>
    PROVE  RequestLedger' /\ Head(completionsToProcess).id = Len(callbacks) + 1
                          /\ Len(callbacks) + 1 < FirstSent
<1> DEFINE c == completionsToProcess
           d == completionsToProcess'
           f == FirstSent
           n == Len(callbacks)
           e == [xid |-> Head(completionsToProcess).id, rc |-> Head(completionsToProcess).rc]
           b == callbacks'
<1>1. /\ d \in Seq(Completions) /\ Head(c) = c[1] /\ Len(c) \in Nat \ {0}
      /\ Len(d) = Len(c) - 1 /\ DOMAIN d = 1 .. Len(c) - 1
      /\ \A i \in 1 .. Len(c) - 1 : d[i] = c[i + 1]
  BY TailFacts DEF TypeOK
<1>2. f \in Int /\ f' = f /\ n \in Nat /\ \A i \in 1 .. Len(c) : c[i].id \in Nat
  BY QueueFacts DEF FirstSent
<1>3. /\ \A i \in 1 .. Len(c) : c[i].kind = "reply" => c[i].id \in n + 1 .. f - 1
      /\ \A x \in n + 1 .. f - 1 : \E i \in 1 .. Len(c) : c[i].kind = "reply" /\ c[i].id = x
      /\ \A i, j \in 1 .. Len(c) : c[i].kind = "reply" /\ c[j].kind = "reply" /\ i < j
             => c[i].id < c[j].id
      /\ n < f
  BY LedgerSays
<1>4. c[1].kind = "reply"
  BY <1>1
<1>5. \A i \in 1 .. n : callbacks[i].xid = i
  BY LedgerSays
<1>6. callbacks \in Seq(Callbacks) /\ e \in Callbacks /\ e.xid = c[1].id
  <2>1. Head(c) \in Completions
    BY HeadTailProperties DEF TypeOK
  <2> QED
    BY <1>1, <2>1 DEF TypeOK, Callbacks, Completions
<1>7. /\ b \in Seq(Callbacks) /\ Len(b) = n + 1 /\ b[n + 1] = e
      /\ \A i \in 1 .. n : b[i] = callbacks[i]
  BY <1>6, AppendProperties
<1>8. DOMAIN b = 1 .. n + 1
  BY <1>7, LenProperties
<1> HIDE DEF c, d, f, n, e, b
<1>9. c[1].id = n + 1 /\ n + 1 < f
  <2>1. c[1].id \in n + 1 .. f - 1
    BY <1>1, <1>3, <1>4
  <2>2. PICK i \in 1 .. Len(c) : c[i].kind = "reply" /\ c[i].id = n + 1
    BY <1>2, <1>3, <2>1
  <2>3. i = 1
    <3> SUFFICES ASSUME 1 < i PROVE FALSE
      BY <1>1
    <3>1. c[1].id < c[i].id
      BY <1>1, <1>3, <1>4, <2>2
    <3> QED
      BY <1>2, <2>1, <2>2, <3>1
  <2> QED
    BY <1>2, <2>1, <2>2, <2>3
<1>10. \A i \in DOMAIN d : i + 1 \in 1 .. Len(c) /\ 1 < i + 1 /\ d[i] = c[i + 1] /\ i \in Nat
  BY <1>1
<1>11. \A i \in DOMAIN d : d[i].kind = "reply" => d[i].id \in n + 1 + 1 .. f - 1
  <2> SUFFICES ASSUME NEW i \in DOMAIN d, d[i].kind = "reply"
               PROVE  d[i].id \in n + 1 + 1 .. f - 1
    OBVIOUS
  <2>1. c[1].id < c[i + 1].id /\ c[i + 1].id \in n + 1 .. f - 1
    BY <1>1, <1>3, <1>4, <1>10
  <2> QED
    BY <1>2, <1>9, <1>10, <2>1
<1>12. \A x \in n + 1 + 1 .. f - 1 : \E i \in DOMAIN d : d[i].kind = "reply" /\ d[i].id = x
  <2> TAKE x \in n + 1 + 1 .. f - 1
  <2>1. x \in n + 1 .. f - 1 /\ x # n + 1
    BY <1>2
  <2>2. PICK i \in 1 .. Len(c) : c[i].kind = "reply" /\ c[i].id = x
    BY <1>3, <2>1
  <2>3. i # 1
    BY <1>9, <2>1, <2>2
  <2>4. i - 1 \in DOMAIN d /\ i - 1 \in 1 .. Len(c) - 1 /\ i - 1 + 1 = i
    BY <1>1, <2>3
  <2>5. d[i - 1] = c[i]
    BY <1>1, <2>4
  <2> QED
    BY <2>2, <2>4, <2>5
<1>13. \A i, j \in DOMAIN d : d[i].kind = "reply" /\ d[j].kind = "reply" /\ i < j
           => d[i].id < d[j].id
  <2> SUFFICES ASSUME NEW i \in DOMAIN d, NEW j \in DOMAIN d,
                      d[i].kind = "reply", d[j].kind = "reply", i < j
               PROVE  d[i].id < d[j].id
    OBVIOUS
  <2>1. i + 1 < j + 1 /\ i + 1 \in 1 .. Len(c) /\ j + 1 \in 1 .. Len(c)
    BY <1>10
  <2>2. d[i] = c[i + 1] /\ d[j] = c[j + 1]
    BY <1>10
  <2>3. c[i + 1].id < c[j + 1].id
    BY <1>3, <2>1, <2>2
  <2> QED
    BY <2>2, <2>3
<1>14. \A i \in DOMAIN b : b[i].xid = i
  <2> TAKE i \in DOMAIN b
  <2>1. CASE i \in 1 .. n
    BY <1>5, <1>7, <2>1
  <2>2. CASE i = n + 1
    BY <1>6, <1>7, <1>9, <2>2
  <2> QED
    BY <1>2, <1>8, <2>1, <2>2
<1>15. LedgerReady'
  BY <1>2, <1>7, <1>11, <1>12, <1>13 DEF LedgerReady, ReplyAt, b, d, f
<1>16. LedgerCount' /\ LedgerCalled'
  BY <1>2, <1>7, <1>9, <1>14 DEF LedgerCount, LedgerCalled, b, f
<1>17. LedgerSent'
  BY <1>2 DEF RequestLedger, LedgerSent, f
<1> QED
  BY <1>1, <1>9, <1>15, <1>16, <1>17 DEF RequestLedger, c, f, n

\* An event is taken off the queue.
LEMMA LedgerWatcher ==
    ASSUME TypeOK, RequestLedger, completionsToProcess # <<>>,
           Head(completionsToProcess).kind = "event",
           completionsToProcess' = Tail(completionsToProcess),
           UNCHANGED <<callbacks, sentRequests, nextXid>>
    PROVE  RequestLedger'
<1> DEFINE c == completionsToProcess
           d == completionsToProcess'
           f == FirstSent
           n == Len(callbacks)
<1>1. /\ Head(c) = c[1] /\ Len(c) \in Nat \ {0} /\ DOMAIN d = 1 .. Len(c) - 1
      /\ \A i \in 1 .. Len(c) - 1 : d[i] = c[i + 1]
  BY TailFacts DEF TypeOK
<1>2. f' = f
  BY DEF FirstSent
<1>3. /\ \A i \in 1 .. Len(c) : c[i].kind = "reply" => c[i].id \in n + 1 .. f - 1
      /\ \A x \in n + 1 .. f - 1 : \E i \in 1 .. Len(c) : c[i].kind = "reply" /\ c[i].id = x
      /\ \A i, j \in 1 .. Len(c) : c[i].kind = "reply" /\ c[j].kind = "reply" /\ i < j
             => c[i].id < c[j].id
  BY LedgerSays
<1>4. c[1].kind = "event"
  BY <1>1
<1> HIDE DEF c, d, f, n
<1>5. \A i \in DOMAIN d : i + 1 \in 1 .. Len(c) /\ d[i] = c[i + 1] /\ i \in Nat
  BY <1>1
<1>6. \A i \in DOMAIN d : d[i].kind = "reply" => d[i].id \in n + 1 .. f - 1
  BY <1>3, <1>5
<1>7. \A x \in n + 1 .. f - 1 : \E i \in DOMAIN d : d[i].kind = "reply" /\ d[i].id = x
  <2> TAKE x \in n + 1 .. f - 1
  <2>1. PICK i \in 1 .. Len(c) : c[i].kind = "reply" /\ c[i].id = x
    BY <1>3
  <2>2. i # 1
    BY <1>4, <2>1
  <2>3. i - 1 \in DOMAIN d /\ i - 1 \in 1 .. Len(c) - 1 /\ i - 1 + 1 = i
    BY <1>1, <2>2
  <2>4. d[i - 1] = c[i]
    BY <1>1, <2>3
  <2> QED
    BY <2>1, <2>3, <2>4
<1>8. \A i, j \in DOMAIN d : d[i].kind = "reply" /\ d[j].kind = "reply" /\ i < j
          => d[i].id < d[j].id
  <2> SUFFICES ASSUME NEW i \in DOMAIN d, NEW j \in DOMAIN d,
                      d[i].kind = "reply", d[j].kind = "reply", i < j
               PROVE  d[i].id < d[j].id
    OBVIOUS
  <2>1. i + 1 < j + 1 /\ i + 1 \in 1 .. Len(c) /\ j + 1 \in 1 .. Len(c)
    BY <1>5
  <2> QED
    BY <1>3, <1>5, <2>1
<1>9. LedgerReady'
  BY <1>2, <1>6, <1>7, <1>8 DEF LedgerReady, ReplyAt, d, f, n
<1> QED
  BY <1>2, <1>9 DEF RequestLedger, LedgerCalled, LedgerSent, LedgerCount, f

LEMMA LedgerStep == TypeOK /\ RequestLedger /\ [Next]_vars => RequestLedger'
<1> USE DEF queues, session, lifetime, history, network
<1> SUFFICES ASSUME TypeOK, RequestLedger, [Next]_vars
             PROVE  RequestLedger'
  OBVIOUS
<1>1. ASSUME NEW base, NEW s, NEW rc, HandleError(base, s, rc),
             UNCHANGED <<callbacks, sentRequests, nextXid>>
      PROVE  RequestLedger'
  <2>1. \/ completionsToProcess' = completionsToProcess
        \/ completionsToProcess' = Append(completionsToProcess, Event)
    BY <1>1 DEF HandleError
  <2> QED
    BY <1>1, <2>1, LedgerKept, LedgerEvent
<1>2. ASSUME NEW s, NEW rc, FailInApi(s, rc)
      PROVE  RequestLedger'
  BY <1>1, <1>2 DEF FailInApi
<1>3. ASSUME Destroy, UNCHANGED <<callbacks, nextXid>>
      PROVE  RequestLedger'
  BY <1>3, LedgerFree DEF Destroy, CleanupBufs, Codes
<1>4. CASE Interest
  <2>1. CASE InterestConnectFails \/ InterestTimeout
    BY <1>2, <2>1 DEF InterestConnectFails, InterestTimeout
  <2>2. CASE InterestWrap \/ InterestConnect \/ InterestConnectNow \/ InterestPing
    BY <2>2, LedgerKept
    DEF InterestWrap, InterestConnect, InterestConnectNow, InterestPing
  <2> QED
    BY <1>4, <2>1, <2>2 DEF Interest
<1>5. CASE CheckEvents
  <2>1. CASE ProcessFails \/ ProcessExpired
    BY <1>2, <2>1 DEF ProcessFails, ProcessExpired
  <2>2. CASE ProcessConnected \/ ProcessWrite \/ ProcessNothing \/ ProcessRead
    BY <2>2, LedgerKept DEF ProcessConnected, ProcessWrite, ProcessNothing, ProcessRead
  <2>3. CASE ProcessEstablished
    BY <2>3, LedgerEvent DEF ProcessEstablished
  <2> QED
    BY <1>5, <2>1, <2>2, <2>3 DEF CheckEvents
<1>6. CASE Continue
  <2>1. CASE \/ CheckEventsTail \/ ProcessDone \/ ProcessIgnored \/ ProcessAfterClose
             \/ CompletionsDone \/ WatcherReturns
    BY <2>1, LedgerKept
    DEF CheckEventsTail, ProcessDone, ProcessIgnored, ProcessAfterClose, CompletionsDone,
        WatcherReturns
  <2>2. CASE ProcessEvent
    BY <2>2, LedgerEvent DEF ProcessEvent
  <2>3. CASE ProcessAuth
    <3>1. UNCHANGED <<callbacks, sentRequests, nextXid>>
      BY <2>3 DEF ProcessAuth
    <3>2. CASE Head(toProcess).ok
      BY <2>3, <3>1, <3>2, LedgerKept DEF ProcessAuth
    <3>3. CASE ~ Head(toProcess).ok
      BY <1>1, <2>3, <3>1, <3>3 DEF ProcessAuth
    <3> QED
      BY <3>2, <3>3
  <2>4. CASE ProcessReply
    BY <2>4, LedgerReply DEF ProcessReply
  <2>5. CASE ProcessOutOfOrder
    BY <1>1, <2>5 DEF ProcessOutOfOrder
  <2>6. CASE RunCompletion
    BY <2>6, LedgerRun DEF RunCompletion
  <2>7. CASE RunWatcher
    BY <2>7, LedgerWatcher DEF RunWatcher
  <2>8. CASE HandleErrorTail
    <3>1. FreeCompletions(Top.rc) /\ stack # <<>>
      BY <2>8 DEF HandleErrorTail, CleanupBufs, TopIs
    <3>2. Top.rc \in Codes
      BY <3>1, StackType DEF Frames
    <3> QED
      BY <2>8, <3>1, <3>2, LedgerFree DEF HandleErrorTail
  <2>9. CASE Epilog
    <3>1. CASE CloseDue
      BY <1>3, <2>9, <3>1 DEF Epilog
    <3>2. CASE ~ CloseDue
      BY <2>9, <3>2, LedgerKept DEF Epilog
    <3> QED
      BY <3>1, <3>2
  <2> QED
    BY <1>6, <2>1, <2>2, <2>3, <2>4, <2>5, <2>6, <2>7, <2>8, <2>9 DEF Continue
<1>7. CASE Api
  <2>1. CASE Submit
    BY <2>1, LedgerSubmit DEF Submit
  <2>2. CASE SubmitRefused \/ AddAuth
    BY <2>2, LedgerKept DEF SubmitRefused, AddAuth
  <2>3. CASE CloseInCallback
    BY <2>3, LedgerFree DEF CloseInCallback, Codes
  <2>4. CASE CloseAtTop
    BY <1>3, <2>4 DEF CloseAtTop
  <2> QED
    BY <1>7, <2>1, <2>2, <2>3, <2>4 DEF Api
<1>8. CASE Environment
  BY <1>8, LedgerKept DEF Environment, ServerStep, ServerEvent, PeerFails
<1>9. CASE UNCHANGED vars
  BY <1>9, LedgerKept DEF vars
<1> QED
  BY <1>4, <1>5, <1>6, <1>7, <1>8, <1>9 DEF Next

LEMMA LedgerInit == Init => RequestLedger
<1> SUFFICES ASSUME Init PROVE RequestLedger
  OBVIOUS
<1>1. Len(sentRequests) = 0 /\ Len(callbacks) = 0 /\ nextXid = 1 /\ FirstSent = 1
  BY EmptySeq DEF Init, FirstSent
<1>2. DOMAIN callbacks = {} /\ DOMAIN sentRequests = {} /\ DOMAIN completionsToProcess = {}
  BY DEF Init
<1> QED
  BY <1>1, <1>2 DEF RequestLedger, LedgerCalled, LedgerReady, LedgerSent, LedgerCount

\* Every accepted request is in the ledger exactly once: completions that have
\* run, completions about to run and outstanding requests, in the order of the
\* calls, through replies, connection losses, expiry, closing and nested calls.
THEOREM Ledger == Spec => []RequestLedger
<1>1. TypeOK /\ RequestLedger /\ [Next]_vars => TypeOK' /\ RequestLedger'
  BY TypeStep, LedgerStep
<1> QED
  BY <1>1, TypeInit, LedgerInit, PTL DEF Spec

-----------------------------------------------------------------------------
(* The reference counter and the call stack                                *)

Pop(s)     == SubSeq(s, 1, Len(s) - 1)
Epilogs(s) == {i \in 1 .. Len(s) : s[i].fn = "epilog"}
EpilogCount(s)   == Cardinality(Epilogs(s))
Rooted(s)  == s = <<>> \/ s[1].fn = "epilog"

\* ref_counter is the number of API calls on the stack, the outermost function
\* is one of them, and a freed handle has none.
StackInv ==
    /\ freed => stack = <<>>
    /\ ~freed => Rooted(stack) /\ EpilogCount(stack) = refCounter

LEMMA CountFacts ==
    ASSUME NEW s \in Seq(Frames)
    PROVE  /\ IsFiniteSet(Epilogs(s)) /\ EpilogCount(s) \in Nat
           /\ Rooted(s) /\ EpilogCount(s) = 0 => s = <<>>
           /\ s = <<>> => EpilogCount(s) = 0
<1>1. Len(s) \in Nat
  BY LenProperties
<1>2. IsFiniteSet(1 .. Len(s))
  BY <1>1, FS_Interval
<1>3. IsFiniteSet(Epilogs(s))
  BY <1>2, FS_Subset DEF Epilogs
<1>4. EpilogCount(s) \in Nat
  BY <1>3, FS_CardinalityType DEF EpilogCount
<1>5. ASSUME Rooted(s), EpilogCount(s) = 0, s # <<>>
      PROVE  FALSE
  <2>1. 1 \in 1 .. Len(s)
    BY <1>5, TailFacts
  <2>2. 1 \in Epilogs(s)
    BY <1>5, <2>1 DEF Rooted, Epilogs
  <2>3. Epilogs(s) = {}
    BY <1>3, <1>5, FS_EmptySet DEF EpilogCount
  <2> QED
    BY <2>2, <2>3
<1>6. ASSUME s = <<>>
      PROVE  EpilogCount(s) = 0
  <2>1. Len(s) = 0
    BY <1>6, EmptySeq
  <2>2. Epilogs(s) = {}
    BY <2>1 DEF Epilogs
  <2> QED
    BY <2>2, FS_EmptySet DEF EpilogCount
<1> QED
  BY <1>3, <1>4, <1>5, <1>6

LEMMA PushFacts ==
    ASSUME NEW s \in Seq(Frames), NEW f \in Frames
    PROVE  /\ Append(s, f) \in Seq(Frames) /\ Append(s, f) # <<>>
           /\ f.fn = "epilog" => EpilogCount(Append(s, f)) = EpilogCount(s) + 1
           /\ f.fn # "epilog" => EpilogCount(Append(s, f)) = EpilogCount(s)
           /\ Rooted(s) /\ (f.fn = "epilog" \/ s # <<>>) => Rooted(Append(s, f))
<1> DEFINE t == Append(s, f)
<1>1. /\ t \in Seq(Frames) /\ t # <<>> /\ Len(t) = Len(s) + 1
      /\ \A i \in 1 .. Len(s) : t[i] = s[i]
      /\ t[Len(s) + 1] = f
  BY AppendProperties
<1>2. Len(s) \in Nat
  BY LenProperties
<1>3. IsFiniteSet(Epilogs(s))
  BY CountFacts
<1>4. s # <<>> => 1 \in 1 .. Len(s)
  BY TailFacts
<1>5. s = <<>> => Len(s) = 0
  BY EmptySeq
<1> HIDE DEF t
<1>6. ASSUME f.fn = "epilog"
      PROVE  EpilogCount(t) = EpilogCount(s) + 1
  <2>1. Epilogs(t) = Epilogs(s) \cup {Len(s) + 1} /\ Len(s) + 1 \notin Epilogs(s)
    BY <1>1, <1>2, <1>6 DEF Epilogs
  <2> QED
    BY <1>3, <2>1, FS_AddElement DEF EpilogCount
<1>7. ASSUME f.fn # "epilog"
      PROVE  EpilogCount(t) = EpilogCount(s)
  <2>1. Epilogs(t) = Epilogs(s)
    BY <1>1, <1>2, <1>7 DEF Epilogs
  <2> QED
    BY <2>1 DEF EpilogCount
<1>8. ASSUME Rooted(s), f.fn = "epilog" \/ s # <<>>
      PROVE  Rooted(t)
  <2>1. CASE s # <<>>
    BY <1>1, <1>4, <1>8, <2>1 DEF Rooted
  <2>2. CASE s = <<>>
    BY <1>1, <1>5, <1>8, <2>2 DEF Rooted
  <2> QED
    BY <2>1, <2>2
<1> QED
  BY <1>1, <1>6, <1>7, <1>8 DEF t

LEMMA PopCount ==
    ASSUME NEW s \in Seq(Frames), s # <<>>
    PROVE  /\ Pop(s) \in Seq(Frames)
           /\ s[Len(s)].fn = "epilog" => EpilogCount(Pop(s)) = EpilogCount(s) - 1
           /\ s[Len(s)].fn # "epilog" => EpilogCount(Pop(s)) = EpilogCount(s)
           /\ Rooted(s) => Rooted(Pop(s))
           /\ Rooted(s) /\ s[Len(s)].fn # "epilog" => Pop(s) # <<>>
<1> DEFINE p == Pop(s)
<1>1. /\ p \in Seq(Frames) /\ Len(p) = Len(s) - 1 /\ Len(s) \in Nat \ {0}
      /\ \A i \in 1 .. Len(s) - 1 : p[i] = s[i]
  BY PopFacts DEF Pop
<1>2. IsFiniteSet(Epilogs(s)) /\ EpilogCount(s) \in Nat
  BY CountFacts
<1>3. p # <<>> => 1 \in 1 .. Len(p)
  BY <1>1, TailFacts
<1>4. p = <<>> => Len(p) = 0
  BY EmptySeq
<1> HIDE DEF p
<1>5. ASSUME s[Len(s)].fn = "epilog"
      PROVE  EpilogCount(p) = EpilogCount(s) - 1
  <2>1. Epilogs(p) = Epilogs(s) \ {Len(s)} /\ Len(s) \in Epilogs(s)
    BY <1>1, <1>5 DEF Epilogs
  <2> QED
    BY <1>2, <2>1, FS_RemoveElement DEF EpilogCount
<1>6. ASSUME s[Len(s)].fn # "epilog"
      PROVE  EpilogCount(p) = EpilogCount(s)
  <2>1. Epilogs(p) = Epilogs(s)
    BY <1>1, <1>6 DEF Epilogs
  <2> QED
    BY <2>1 DEF EpilogCount
<1>7. ASSUME Rooted(s)
      PROVE  Rooted(p)
  BY <1>1, <1>3, <1>7 DEF Rooted
<1>8. ASSUME Rooted(s), s[Len(s)].fn # "epilog", p = <<>>
      PROVE  FALSE
  <2>1. Len(s) = 1
    BY <1>1, <1>4, <1>8
  <2>2. s[1].fn = "epilog"
    BY <1>8 DEF Rooted
  <2> QED
    BY <1>8, <2>1, <2>2
<1> QED
  BY <1>1, <1>5, <1>6, <1>7, <1>8 DEF p

\* A stack that fits a counter.
Good(s, n) == Rooted(s) /\ EpilogCount(s) = n

LEMMA GoodPush ==
    ASSUME NEW s \in Seq(Frames), NEW n \in Int, Good(s, n)
    PROVE  /\ Push(s, "epilog") \in Seq(Frames) /\ Push(s, "epilog") # <<>>
           /\ Good(Push(s, "epilog"), n + 1)
           /\ s # <<>> => \A f \in {"checkEvents", "process", "completions", "watcher"} :
                  Push(s, f) \in Seq(Frames) /\ Push(s, f) # <<>> /\ Good(Push(s, f), n)
           /\ s # <<>> => \A rc \in Codes :
                  LET t == Append(s, [fn |-> "handleError", rc |-> rc])
                  IN  t \in Seq(Frames) /\ t # <<>> /\ Good(t, n)
<1>1. /\ Frame("epilog") \in Frames /\ Frame("epilog").fn = "epilog"
      /\ \A f \in {"checkEvents", "process", "completions", "watcher"} :
             Frame(f) \in Frames /\ Frame(f).fn = f /\ f # "epilog"
  BY DEF Frame, Frames, Codes
<1>2. Rooted(s) /\ EpilogCount(s) = n
  BY DEF Good
<1>3. /\ Push(s, "epilog") \in Seq(Frames) /\ Push(s, "epilog") # <<>>
      /\ Good(Push(s, "epilog"), n + 1)
  BY <1>1, <1>2, PushFacts DEF Push, Good
<1>4. ASSUME s # <<>>, NEW f \in {"checkEvents", "process", "completions", "watcher"}
      PROVE  Push(s, f) \in Seq(Frames) /\ Push(s, f) # <<>> /\ Good(Push(s, f), n)
  <2>1. Frame(f) \in Frames /\ Frame(f).fn # "epilog"
    BY <1>1
  <2> QED
    BY <1>2, <1>4, <2>1, PushFacts DEF Push, Good
<1>5. ASSUME s # <<>>, NEW rc \in Codes
      PROVE  LET t == Append(s, [fn |-> "handleError", rc |-> rc])
             IN  t \in Seq(Frames) /\ t # <<>> /\ Good(t, n)
  <2> DEFINE e == [fn |-> "handleError", rc |-> rc]
  <2>1. e \in Frames /\ e.fn # "epilog"
    BY DEF Frames
  <2> HIDE DEF e
  <2>2. Append(s, e) \in Seq(Frames) /\ Append(s, e) # <<>> /\ Good(Append(s, e), n)
    BY <1>2, <1>5, <2>1, PushFacts DEF Good
  <2> QED
    BY <2>2 DEF e
<1> QED
  BY <1>3, <1>4, <1>5

LEMMA GoodPop ==
    ASSUME NEW s \in Seq(Frames), s # <<>>, NEW n \in Int, Good(s, n)
    PROVE  /\ Pop(s) \in Seq(Frames)
           /\ s[Len(s)].fn = "epilog" => Good(Pop(s), n - 1)
           /\ s[Len(s)].fn # "epilog" => Good(Pop(s), n) /\ Pop(s) # <<>>
<1>1. Rooted(s) /\ EpilogCount(s) = n
  BY DEF Good
<1> QED
  BY <1>1, PopCount DEF Good

\* What handle_error() leaves on the stack.
LEMMA GoodError ==
    ASSUME NEW base \in Seq(Frames), base # <<>>, NEW n \in Int, Good(base, n),
           NEW s, NEW rc \in Codes, HandleError(base, s, rc)
    PROVE  Good(stack', n) /\ stack' # <<>>
<1> DEFINE rest == Append(base, [fn |-> "handleError", rc |-> rc])
<1>1. rest \in Seq(Frames) /\ rest # <<>> /\ Good(rest, n)
  BY GoodPush
<1>2. stack' = rest \/ stack' = Push(rest, "completions")
  BY DEF HandleError
<1> HIDE DEF rest
<1> QED
  BY <1>1, <1>2, GoodPush

LEMMA StackStep == TypeOK /\ StackInv /\ [Next]_vars => StackInv'
<1> USE DEF queues, session, lifetime, history, network
<1> SUFFICES ASSUME TypeOK, StackInv, [Next]_vars
             PROVE  StackInv'
  OBVIOUS
<1>a. /\ stack \in Seq(Frames) /\ refCounter \in Int /\ freed \in BOOLEAN
      /\ freed => stack = <<>>
      /\ ~freed => Good(stack, refCounter)
  BY DEF TypeOK, StackInv, Good
<1>b. ASSUME freed' = freed, ~freed => Good(stack', refCounter'), freed => stack' = <<>>
      PROVE  StackInv'
  BY <1>b DEF StackInv, Good
<1>c. ASSUME UNCHANGED <<stack, refCounter, freed>>
      PROVE  StackInv'
  BY <1>c DEF StackInv
<1>d. ASSUME stack # <<>>
      PROVE  /\ ~freed /\ Below = Pop(stack) /\ Below \in Seq(Frames)
             /\ Top.fn = "epilog" => Good(Below, refCounter - 1)
             /\ Top.fn # "epilog" => Good(Below, refCounter) /\ Below # <<>>
  BY <1>a, <1>d, GoodPop DEF Below, Top, Pop
<1>e. ASSUME NEW s, NEW rc \in Codes, FailInApi(s, rc), ~freed
      PROVE  StackInv'
  <2>1. /\ Push(stack, "epilog") \in Seq(Frames) /\ Push(stack, "epilog") # <<>>
        /\ Good(Push(stack, "epilog"), refCounter + 1)
    BY <1>a, <1>e, GoodPush
  <2>2. /\ HandleError(Push(stack, "epilog"), s, rc)
        /\ refCounter' = refCounter + 1 /\ freed' = freed
    BY <1>e DEF FailInApi
  <2>3. refCounter + 1 \in Int
    BY <1>a
  <2>4. Good(stack', refCounter + 1)
    BY <2>1, <2>2, <2>3, GoodError
  <2> QED
    BY <1>b, <1>e, <2>2, <2>4
<1>f. ASSUME ToProcessLoop, ~freed, freed' = freed
      PROVE  StackInv'
  <2> DEFINE t == Push(stack, "epilog")
  <2>1. t \in Seq(Frames) /\ t # <<>> /\ Good(t, refCounter + 1)
    BY <1>a, <1>f, GoodPush
  <2>2. stack' = Push(t, "process") /\ refCounter' = refCounter + 1
    BY <1>f DEF ToProcessLoop
  <2> HIDE DEF t
  <2>3. refCounter + 1 \in Int
    BY <1>a
  <2>4. Good(stack', refCounter + 1)
    BY <2>1, <2>2, <2>3, GoodPush
  <2> QED
    BY <1>b, <1>f, <2>2, <2>4
<1>1. CASE Interest
  <2>1. CASE InterestWrap \/ InterestConnect \/ InterestConnectNow \/ InterestPing
    BY <1>c, <2>1 DEF InterestWrap, InterestConnect, InterestConnectNow, InterestPing
  <2>2. CASE InterestConnectFails
    BY <1>e, <2>2 DEF InterestConnectFails, MayConnect, MayPoll, UserTurn, Codes
  <2>3. CASE InterestTimeout
    BY <1>e, <2>3 DEF InterestTimeout, MayPoll, UserTurn, Codes
  <2> QED
    BY <1>1, <2>1, <2>2, <2>3 DEF Interest
<1>2. CASE CheckEvents
  <2>1. CASE ProcessConnected \/ ProcessWrite \/ ProcessRead
    BY <1>f, <2>1
    DEF ProcessConnected, ProcessWrite, ProcessRead, Readable, MayPoll, UserTurn
  <2>2. CASE ProcessFails
    BY <1>e, <2>2 DEF ProcessFails, MayPoll, UserTurn, Codes
  <2>3. CASE ProcessExpired
    BY <1>e, <2>3 DEF ProcessExpired, Readable, MayPoll, UserTurn, Codes
  <2>4. CASE ProcessNothing
    BY <1>c, <2>4 DEF ProcessNothing
  <2>5. CASE ProcessEstablished
    <3> DEFINE t == Push(stack, "epilog")
               u == Push(t, "process")
               v == Push(u, "checkEvents")
    <3>1. ~freed /\ freed' = freed
      BY <2>5 DEF ProcessEstablished, Readable, MayPoll, UserTurn
    <3>2. t \in Seq(Frames) /\ t # <<>> /\ Good(t, refCounter + 1)
      BY <1>a, <3>1, GoodPush
    <3>3. stack' = Push(v, "completions") /\ refCounter' = refCounter + 1
      BY <2>5 DEF ProcessEstablished
    <3>4. refCounter + 1 \in Int
      BY <1>a
    <3> HIDE DEF t
    <3>5. u \in Seq(Frames) /\ u # <<>> /\ Good(u, refCounter + 1)
      BY <3>2, <3>4, GoodPush
    <3> HIDE DEF u
    <3>6. v \in Seq(Frames) /\ v # <<>> /\ Good(v, refCounter + 1)
      BY <3>4, <3>5, GoodPush
    <3> HIDE DEF v
    <3>7. Good(stack', refCounter + 1)
      BY <3>3, <3>4, <3>6, GoodPush
    <3> QED
      BY <1>b, <3>1, <3>3, <3>7
  <2> QED
    BY <1>2, <2>1, <2>2, <2>3, <2>4, <2>5 DEF CheckEvents
<1>3. CASE Continue
  <2>1. CASE ProcessIgnored \/ ProcessEvent \/ ProcessReply \/ RunCompletion
    BY <1>c, <2>1 DEF ProcessIgnored, ProcessEvent, ProcessReply, RunCompletion
  <2>2. CASE CheckEventsTail \/ ProcessAfterClose \/ CompletionsDone \/ WatcherReturns
    <3>1. /\ stack # <<>> /\ Top.fn # "epilog" /\ stack' = Below
          /\ refCounter' = refCounter /\ freed' = freed
      BY <2>2
      DEF CheckEventsTail, ProcessAfterClose, CompletionsDone, WatcherReturns, TopIs,
          ReplyReceived, Received
    <3> QED
      BY <1>b, <1>d, <3>1
  <2>3. CASE ProcessDone \/ HandleErrorTail
    <3>1. /\ stack # <<>> /\ Top.fn # "epilog" /\ stack' = Push(Below, "completions")
          /\ refCounter' = refCounter /\ freed' = freed
      BY <2>3 DEF ProcessDone, HandleErrorTail, TopIs
    <3>2. Good(stack', refCounter)
      BY <1>a, <1>d, <3>1, GoodPush
    <3> QED
      BY <1>b, <1>d, <3>1, <3>2
  <2>4. CASE RunWatcher
    <3>1. /\ stack # <<>> /\ stack' = Push(stack, "watcher")
          /\ refCounter' = refCounter /\ freed' = freed
      BY <2>4 DEF RunWatcher, TopIs
    <3>2. Good(stack', refCounter)
      BY <1>a, <1>d, <3>1, GoodPush
    <3> QED
      BY <1>b, <1>d, <3>1, <3>2
  <2>5. ASSUME NEW s, NEW rc \in Codes, HandleError(Below, s, rc), TopIs("process"),
               UNCHANGED <<refCounter, freed>>
        PROVE  StackInv'
    <3>1. stack # <<>> /\ Top.fn # "epilog"
      BY <2>5 DEF TopIs
    <3>2. Good(stack', refCounter)
      BY <1>a, <1>d, <2>5, <3>1, GoodError
    <3> QED
      BY <1>b, <1>d, <2>5, <3>1, <3>2
  <2>6. CASE ProcessAuth
    <3>1. CASE Head(toProcess).ok
      BY <1>c, <2>6, <3>1 DEF ProcessAuth
    <3>2. CASE ~ Head(toProcess).ok
      BY <2>5, <2>6, <3>2 DEF ProcessAuth, Received, Codes
    <3> QED
      BY <3>1, <3>2
  <2>7. CASE ProcessOutOfOrder
    BY <2>5, <2>7 DEF ProcessOutOfOrder, ReplyReceived, Received, Codes
  <2>8. CASE Epilog
    <3>1. /\ stack # <<>> /\ Top.fn = "epilog" /\ stack' = Below
          /\ refCounter' = refCounter - 1
      BY <2>8 DEF Epilog, TopIs
    <3>2. CASE CloseDue
      <4>1. freed' = TRUE /\ refCounter = 1
        BY <2>8, <3>2 DEF Epilog, Destroy, CloseDue
      <4>2. Rooted(Below) /\ EpilogCount(Below) = 0 /\ Below \in Seq(Frames)
        BY <1>d, <3>1, <4>1 DEF Good
      <4>3. stack' = <<>>
        BY <3>1, <4>2, CountFacts
      <4> QED
        BY <4>1, <4>3 DEF StackInv
    <3>3. CASE ~ CloseDue
      <4>1. freed' = freed
        BY <2>8, <3>3 DEF Epilog
      <4> QED
        BY <1>b, <1>d, <3>1, <4>1
    <3> QED
      BY <3>2, <3>3
  <2> QED
    BY <1>3, <2>1, <2>2, <2>3, <2>4, <2>6, <2>7, <2>8 DEF Continue
<1>4. CASE Api
  <2>1. CASE Submit \/ SubmitRefused \/ AddAuth \/ CloseInCallback
    BY <1>c, <2>1 DEF Submit, SubmitRefused, AddAuth, CloseInCallback
  <2>2. CASE CloseAtTop
    <3>1. ~freed /\ refCounter = 0 /\ freed' = TRUE /\ stack' = stack
      BY <2>2 DEF CloseAtTop, UserTurn, NotInUse, Destroy
    <3>2. stack = <<>>
      BY <1>a, <3>1, CountFacts DEF Good
    <3> QED
      BY <3>1, <3>2 DEF StackInv
  <2> QED
    BY <1>4, <2>1, <2>2 DEF Api
<1>5. CASE Environment
  BY <1>5, <1>c DEF Environment, ServerStep, ServerEvent, PeerFails
<1>6. CASE UNCHANGED vars
  BY <1>6, <1>c DEF vars
<1> QED
  BY <1>1, <1>2, <1>3, <1>4, <1>5, <1>6 DEF Next

LEMMA StackInit == Init => StackInv
<1> SUFFICES ASSUME Init PROVE StackInv
  OBVIOUS
<1>1. stack = <<>> /\ refCounter = 0 /\ stack \in Seq(Frames)
  BY EmptySeq DEF Init
<1> QED
  BY <1>1, CountFacts DEF StackInv, Rooted

\* zookeeper_close() may be called in any watcher, however deep: the handle is
\* freed only when no function of the client that uses it is left.
THEOREM FreedUnused == Spec => []NoUseAfterFree
<1>1. TypeOK /\ StackInv /\ [Next]_vars => TypeOK' /\ StackInv'
  BY TypeStep, StackStep
<1>2. StackInv => NoUseAfterFree
  BY DEF StackInv, NoUseAfterFree
<1> QED
  BY <1>1, <1>2, TypeInit, StackInit, PTL DEF Spec

-----------------------------------------------------------------------------
(* A session that is lost stays lost                                       *)

\* handle_error() is suspended in frame k, and zookeeper_process() has not been
\* entered since.
CleanupAt(s, k) == /\ k \in 1 .. Len(s) /\ s[k].fn = "handleError"
                   /\ \A j \in k + 1 .. Len(s) : s[j].fn # "process"
CleanupPending(s) == \E k \in 1 .. Len(s) : CleanupAt(s, k)

\* After the loss there are a socket and unprocessed packets only as long as
\* handle_error() has not cleaned up.
LossInv == IsUnrecoverable /\ (toProcess # <<>> \/ fd # "NoFd") => CleanupPending(stack)

LEMMA CleanupPush ==
    ASSUME NEW s \in Seq(Frames), CleanupPending(s),
           NEW f \in {"completions", "watcher"}
    PROVE  CleanupPending(Push(s, f))
<1>1. Frame(f) \in Frames /\ Frame(f).fn # "process"
  BY DEF Frame, Frames, Codes
<1>2. PICK k \in 1 .. Len(s) : CleanupAt(s, k)
  BY DEF CleanupPending
<1>3. /\ Len(Push(s, f)) = Len(s) + 1 /\ Push(s, f)[Len(s) + 1] = Frame(f)
      /\ \A i \in 1 .. Len(s) : Push(s, f)[i] = s[i]
  BY <1>1, AppendProperties DEF Push
<1>4. Len(s) \in Nat
  BY LenProperties
<1> DEFINE t == Push(s, f)
<1> HIDE DEF t
<1>5. CleanupAt(t, k) /\ k \in 1 .. Len(t)
  BY <1>1, <1>2, <1>3, <1>4 DEF CleanupAt, t
<1> QED
  BY <1>5 DEF CleanupPending, t

\* handle_error() has just been entered.
LEMMA CleanupError ==
    ASSUME NEW base \in Seq(Frames), NEW s, NEW rc \in Codes, HandleError(base, s, rc)
    PROVE  CleanupPending(stack')
<1> DEFINE e    == [fn |-> "handleError", rc |-> rc]
           rest == Append(base, e)
<1>1. e \in Frames /\ e.fn = "handleError"
  BY DEF Frames
<1>2. stack' = rest \/ stack' = Push(rest, "completions")
  BY DEF HandleError
<1> HIDE DEF e
<1>3. /\ rest \in Seq(Frames) /\ Len(rest) = Len(base) + 1 /\ rest[Len(base) + 1] = e
      /\ Len(base) \in Nat
  BY <1>1, AppendProperties, LenProperties
<1> HIDE DEF rest
<1>4. CleanupAt(rest, Len(rest)) /\ Len(rest) \in 1 .. Len(rest)
  BY <1>1, <1>3 DEF CleanupAt
<1>5. CleanupPending(rest)
  BY <1>4 DEF CleanupPending
<1> QED
  BY <1>2, <1>3, <1>5, CleanupPush

LEMMA CleanupPop ==
    ASSUME NEW s \in Seq(Frames), s # <<>>, CleanupPending(s), s[Len(s)].fn # "handleError"
    PROVE  CleanupPending(Pop(s))
<1>1. PICK k \in 1 .. Len(s) : CleanupAt(s, k)
  BY DEF CleanupPending
<1>2. /\ Len(Pop(s)) = Len(s) - 1 /\ Len(s) \in Nat \ {0}
      /\ \A i \in 1 .. Len(s) - 1 : Pop(s)[i] = s[i]
  BY PopFacts DEF Pop
<1>3. k # Len(s)
  BY <1>1 DEF CleanupAt
<1> DEFINE t == Pop(s)
<1> HIDE DEF t
<1>4. CleanupAt(t, k) /\ k \in 1 .. Len(t)
  BY <1>1, <1>2, <1>3 DEF CleanupAt, t
<1> QED
  BY <1>4 DEF CleanupPending, t

\* With the cleanup pending, zookeeper_process() does not run ...
LEMMA CleanupTop ==
    ASSUME NEW s \in Seq(Frames), s # <<>>, CleanupPending(s)
    PROVE  s[Len(s)].fn # "process"
<1>1. PICK k \in 1 .. Len(s) : CleanupAt(s, k)
  BY DEF CleanupPending
<1>2. Len(s) \in Nat \ {0}
  BY TailFacts
<1>3. CASE k = Len(s)
  BY <1>1, <1>3 DEF CleanupAt
<1>4. CASE k # Len(s)
  <2>1. Len(s) \in k + 1 .. Len(s)
    BY <1>2, <1>4
  <2> QED
    BY <1>1, <2>1 DEF CleanupAt
<1> QED
  BY <1>3, <1>4

\* ... and the outermost API call has not returned.
LEMMA CleanupDeep ==
    ASSUME NEW s \in Seq(Frames), s # <<>>, CleanupPending(s),
           s[Len(s)].fn = "epilog"
    PROVE  Pop(s) # <<>>
<1>1. CleanupPending(Pop(s))
  BY CleanupPop
<1>2. PICK k \in 1 .. Len(Pop(s)) : TRUE
  BY <1>1 DEF CleanupPending
<1>3. Pop(s) = <<>> => Len(Pop(s)) = 0
  BY EmptySeq
<1> QED
  BY <1>2, <1>3

LossStrict == TypeOK /\ StackInv /\ LossInv

\* In a lost session zookeeper_process() finds nothing to process.
LEMMA NothingProcessed ==
    ASSUME LossStrict, IsUnrecoverable, TopIs("process")
    PROVE  toProcess = <<>>
<1>1. stack # <<>> /\ stack \in Seq(Frames) /\ stack[Len(stack)].fn = "process"
  BY DEF LossStrict, TypeOK, TopIs, Top
<1>2. ~ CleanupPending(stack)
  BY <1>1, CleanupTop
<1> QED
  BY <1>2 DEF LossStrict, LossInv

\* The last API call frees the handle after the cleanup.
LEMMA DestroyedClean ==
    ASSUME LossStrict, IsUnrecoverable, ~freed,
           \/ TopIs("epilog") /\ CloseDue
           \/ NotInUse
    PROVE  fd = "NoFd"
<1>1. stack \in Seq(Frames) /\ Good(stack, refCounter)
  BY DEF LossStrict, TypeOK, StackInv, Good
<1>2. CASE NotInUse
  <2>1. stack = <<>>
    BY <1>1, <1>2, CountFacts DEF Good, NotInUse
  <2>2. Len(stack) = 0
    BY <2>1, EmptySeq
  <2>3. ~ CleanupPending(stack)
    BY <2>2 DEF CleanupPending
  <2> QED
    BY <2>3 DEF LossStrict, LossInv
<1>3. CASE TopIs("epilog") /\ CloseDue
  <2>1. stack # <<>> /\ stack[Len(stack)].fn = "epilog" /\ refCounter = 1
    BY <1>3 DEF TopIs, Top, CloseDue
  <2>2. Good(Pop(stack), 0) /\ Pop(stack) \in Seq(Frames)
    BY <1>1, <2>1, GoodPop
  <2>3. Pop(stack) = <<>>
    BY <2>2, CountFacts DEF Good
  <2>4. ~ CleanupPending(stack)
    BY <1>1, <2>1, <2>3, CleanupDeep
  <2> QED
    BY <2>4 DEF LossStrict, LossInv
<1> QED
  BY <1>2, <1>3

LEMMA LossStep == LossStrict /\ [Next]_vars => LossInv'
<1> USE DEF queues, session, lifetime, history, network
<1> SUFFICES ASSUME LossStrict, [Next]_vars
             PROVE  LossInv'
  OBVIOUS
<1>a. TypeOK /\ StackInv /\ LossInv /\ stack \in Seq(Frames)
  BY DEF LossStrict, TypeOK
<1>b. ASSUME UNCHANGED <<state, toProcess, fd, stack>>
      PROVE  LossInv'
  BY <1>a, <1>b DEF LossInv, IsUnrecoverable
<1>c. ASSUME ~ IsUnrecoverable, state' = state \/ state' \in States \ Unrecoverable
      PROVE  LossInv'
  BY <1>c DEF LossInv, IsUnrecoverable
<1>d. stack # <<>> => Below = Pop(stack) /\ Below \in Seq(Frames)
                      /\ Top = stack[Len(stack)]
  BY <1>a, GoodPop, PopFacts DEF Below, Pop, Top
<1>e. ASSUME NEW s, NEW rc \in Codes, FailInApi(s, rc)
      PROVE  LossInv'
  <2>1. Push(stack, "epilog") \in Seq(Frames)
    BY <1>a, StackType
  <2>2. HandleError(Push(stack, "epilog"), s, rc)
    BY <1>e DEF FailInApi
  <2> QED
    BY <2>1, <2>2, CleanupError DEF LossInv
<1>f. ASSUME stack # <<>>, Top.fn # "handleError", stack' = Below,
             UNCHANGED <<state, toProcess, fd>>
      PROVE  LossInv'
  BY <1>a, <1>d, <1>f, CleanupPop DEF LossInv, IsUnrecoverable
<1>g. ASSUME toProcess' = <<>>, fd' = "NoFd"
      PROVE  LossInv'
  BY <1>g DEF LossInv
<1>h. ASSUME NEW s, NEW rc \in Codes, HandleError(Below, s, rc), stack # <<>>
      PROVE  LossInv'
  BY <1>d, <1>h, CleanupError DEF LossInv
<1>1. CASE Interest
  <2>1. CASE InterestWrap \/ InterestConnect \/ InterestConnectNow \/ InterestPing
    BY <1>c, <2>1
    DEF InterestWrap, InterestConnect, InterestConnectNow, InterestPing, MayConnect, MayPoll,
        States, Unrecoverable
  <2>2. CASE InterestConnectFails \/ InterestTimeout
    BY <1>e, <2>2 DEF InterestConnectFails, InterestTimeout, Codes
  <2> QED
    BY <1>1, <2>1, <2>2 DEF Interest
<1>2. CASE CheckEvents
  <2>1. CASE \/ ProcessConnected \/ ProcessWrite \/ ProcessNothing \/ ProcessRead
             \/ ProcessEstablished
    BY <1>c, <2>1
    DEF ProcessConnected, ProcessWrite, ProcessNothing, ProcessRead, ProcessEstablished,
        Readable, MayPoll, States, Unrecoverable
  <2>2. CASE ProcessFails \/ ProcessExpired
    BY <1>e, <2>2 DEF ProcessFails, ProcessExpired, Codes
  <2> QED
    BY <1>2, <2>1, <2>2 DEF CheckEvents
<1>3. CASE Continue
  <2>1. CASE CheckEventsTail \/ CompletionsDone \/ WatcherReturns
    BY <1>f, <2>1 DEF CheckEventsTail, CompletionsDone, WatcherReturns, TopIs
  <2>2. CASE ProcessDone
    <3>1. stack # <<>> /\ Top.fn = "process" /\ stack' = Push(Below, "completions")
          /\ UNCHANGED <<state, toProcess, fd>>
      BY <2>2 DEF ProcessDone, TopIs
    <3>2. CASE IsUnrecoverable /\ fd # "NoFd"
      <4>1. CleanupPending(Below)
        BY <1>a, <1>d, <3>1, <3>2, CleanupPop DEF LossInv
      <4>2. CleanupPending(stack')
        BY <1>d, <3>1, <4>1, CleanupPush
      <4> QED
        BY <4>2 DEF LossInv
    <3>3. CASE ~ (IsUnrecoverable /\ fd # "NoFd")
      BY <2>2, <3>1, <3>3 DEF LossInv, IsUnrecoverable, ProcessDone
    <3> QED
      BY <3>2, <3>3
  <2>3. CASE RunCompletion
    BY <1>b, <2>3 DEF RunCompletion
  <2>4. CASE RunWatcher
    <3>1. stack' = Push(stack, "watcher") /\ UNCHANGED <<state, toProcess, fd>>
      BY <2>4 DEF RunWatcher
    <3> QED
      BY <1>a, <3>1, CleanupPush DEF LossInv, IsUnrecoverable
  <2>5. CASE ProcessIgnored \/ ProcessEvent \/ ProcessReply
    <3>1. TopIs("process") /\ toProcess # <<>> /\ UNCHANGED state
      BY <2>5 DEF ProcessIgnored, ProcessEvent, ProcessReply, ReplyReceived, Received
    <3> QED
      BY <1>c, <3>1, NothingProcessed
  <2>6. CASE ProcessAfterClose
    <3>1. TopIs("process") /\ toProcess # <<>> /\ UNCHANGED state
      BY <2>6 DEF ProcessAfterClose, ReplyReceived, Received
    <3> QED
      BY <1>c, <3>1, NothingProcessed
  <2>7. CASE ProcessAuth
    <3>1. TopIs("process") /\ toProcess # <<>> /\ stack # <<>>
      BY <2>7 DEF ProcessAuth, Received, TopIs
    <3>2. CASE Head(toProcess).ok
      <4>1. UNCHANGED state
        BY <2>7, <3>2 DEF ProcessAuth
      <4> QED
        BY <1>c, <3>1, <4>1, NothingProcessed
    <3>3. CASE ~ Head(toProcess).ok
      BY <1>h, <2>7, <3>1, <3>3 DEF ProcessAuth, Codes
    <3> QED
      BY <3>2, <3>3
  <2>8. CASE ProcessOutOfOrder
    <3>1. stack # <<>>
      BY <2>8 DEF ProcessOutOfOrder, ReplyReceived, Received, TopIs
    <3> QED
      BY <1>h, <2>8, <3>1 DEF ProcessOutOfOrder, Codes
  <2>9. CASE HandleErrorTail
    BY <1>g, <2>9 DEF HandleErrorTail, CleanupBufs
  <2>10. CASE Epilog
    <3>1. CASE CloseDue
      BY <1>g, <2>10, <3>1 DEF Epilog, Destroy, CleanupBufs
    <3>2. CASE ~ CloseDue
      BY <1>f, <2>10, <3>2 DEF Epilog, TopIs
    <3> QED
      BY <3>1, <3>2
  <2> QED
    BY <1>3, <2>1, <2>2, <2>3, <2>4, <2>5, <2>6, <2>7, <2>8, <2>9, <2>10 DEF Continue
<1>4. CASE Api
  <2>1. CASE Submit \/ SubmitRefused \/ AddAuth \/ CloseInCallback
    BY <1>b, <2>1 DEF Submit, SubmitRefused, AddAuth, CloseInCallback
  <2>2. CASE CloseAtTop
    BY <1>g, <2>2 DEF CloseAtTop, Destroy, CleanupBufs
  <2> QED
    BY <1>4, <2>1, <2>2 DEF Api
<1>5. CASE Environment
  BY <1>5, <1>b DEF Environment, ServerStep, ServerEvent, PeerFails
<1>6. CASE UNCHANGED vars
  BY <1>6, <1>b DEF vars
<1> QED
  BY <1>1, <1>2, <1>3, <1>4, <1>5, <1>6 DEF Next

\* What a step does to the session's state.
LEMMA LossFinalStep == LossStrict /\ [Next]_vars => (IsUnrecoverable /\ ~freed => state' = state)
<1> USE DEF queues, session, lifetime, history, network
<1> SUFFICES ASSUME LossStrict, [Next]_vars, IsUnrecoverable, ~freed
             PROVE  state' = state
  OBVIOUS
<1>1. CASE Interest \/ CheckEvents
  BY <1>1
  DEF Interest, InterestWrap, InterestConnect, InterestConnectNow, InterestConnectFails,
      InterestTimeout, InterestPing, MayConnect, CheckEvents, ProcessConnected, ProcessFails,
      ProcessWrite, ProcessNothing, ProcessRead, ProcessEstablished, ProcessExpired, Readable,
      MayPoll
<1>2. CASE Continue
  <2>1. CASE \/ CheckEventsTail \/ ProcessDone \/ ProcessIgnored \/ ProcessEvent
             \/ ProcessReply \/ ProcessAfterClose \/ RunCompletion \/ RunWatcher
             \/ CompletionsDone \/ WatcherReturns
    BY <2>1
    DEF CheckEventsTail, ProcessDone, ProcessIgnored, ProcessEvent, ProcessReply,
        ProcessAfterClose, RunCompletion, RunWatcher, CompletionsDone, WatcherReturns
  <2>2. CASE ProcessAuth \/ ProcessOutOfOrder
    BY <2>2, NothingProcessed DEF ProcessAuth, ProcessOutOfOrder, ReplyReceived, Received
  <2>3. CASE HandleErrorTail
    BY <2>3 DEF HandleErrorTail, StateAfterError
  <2>4. CASE Epilog
    <3>1. CASE CloseDue
      <4>1. fd = "NoFd"
        BY <2>4, <3>1, DestroyedClean DEF Epilog
      <4> QED
        BY <2>4, <3>1, <4>1 DEF Epilog, Destroy
    <3>2. CASE ~ CloseDue
      BY <2>4, <3>2 DEF Epilog
    <3> QED
      BY <3>1, <3>2
  <2> QED
    BY <1>2, <2>1, <2>2, <2>3, <2>4 DEF Continue
<1>3. CASE Api
  <2>1. CASE Submit \/ SubmitRefused \/ AddAuth \/ CloseInCallback
    BY <2>1 DEF Submit, SubmitRefused, AddAuth, CloseInCallback
  <2>2. CASE CloseAtTop
    <3>1. fd = "NoFd"
      BY <2>2, DestroyedClean DEF CloseAtTop
    <3> QED
      BY <2>2, <3>1 DEF CloseAtTop, Destroy
  <2> QED
    BY <1>3, <2>1, <2>2 DEF Api
<1>4. CASE Environment \/ UNCHANGED vars
  BY <1>4 DEF Environment, ServerStep, ServerEvent, PeerFails, vars
<1> QED
  BY <1>1, <1>2, <1>3, <1>4 DEF Next

LEMMA LossInit == Init => LossInv
BY DEF Init, LossInv, IsUnrecoverable, Unrecoverable

\* Expiry and authentication failure are final, although packets that were
\* received before them may still wait to be processed.
THEOREM LossFinal == Spec => LossIsFinal
<1>1. LossStrict /\ [Next]_vars => LossStrict'
  BY TypeStep, StackStep, LossStep DEF LossStrict
<1>2. Init => LossStrict
  BY TypeInit, StackInit, LossInit DEF LossStrict
<1>3. LossStrict /\ [Next]_vars => [IsUnrecoverable /\ ~freed => state' = state]_vars
  BY LossFinalStep
<1> QED
  BY <1>1, <1>2, <1>3, PTL DEF Spec, LossIsFinal

-----------------------------------------------------------------------------
(* The handle keeps its promise                                            *)

\* The session as the application sees it.
Phase == IF freed THEN IF Unanswered THEN "dropped" ELSE "closed"
         ELSE IF IsUnrecoverable THEN "lost" ELSE "live"

Strict == LossStrict /\ RequestLedger

LEMMA PromiseInit == Init => Promise!Init
BY DEF Init, Promise!Init, Unanswered, IsUnrecoverable, Unrecoverable

LEMMA PromiseStep == Strict /\ [Next]_vars => [Promise!Next]_(Promise!vars)
<1> USE DEF queues, session, lifetime, history, network
<1> SUFFICES ASSUME Strict, [Next]_vars
             PROVE  [Promise!Next]_(Promise!vars)
  OBVIOUS
<1>a. TypeOK /\ StackInv /\ LossInv /\ RequestLedger /\ LossStrict
  BY DEF Strict, LossStrict
\* No more requests are answered than were made.
<1>z. Len(callbacks) \in Nat /\ nextXid \in Nat /\ Len(callbacks) <= nextXid - 1
  <2>1. Len(callbacks) \in Nat /\ Len(sentRequests) \in Nat /\ nextXid \in Nat
    BY <1>a, QueueFacts
  <2>2. Len(callbacks) < nextXid - Len(sentRequests)
    BY <1>a DEF RequestLedger, LedgerCount, FirstSent
  <2> QED
    BY <2>1, <2>2
<1>b. ASSUME UNCHANGED <<nextXid, callbacks>>, Phase' = Phase
      PROVE  UNCHANGED Promise!vars
  BY <1>b DEF Promise!vars, Phase
<1>c. ASSUME UNCHANGED <<nextXid, callbacks, state, freed>>
      PROVE  UNCHANGED Promise!vars
  BY <1>b, <1>c DEF Phase, IsUnrecoverable, Unanswered
<1>d. ASSUME UNCHANGED <<nextXid, callbacks, freed>>, ~ IsUnrecoverable,
             state' \in States \ Unrecoverable
      PROVE  UNCHANGED Promise!vars
  BY <1>b, <1>d DEF Phase, IsUnrecoverable, Unanswered
<1>e. ASSUME UNCHANGED <<nextXid, callbacks, freed>>, ~freed, ~ IsUnrecoverable,
             state' \in Unrecoverable
      PROVE  Promise!Next
  BY <1>e DEF Promise!Next, Promise!Lose, IsUnrecoverable
<1>f. ASSUME UNCHANGED <<nextXid, callbacks>>, ~freed, freed' = TRUE
      PROVE  Promise!Next
  <2>1. Unanswered' <=> Unanswered
    BY <1>f DEF Unanswered
  <2>2. ~Unanswered => Promise!Answered
    BY <1>z DEF Unanswered, Promise!Answered
  <2>3. Unanswered => ~Promise!Answered
    BY <1>z DEF Unanswered, Promise!Answered
  <2>4. CASE Unanswered
    BY <1>f, <2>1, <2>3, <2>4 DEF Promise!Next, Promise!Drop, Promise!Open
  <2>5. CASE ~Unanswered
    BY <1>f, <2>1, <2>2, <2>5 DEF Promise!Next, Promise!Close, Promise!Open
  <2> QED
    BY <2>4, <2>5
<1>g. ASSUME stack # <<>>
      PROVE  ~freed
  BY <1>a, <1>g DEF StackInv
<1>h. ASSUME NEW s, NEW rc, FailInApi(s, rc), s = state \/ s \in Unrecoverable, MayPoll
      PROVE  Promise!Next \/ UNCHANGED Promise!vars
  <2>1. ~freed /\ ~ IsUnrecoverable
    BY <1>h DEF MayPoll, UserTurn
  <2>2. state' = s /\ UNCHANGED <<nextXid, callbacks, freed>>
    BY <1>h DEF FailInApi, HandleError
  <2> QED
    BY <1>c, <1>e, <1>h, <2>1, <2>2
<1>1. CASE Interest
  <2>1. CASE InterestWrap \/ InterestPing
    BY <1>c, <2>1 DEF InterestWrap, InterestPing
  <2>2. CASE InterestConnect \/ InterestConnectNow
    BY <1>d, <2>2
    DEF InterestConnect, InterestConnectNow, MayConnect, MayPoll, States, Unrecoverable
  <2>3. CASE InterestConnectFails \/ InterestTimeout
    BY <1>h, <2>3 DEF InterestConnectFails, InterestTimeout, MayConnect
  <2> QED
    BY <1>1, <2>1, <2>2, <2>3 DEF Interest
<1>2. CASE CheckEvents
  <2>1. CASE ProcessWrite \/ ProcessNothing \/ ProcessRead
    BY <1>c, <2>1 DEF ProcessWrite, ProcessNothing, ProcessRead
  <2>2. CASE ProcessConnected \/ ProcessEstablished
    BY <1>d, <2>2
    DEF ProcessConnected, ProcessEstablished, Readable, MayPoll, States, Unrecoverable
  <2>3. CASE ProcessFails \/ ProcessExpired
    BY <1>h, <2>3 DEF ProcessFails, ProcessExpired, Readable, Unrecoverable
  <2> QED
    BY <1>2, <2>1, <2>2, <2>3 DEF CheckEvents
<1>3. CASE Continue
  <2>1. CASE \/ CheckEventsTail \/ ProcessDone \/ ProcessIgnored \/ ProcessEvent
             \/ ProcessReply \/ ProcessAfterClose \/ RunWatcher
             \/ CompletionsDone \/ WatcherReturns
    BY <1>c, <2>1
    DEF CheckEventsTail, ProcessDone, ProcessIgnored, ProcessEvent, ProcessReply,
        ProcessAfterClose, RunWatcher, CompletionsDone, WatcherReturns
  <2>2. CASE ProcessAuth
    <3>1. TopIs("process") /\ toProcess # <<>> /\ stack # <<>>
      BY <2>2 DEF ProcessAuth, Received, TopIs
    <3>2. ~ IsUnrecoverable
      BY <1>a, <3>1, NothingProcessed
    <3>3. UNCHANGED <<nextXid, callbacks, freed>>
      BY <2>2 DEF ProcessAuth
    <3>4. state' = state \/ state' \in Unrecoverable
      BY <2>2 DEF ProcessAuth, HandleError, Unrecoverable
    <3> QED
      BY <1>c, <1>e, <1>g, <3>1, <3>2, <3>3, <3>4
  <2>3. CASE ProcessOutOfOrder
    BY <1>c, <2>3 DEF ProcessOutOfOrder, HandleError
  <2>4. CASE RunCompletion
    <3> DEFINE h == Head(completionsToProcess)
    <3>1. /\ stack # <<>> /\ completionsToProcess # <<>> /\ h.kind = "reply"
          /\ completionsToProcess' = Tail(completionsToProcess)
          /\ callbacks' = Append(callbacks, [xid |-> h.id, rc |-> h.rc])
          /\ UNCHANGED <<sentRequests, nextXid, state, freed>>
      BY <2>4 DEF RunCompletion, TopIs
    <3>2. h.id = Len(callbacks) + 1 /\ Len(callbacks) + 1 < FirstSent
      BY <1>a, <3>1, LedgerRun
    <3>3. h \in Completions
      BY <1>a, <3>1, HeadTailProperties DEF TypeOK
    <3>4. h.rc \in Codes
      BY <3>3 DEF Completions
    <3>5. Len(callbacks) < nextXid - 1
      <4>1. /\ Len(callbacks) \in Nat /\ Len(sentRequests) \in Nat /\ nextXid \in Nat
            /\ FirstSent = nextXid - Len(sentRequests)
        BY <1>a, QueueFacts DEF FirstSent
      <4> QED
        BY <3>2, <4>1
    <3>6. ~freed /\ Phase' = Phase /\ Phase \in {"live", "lost"}
      BY <1>g, <3>1 DEF Phase, IsUnrecoverable
    <3>7. \E rc \in Codes : callbacks' = Append(callbacks, [xid |-> Len(callbacks) + 1, rc |-> rc])
      BY <3>1, <3>2, <3>4
    <3>8. Promise!Complete
      <4>1. ~Promise!Answered
        BY <1>z, <3>5 DEF Promise!Answered
      <4> QED
        BY <3>1, <3>6, <3>7, <4>1 DEF Promise!Complete, Promise!Open, Phase
    <3> QED
      BY <3>8 DEF Promise!Next
  <2>5. CASE HandleErrorTail
    <3>1. UNCHANGED <<nextXid, callbacks, freed>>
          /\ state' = IF IsUnrecoverable THEN state ELSE "ZERO"
      BY <2>5 DEF HandleErrorTail, StateAfterError
    <3>2. "ZERO" \in States \ Unrecoverable
      BY DEF States, Unrecoverable
    <3> QED
      BY <1>c, <1>d, <3>1, <3>2
  <2>6. CASE Epilog
    <3>1. CASE CloseDue
      BY <1>f, <1>g, <2>6, <3>1 DEF Epilog, TopIs, Destroy
    <3>2. CASE ~ CloseDue
      BY <1>c, <2>6, <3>2 DEF Epilog
    <3> QED
      BY <3>1, <3>2
  <2> QED
    BY <1>3, <2>1, <2>2, <2>3, <2>4, <2>5, <2>6 DEF Continue
<1>4. CASE Api
  <2>1. CASE Submit
    <3>1. /\ nextXid' = nextXid + 1 /\ ~freed /\ ~ IsUnrecoverable
          /\ UNCHANGED <<callbacks, state, freed>> /\ nextXid \in Nat
      BY <1>a, <2>1 DEF Submit, UserTurn, Accepts, TypeOK
    <3>2. Promise!Issue
      BY <3>1 DEF Promise!Issue, IsUnrecoverable
    <3> QED
      BY <3>2 DEF Promise!Next
  <2>2. CASE SubmitRefused \/ AddAuth \/ CloseInCallback
    BY <1>c, <2>2 DEF SubmitRefused, AddAuth, CloseInCallback
  <2>3. CASE CloseAtTop
    BY <1>f, <2>3 DEF CloseAtTop, UserTurn, Destroy
  <2> QED
    BY <1>4, <2>1, <2>2, <2>3 DEF Api
<1>5. CASE Environment
  BY <1>5, <1>c DEF Environment, ServerStep, ServerEvent, PeerFails
<1>6. CASE UNCHANGED vars
  BY <1>6, <1>c DEF vars
<1> QED
  BY <1>1, <1>2, <1>3, <1>4, <1>5, <1>6 DEF Next

\* The handle implements ZkPromise: each request is completed at most once, in
\* order, with a code; none is accepted after the session is lost; those that
\* are left when the handle is freed are dropped.
THEOREM Implements == Spec => KeepsPromise
<1>1. Strict /\ [Next]_vars => Strict'
  BY TypeStep, StackStep, LossStep, LedgerStep DEF Strict, LossStrict
<1>2. Init => Strict
  BY TypeInit, StackInit, LossInit, LedgerInit DEF Strict, LossStrict
<1> QED
  BY <1>1, <1>2, PromiseInit, PromiseStep, PTL DEF Spec, KeepsPromise, Promise!Spec
=============================================================================
