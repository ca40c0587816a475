------------------------ MODULE ZkHandle_flat_proof ------------------------
(***************************************************************************)
(* Theorems about ZkHandle for applications whose watchers do not poll the *)
(* handle (Reentrant is FALSE), for any number of servers, requests and    *)
(* credentials.  Watchers may still issue requests, add credentials and    *)
(* close the handle.  With watchers that poll, all of these invariants but *)
(* NothingOwedAfterLoss are violated: see the README.                      *)
(*                                                                         *)
(* The argument: API calls do not nest, so the stack is one chain of calls *)
(* (Nested), from which follow who may have closed the descriptor          *)
(* (Descriptor), how far connect_index runs (Index), and that a lost       *)
(* session leaves nothing behind (Settled).  The four queues a request     *)
(* passes through are four consecutive pieces of the line of outstanding   *)
(* requests (Lined), and a waiting credential is in one of them            *)
(* (WaitingTravels).                                                       *)
(***************************************************************************)
EXTENDS ZkHandle_proof

-----------------------------------------------------------------------------
(* The call stack while watchers do not poll                               *)

\* The functions that each function calls.
Calls == [epilog |-> {"process", "handleError", "completions"}, process |-> {"checkEvents"},
          checkEvents |-> {"completions"}, handleError |-> {"completions"},
          completions |-> {"watcher"}, watcher |-> {}]
Names == {"epilog", "process", "checkEvents", "handleError", "completions", "watcher"}

\* A stack on which every function has been called by the one below it.
Nested(s) ==
    /\ s # <<>> => s[1].fn = "epilog"
    /\ \A i \in 1 .. Len(s) - 1 : s[i + 1].fn \in Calls[s[i].fn]

On(f, s) == \E i \in 1 .. Len(s) : s[i].fn = f
LastOf(s) == s[Len(s)]

\* What the elements of a stack are.
LEMMA FrameFacts ==
    ASSUME NEW s \in Seq(Frames)
    PROVE  /\ Len(s) \in Nat /\ (s = <<>> <=> Len(s) = 0)
           /\ \A i \in 1 .. Len(s) : s[i] \in Frames /\ s[i].fn \in Names
<1>1. Len(s) \in Nat /\ \A i \in 1 .. Len(s) : s[i] \in Frames
  BY LenProperties, ElementOfSeq
<1>2. \A f \in Frames : f.fn \in Names
  BY DEF Frames, Names
<1> QED
  BY <1>1, <1>2, EmptySeq

\* Where each function stands.
LEMMA Places ==
    ASSUME NEW s \in Seq(Frames), Nested(s)
    PROVE  \A i \in 1 .. Len(s) :
               /\ s[i].fn = "epilog" <=> i = 1
               /\ s[i].fn \in {"process", "handleError"} => i = 2
               /\ s[i].fn = "checkEvents" => i = 3 /\ s[2].fn = "process"
<1>1. Len(s) \in Nat /\ (s = <<>> <=> Len(s) = 0) /\ \A i \in 1 .. Len(s) : s[i].fn \in Names
  BY FrameFacts
<1>2. \A f \in Names : /\ "epilog" \notin Calls[f]
                       /\ ("process" \in Calls[f] \/ "handleError" \in Calls[f]) => f = "epilog"
                       /\ "checkEvents" \in Calls[f] => f = "process"
  BY DEF Names, Calls
<1>3. \A i \in 2 .. Len(s) : /\ i - 1 \in 1 .. Len(s) - 1 /\ i - 1 \in 1 .. Len(s)
                             /\ s[i - 1].fn \in Names /\ s[i].fn \in Calls[s[i - 1].fn]
  <2> TAKE i \in 2 .. Len(s)
  <2>1. i - 1 \in 1 .. Len(s) - 1 /\ i - 1 \in 1 .. Len(s) /\ (i - 1) + 1 = i
    BY <1>1
  <2>2. s[(i - 1) + 1].fn \in Calls[s[i - 1].fn]
    BY <2>1 DEF Nested
  <2> QED
    BY <1>1, <2>1, <2>2
<1>4. \A i \in 1 .. Len(s) : s[i].fn = "epilog" <=> i = 1
  <2> TAKE i \in 1 .. Len(s)
  <2>1. CASE i = 1
    BY <1>1, <2>1 DEF Nested
  <2>2. CASE i # 1
    <3>1. i \in 2 .. Len(s)
      BY <1>1, <2>2
    <3> QED
      BY <1>2, <1>3, <2>2, <3>1
  <2> QED
    BY <2>1, <2>2
<1>5. \A i \in 1 .. Len(s) : s[i].fn \in {"process", "handleError"} => i = 2
  <2> SUFFICES ASSUME NEW i \in 1 .. Len(s), s[i].fn \in {"process", "handleError"} PROVE i = 2
    OBVIOUS
  <2>1. i \in 2 .. Len(s)
    BY <1>1, <1>4
  <2>2. s[i - 1].fn = "epilog" /\ i - 1 \in 1 .. Len(s)
    BY <1>2, <1>3, <2>1
  <2>3. i - 1 = 1
    BY <1>4, <2>2
  <2> QED
    BY <1>1, <2>1, <2>3
<1>6. \A i \in 1 .. Len(s) : s[i].fn = "checkEvents" => i = 3 /\ s[2].fn = "process"
  <2> SUFFICES ASSUME NEW i \in 1 .. Len(s), s[i].fn = "checkEvents"
               PROVE  i = 3 /\ s[2].fn = "process"
    OBVIOUS
  <2>1. i \in 2 .. Len(s)
    BY <1>1, <1>4
  <2>2. s[i - 1].fn = "process" /\ i - 1 \in 1 .. Len(s)
    BY <1>2, <1>3, <2>1
  <2>3. i - 1 = 2
    BY <1>5, <2>2
  <2> QED
    BY <1>1, <2>1, <2>2, <2>3
<1> QED
  BY <1>4, <1>5, <1>6

\* A call, and what is on the stack then.
LEMMA CallFacts ==
    ASSUME NEW s \in Seq(Frames), NEW f \in Frames, Nested(s),
           IF s = <<>> THEN f.fn = "epilog" ELSE f.fn \in Calls[LastOf(s).fn]
    PROVE  /\ Append(s, f) \in Seq(Frames) /\ Nested(Append(s, f)) /\ Append(s, f) # <<>>
           /\ LastOf(Append(s, f)) = f
           /\ \A g : On(g, Append(s, f)) <=> On(g, s) \/ f.fn = g
<1> DEFINE t == Append(s, f)
<1>1. /\ t \in Seq(Frames) /\ Len(t) = Len(s) + 1 /\ t # <<>>
      /\ \A i \in 1 .. Len(s) : t[i] = s[i]
      /\ t[Len(s) + 1] = f
  BY AppendProperties
<1>2. Len(s) \in Nat /\ (s = <<>> <=> Len(s) = 0)
  BY FrameFacts
<1> HIDE DEF t
<1>3. Nested(t)
  <2>1. t[1].fn = "epilog"
    <3>1. CASE s = <<>>
      BY <1>1, <1>2, <3>1
    <3>2. CASE s # <<>>
      BY <1>1, <1>2, <3>2 DEF Nested
    <3> QED
      BY <3>1, <3>2
  <2>2. ASSUME NEW i \in 1 .. Len(t) - 1
        PROVE  t[i + 1].fn \in Calls[t[i].fn]
    <3>1. CASE i = Len(s)
      <4>1. s # <<>> /\ t[i + 1] = f /\ t[i] = LastOf(s)
        BY <1>1, <1>2, <3>1 DEF LastOf
      <4> QED
        BY <4>1
    <3>2. CASE i # Len(s)
      <4>1. /\ i \in 1 .. Len(s) - 1 /\ i \in 1 .. Len(s) /\ i + 1 \in 1 .. Len(s)
        BY <1>1, <1>2, <3>2
      <4>2. t[i + 1] = s[i + 1] /\ t[i] = s[i]
        BY <1>1, <4>1
      <4> QED
        BY <4>1, <4>2 DEF Nested
    <3> QED
      BY <3>1, <3>2
  <2> QED
    BY <2>1, <2>2 DEF Nested
<1>4. LastOf(t) = f
  BY <1>1 DEF LastOf
<1>5. ASSUME NEW g
      PROVE  On(g, t) <=> On(g, s) \/ f.fn = g
  <2>1. ASSUME On(g, t) PROVE On(g, s) \/ f.fn = g
    <3>1. PICK i \in 1 .. Len(t) : t[i].fn = g
      BY <2>1 DEF On
    <3>2. CASE i \in 1 .. Len(s)
      BY <1>1, <3>1, <3>2 DEF On
    <3>3. CASE i = Len(s) + 1
      BY <1>1, <3>1, <3>3
    <3> QED
      BY <1>1, <1>2, <3>2, <3>3
  <2>2. ASSUME On(g, s) PROVE On(g, t)
    <3>1. PICK i \in 1 .. Len(s) : s[i].fn = g
      BY <2>2 DEF On
    <3>2. i \in 1 .. Len(t) /\ t[i].fn = g
      BY <1>1, <1>2, <3>1
    <3> QED
      BY <3>2 DEF On
  <2>3. ASSUME f.fn = g PROVE On(g, t)
    <3>1. Len(s) + 1 \in 1 .. Len(t)
      BY <1>1, <1>2
    <3> QED
      BY <1>1, <2>3, <3>1 DEF On
  <2> QED
    BY <2>1, <2>2, <2>3
<1> QED
  BY <1>1, <1>3, <1>4, <1>5 DEF t

\* A return, and what is on the stack then.
LEMMA ReturnFacts ==
    ASSUME NEW s \in Seq(Frames), Nested(s), s # <<>>
    PROVE  /\ Pop(s) \in Seq(Frames) /\ Nested(Pop(s))
           /\ LastOf(s) \in Frames /\ LastOf(s).fn \in Names
           /\ LastOf(s).fn = "epilog" <=> Pop(s) = <<>>
           /\ Pop(s) # <<>> => LastOf(s).fn \in Calls[LastOf(Pop(s)).fn]
           /\ \A g : On(g, s) <=> On(g, Pop(s)) \/ LastOf(s).fn = g
           /\ LastOf(s).fn \in {"process", "handleError"} =>
                  /\ Pop(s) # <<>> /\ LastOf(Pop(s)).fn = "epilog"
                  /\ \A g : On(g, Pop(s)) <=> g = "epilog"
           /\ LastOf(s).fn = "checkEvents" => LastOf(Pop(s)).fn = "process"
<1> DEFINE p == Pop(s)
<1>1. /\ p \in Seq(Frames) /\ Len(p) = Len(s) - 1 /\ Len(s) \in Nat \ {0}
      /\ \A i \in 1 .. Len(s) - 1 : p[i] = s[i]
  BY PopFacts DEF Pop
<1>2. /\ p = <<>> <=> Len(p) = 0
      /\ LastOf(s) \in Frames /\ LastOf(s).fn \in Names
  <2>1. Len(s) \in 1 .. Len(s)
    BY <1>1
  <2> QED
    BY <1>1, <2>1, FrameFacts DEF LastOf
<1> HIDE DEF p
<1>3. Nested(p)
  <2>1. ASSUME p # <<>> PROVE p[1].fn = "epilog"
    BY <1>1, <1>2, <2>1 DEF Nested
  <2>2. ASSUME NEW i \in 1 .. Len(p) - 1 PROVE p[i + 1].fn \in Calls[p[i].fn]
    <3>1. /\ i \in 1 .. Len(s) - 1 /\ i + 1 \in 1 .. Len(s) - 1
      BY <1>1
    <3>2. p[i + 1] = s[i + 1] /\ p[i] = s[i]
      BY <1>1, <3>1
    <3> QED
      BY <3>1, <3>2 DEF Nested
  <2> QED
    BY <2>1, <2>2 DEF Nested
<1>4. /\ LastOf(s).fn = "epilog" <=> Len(s) = 1
      /\ LastOf(s).fn \in {"process", "handleError"} => Len(s) = 2
  <2>1. Len(s) \in 1 .. Len(s)
    BY <1>1
  <2> QED
    BY <2>1, Places DEF LastOf
<1>5. LastOf(s).fn = "epilog" <=> p = <<>>
  BY <1>1, <1>2, <1>4
<1>6. ASSUME p # <<>> PROVE LastOf(s).fn \in Calls[LastOf(p).fn]
  <2>1. Len(p) \in 1 .. Len(s) - 1 /\ Len(p) + 1 = Len(s)
    BY <1>1, <1>2, <1>6
  <2>2. s[Len(p) + 1].fn \in Calls[s[Len(p)].fn] /\ p[Len(p)] = s[Len(p)]
    BY <1>1, <2>1 DEF Nested
  <2> QED
    BY <2>1, <2>2 DEF LastOf
<1>7. ASSUME NEW g PROVE On(g, s) <=> On(g, p) \/ LastOf(s).fn = g
  <2>1. ASSUME On(g, s) PROVE On(g, p) \/ LastOf(s).fn = g
    <3>1. PICK i \in 1 .. Len(s) : s[i].fn = g
      BY <2>1 DEF On
    <3>2. CASE i \in 1 .. Len(s) - 1
      BY <1>1, <3>1, <3>2 DEF On
    <3>3. CASE i = Len(s)
      BY <3>1, <3>3 DEF LastOf
    <3> QED
      BY <1>1, <3>2, <3>3
  <2>2. ASSUME On(g, p) PROVE On(g, s)
    <3>1. PICK i \in 1 .. Len(p) : p[i].fn = g
      BY <2>2 DEF On
    <3>2. i \in 1 .. Len(s) /\ s[i].fn = g
      BY <1>1, <3>1
    <3> QED
      BY <3>2 DEF On
  <2>3. ASSUME LastOf(s).fn = g PROVE On(g, s)
    <3>1. Len(s) \in 1 .. Len(s)
      BY <1>1
    <3> QED
      BY <2>3, <3>1 DEF On, LastOf
  <2> QED
    BY <2>1, <2>2, <2>3
<1>8. ASSUME LastOf(s).fn \in {"process", "handleError"}
      PROVE  /\ p # <<>> /\ LastOf(p).fn = "epilog"
             /\ \A g : On(g, p) <=> g = "epilog"
  <2>1. Len(p) = 1
    BY <1>1, <1>4, <1>8
  <2>2. p # <<>> /\ p[1].fn = "epilog"
    BY <1>2, <1>3, <2>1 DEF Nested
  <2>3. \A i \in 1 .. Len(p) : i = 1
    BY <2>1
  <2>4. 1 \in 1 .. Len(p)
    BY <2>1
  <2> QED
    BY <2>1, <2>2, <2>3, <2>4 DEF LastOf, On
<1>9. ASSUME LastOf(s).fn = "checkEvents" PROVE LastOf(p).fn = "process"
  <2>1. Len(s) = 3 /\ s[2].fn = "process"
    <3>1. Len(s) \in 1 .. Len(s)
      BY <1>1
    <3> QED
      BY <1>9, <3>1, Places DEF LastOf
  <2>2. Len(p) = 2 /\ p[2] = s[2]
    BY <1>1, <2>1
  <2> QED
    BY <2>1, <2>2 DEF LastOf
<1>10. /\ p \in Seq(Frames) /\ Nested(p)
       /\ LastOf(s) \in Frames /\ LastOf(s).fn \in Names
       /\ LastOf(s).fn = "epilog" <=> p = <<>>
       /\ p # <<>> => LastOf(s).fn \in Calls[LastOf(p).fn]
       /\ \A g : On(g, s) <=> On(g, p) \/ LastOf(s).fn = g
       /\ LastOf(s).fn \in {"process", "handleError"} =>
              /\ p # <<>> /\ LastOf(p).fn = "epilog"
              /\ \A g : On(g, p) <=> g = "epilog"
       /\ LastOf(s).fn = "checkEvents" => LastOf(p).fn = "process"
  BY <1>1, <1>2, <1>3, <1>5, <1>6, <1>7, <1>8, <1>9
<1> QED
  BY <1>10 DEF p

\* No function is suspended on the empty stack ...
LEMMA EmptyStack == \A g : ~On(g, <<>>)
<1>1. Len(<<>>) = 0
  OBVIOUS
<1> QED
  BY <1>1 DEF On

\* ... which is a stack of calls.
LEMMA NothingNested == Nested(<<>>) /\ <<>> \in Seq(Frames)
<1>1. Len(<<>>) = 0 /\ <<>> \in Seq(Frames)
  OBVIOUS
<1> QED
  BY <1>1 DEF Nested

\* A function is called.
LEMMA PushCall ==
    ASSUME NEW s \in Seq(Frames), Nested(s), NEW f \in Names,
           IF s = <<>> THEN f = "epilog" ELSE f \in Calls[LastOf(s).fn]
    PROVE  /\ Push(s, f) \in Seq(Frames) /\ Nested(Push(s, f)) /\ Push(s, f) # <<>>
           /\ LastOf(Push(s, f)).fn = f
           /\ \A g : On(g, Push(s, f)) <=> On(g, s) \/ f = g
<1>1. Frame(f) \in Frames /\ Frame(f).fn = f
  BY DEF Frame, Frames, Names, Codes
<1> QED
  BY <1>1, CallFacts DEF Push

\* An API call is entered at top level.
LEMMA Entered ==
    ASSUME stack = <<>>
    PROVE  /\ Push(stack, "epilog") \in Seq(Frames) /\ Nested(Push(stack, "epilog"))
           /\ Push(stack, "epilog") # <<>> /\ LastOf(Push(stack, "epilog")).fn = "epilog"
           /\ \A g : On(g, Push(stack, "epilog")) <=> g = "epilog"
<1>1. stack \in Seq(Frames) /\ Nested(stack) /\ \A g : ~On(g, stack)
  BY EmptyStack, NothingNested
<1>2. "epilog" \in Names
  BY DEF Names
<1> QED
  BY <1>1, <1>2, PushCall

\* The loop of zookeeper_process() is entered at top level.
LEMMA LoopEntered ==
    ASSUME stack = <<>>
    PROVE  LET s == Push(Push(stack, "epilog"), "process")
           IN  /\ s \in Seq(Frames) /\ Nested(s) /\ s # <<>> /\ LastOf(s).fn = "process"
               /\ \A g : On(g, s) <=> g \in {"epilog", "process"}
<1> DEFINE e == Push(stack, "epilog")
<1>1. /\ e \in Seq(Frames) /\ Nested(e) /\ e # <<>> /\ LastOf(e).fn = "epilog"
      /\ \A g : On(g, e) <=> g = "epilog"
  BY Entered
<1>2. "process" \in Names /\ "process" \in Calls["epilog"]
  BY DEF Names, Calls
<1> HIDE DEF e
<1>3. /\ Push(e, "process") \in Seq(Frames) /\ Nested(Push(e, "process")) /\ Push(e, "process") # <<>>
      /\ LastOf(Push(e, "process")).fn = "process"
      /\ \A g : On(g, Push(e, "process")) <=> On(g, e) \/ "process" = g
  BY <1>1, <1>2, PushCall
<1>4. \A g : On(g, Push(e, "process")) <=> g \in {"epilog", "process"}
  BY <1>1, <1>3
<1> QED
  BY <1>3, <1>4 DEF e

\* handle_error() is called by the epilog's function.
LEMMA ErrorFacts ==
    ASSUME NEW base \in Seq(Frames), Nested(base), base # <<>>, LastOf(base).fn = "epilog",
           NEW s, NEW rc \in Codes, HandleError(base, s, rc)
    PROVE  /\ Nested(stack') /\ stack' # <<>> /\ On("handleError", stack')
           /\ \A g : On(g, stack') => On(g, base) \/ g \in {"handleError", "completions"}
           /\ fd' = "Closed" /\ peer' = "none" /\ toServer' = <<>> /\ fromServer' = <<>>
<1> DEFINE f == [fn |-> "handleError", rc |-> rc]
           r == Append(base, f)
<1>1. f \in Frames /\ f.fn = "handleError" /\ "handleError" \in Calls["epilog"]
      /\ "completions" \in Calls["handleError"] /\ "completions" \in Names
  BY DEF Frames, Calls, Names
<1>2. stack' = r \/ stack' = Push(r, "completions")
  BY DEF HandleError
<1>3. fd' = "Closed" /\ peer' = "none" /\ toServer' = <<>> /\ fromServer' = <<>>
  BY DEF HandleError, CloseFd
<1> HIDE DEF f
<1>4. /\ r \in Seq(Frames) /\ Nested(r) /\ r # <<>> /\ LastOf(r) = f
      /\ \A g : On(g, r) <=> On(g, base) \/ f.fn = g
  BY <1>1, CallFacts
<1> HIDE DEF r
<1>5. /\ Nested(Push(r, "completions")) /\ Push(r, "completions") # <<>>
      /\ \A g : On(g, Push(r, "completions")) <=> On(g, r) \/ "completions" = g
  BY <1>1, <1>4, PushCall
<1> QED
  BY <1>1, <1>2, <1>3, <1>4, <1>5

\* flush_send_queue() sends nothing before the session is established, and nothing
\* on a socket that is not open.
LEMMA FlushNothing ==
    ASSUME TypeOK, NEW q \in Seq(Packets), FlushSendQueue(q), state # "CONNECTED" \/ fd # "Open"
    PROVE  toServer' = toServer
<1>1. PICK k \in 0 .. 0 : toServer' = toServer \o SubSeq(q, 1, k)
  BY DEF FlushSendQueue
<1>2. k = 0 /\ 0 \in 0 .. Len(q)
  <2>1. Len(q) \in Nat
    BY LenProperties
  <2> QED
    BY <2>1
<1>3. SubSeq(q, 1, 0) \in Seq(Packets) /\ Len(SubSeq(q, 1, 0)) = 0
  BY <1>2, CutFacts
<1>4. SubSeq(q, 1, 0) = <<>>
  BY <1>3, EmptySeq
<1>5. toServer \o <<>> = toServer
  BY DEF TypeOK
<1> QED
  BY <1>1, <1>2, <1>4, <1>5

-----------------------------------------------------------------------------
(* The descriptor and the connection under it                              *)

Descriptor ==
    /\ fd = "Closed" <=> On("handleError", stack)
    /\ On("process", stack) => fd = "Open"
    /\ fd # "Open" => peer = "none" /\ toServer = <<>> /\ fromServer = <<>>
    /\ On("checkEvents", stack) => inputBuffer = "NULL"

Index == connectIndex \in 0 .. NumServers /\ (fd # "NoFd" => connectIndex < NumServers)

FlatInv == Nested(stack) /\ Descriptor /\ Index

\* It holds at the start ...
LEMMA FlatInit == Init => FlatInv
<1> SUFFICES ASSUME Init PROVE FlatInv
  OBVIOUS
<1>1. Nested(stack) /\ \A g : ~On(g, stack)
  BY EmptyStack, NothingNested DEF Init
<1>2. Index
  BY HandleAssumption DEF Init, Index
<1> QED
  BY <1>1, <1>2 DEF Init, FlatInv, Descriptor

\* An API call at top level that fails in handle_error().
LEMMA FailInApiFlat ==
    ASSUME stack = <<>>, NEW s, NEW rc \in Codes, FailInApi(s, rc),
           connectIndex \in 0 .. NumServers, connectIndex < NumServers
    PROVE  FlatInv'
<1> DEFINE e == Push(stack, "epilog")
<1>1. /\ e \in Seq(Frames) /\ Nested(e) /\ e # <<>> /\ LastOf(e).fn = "epilog"
      /\ \A g : On(g, e) <=> g = "epilog"
  BY Entered
<1>2. HandleError(e, s, rc) /\ connectIndex' = connectIndex
  BY DEF FailInApi, session
<1> HIDE DEF e
<1>3. /\ Nested(stack') /\ stack' # <<>> /\ On("handleError", stack')
      /\ \A g : On(g, stack') => On(g, e) \/ g \in {"handleError", "completions"}
      /\ fd' = "Closed" /\ peer' = "none" /\ toServer' = <<>> /\ fromServer' = <<>>
  BY <1>1, <1>2, ErrorFacts
<1>4. ~On("process", stack') /\ ~On("checkEvents", stack')
  BY <1>1, <1>3
<1>5. Index'
  BY <1>2 DEF Index
<1> QED
  BY <1>3, <1>4, <1>5 DEF FlatInv, Descriptor

\* ... and after every step of a handle whose watchers do not poll it.
LEMMA FlatStep ==
    ASSUME ~Reentrant, TypeOK, StackInv, FlatInv, [Next]_vars
    PROVE  FlatInv'
<1> USE DEF queues, session, lifetime, history, network
<1>a. /\ stack \in Seq(Frames) /\ Nested(stack) /\ NumServers \in Nat \ {0}
      /\ connectIndex \in 0 .. NumServers /\ (fd # "NoFd" => connectIndex < NumServers)
      /\ toSend \in Seq(Packets) /\ nextXid \in Nat /\ fd \in {"NoFd", "Open", "Closed"}
      /\ fd = "Closed" <=> On("handleError", stack)
      /\ On("process", stack) => fd = "Open"
      /\ fd # "Open" => peer = "none" /\ toServer = <<>> /\ fromServer = <<>>
      /\ On("checkEvents", stack) => inputBuffer = "NULL"
  BY HandleAssumption DEF FlatInv, Descriptor, Index, TypeOK, FdStates
<1>m. ASSUME MayPoll PROVE stack = <<>> /\ \A g : ~On(g, stack)
  BY <1>m, EmptyStack DEF MayPoll
<1>q. /\ \A n \in Nat : Append(toSend, Packet("request", n)) \in Seq(Packets)
      /\ Append(toSend, Packet("ping", 0)) \in Seq(Packets)
  <2>1. Packet("ping", 0) \in Packets /\ \A n \in Nat : Packet("request", n) \in Packets
    BY DEF Packet, Packets
  <2> QED
    BY <1>a, <2>1, AppendProperties
\* What a return leaves.
<1>r. ASSUME stack # <<>>
      PROVE  /\ Below \in Seq(Frames) /\ Nested(Below) /\ Top.fn \in Names
             /\ Top.fn = "epilog" <=> Below = <<>>
             /\ Below # <<>> => Top.fn \in Calls[LastOf(Below).fn]
             /\ \A g : On(g, stack) <=> On(g, Below) \/ Top.fn = g
             /\ Top.fn \in {"process", "handleError"} =>
                    /\ Below # <<>> /\ LastOf(Below).fn = "epilog"
                    /\ \A g : On(g, Below) <=> g = "epilog"
             /\ Top.fn = "checkEvents" => LastOf(Below).fn = "process"
  BY <1>a, <1>r, ReturnFacts DEF Below, Top, Pop, LastOf
\* The stack and the descriptor stay.
<1>s. ASSUME UNCHANGED <<stack, fd, connectIndex>>,
             fd # "Open" => peer' = "none" /\ toServer' = <<>> /\ fromServer' = <<>>,
             inputBuffer' = inputBuffer \/ stack = <<>>
      PROVE  FlatInv'
  BY <1>s, <1>a, EmptyStack DEF FlatInv, Descriptor, Index
\* A function returns that is not handle_error(), or one is called.
<1>t. ASSUME UNCHANGED <<fd, connectIndex>>, Nested(stack'),
             fd # "Open" => peer' = "none" /\ toServer' = <<>> /\ fromServer' = <<>>,
             On("handleError", stack') <=> On("handleError", stack),
             On("process", stack') => On("process", stack),
             On("checkEvents", stack') => On("checkEvents", stack),
             inputBuffer' = inputBuffer \/ ~On("checkEvents", stack')
      PROVE  FlatInv'
  BY <1>t, <1>a DEF FlatInv, Descriptor, Index
\* The loop of zookeeper_process() is entered.
<1>l. ASSUME MayPoll, fd' = "Open", fd = "Open", connectIndex' = connectIndex, ToProcessLoop
      PROVE  FlatInv'
  <2> DEFINE s == Push(Push(stack, "epilog"), "process")
  <2>1. /\ s \in Seq(Frames) /\ Nested(s)
        /\ \A g : On(g, s) <=> g \in {"epilog", "process"}
    BY <1>l, <1>m, LoopEntered
  <2>2. stack' = s
    BY <1>l DEF ToProcessLoop
  <2> HIDE DEF s
  <2> QED
    BY <1>l, <1>a, <2>1, <2>2 DEF FlatInv, Descriptor, Index
<1>e. ASSUME MayPoll, NEW s, NEW rc \in Codes, FailInApi(s, rc), connectIndex < NumServers
      PROVE  FlatInv'
  BY <1>e, <1>a, <1>m, FailInApiFlat
<1>1. CASE InterestWrap
  <2>1. connectIndex' = 0 /\ fd = "NoFd"
    BY <1>1 DEF InterestWrap
  <2>2. 0 \in 0 .. NumServers
    BY <1>a
  <2> QED
    BY <1>1, <1>a, <2>1, <2>2 DEF InterestWrap, FlatInv, Descriptor, Index
<1>x. ASSUME MayConnect PROVE MayPoll /\ fd = "NoFd" /\ connectIndex < NumServers
  <2>1. MayPoll /\ fd = "NoFd" /\ connectIndex # NumServers
    BY <1>x DEF MayConnect, AllTried
  <2> QED
    BY <1>a, <2>1
<1>2. CASE InterestConnect \/ InterestConnectNow
  <2>1. MayConnect /\ fd' = "Open" /\ UNCHANGED <<stack, connectIndex>>
    BY <1>2 DEF InterestConnect, InterestConnectNow
  <2>2. stack = <<>> /\ \A g : ~On(g, stack)
    BY <1>m, <1>x, <2>1
  <2> QED
    BY <1>a, <1>x, <2>1, <2>2 DEF FlatInv, Descriptor, Index
<1>3. CASE InterestConnectFails
  BY <1>3, <1>e, <1>x DEF InterestConnectFails, Codes
<1>4. CASE InterestTimeout
  BY <1>4, <1>e, <1>a DEF InterestTimeout, Codes
<1>5. CASE InterestPing
  <2>1. /\ FlushSendQueue(Append(toSend, Packet("ping", 0)))
        /\ UNCHANGED <<stack, fd, connectIndex, peer, fromServer, inputBuffer>>
    BY <1>5 DEF InterestPing
  <2> QED
    BY <1>a, <1>q, <1>s, <2>1, FlushNothing
<1>6. CASE ProcessConnected
  BY <1>6, <1>l DEF ProcessConnected
<1>7. CASE ProcessFails
  BY <1>7, <1>e, <1>a DEF ProcessFails, Codes
<1>8. CASE ProcessWrite
  <2>1. fd = "Open"
    BY <1>8, <1>a, <1>m DEF ProcessWrite
  <2> QED
    BY <1>8, <1>l, <2>1 DEF ProcessWrite
<1>9. CASE ProcessNothing
  <2>1. /\ MayPoll /\ fd = "Open"
        /\ UNCHANGED <<stack, fd, connectIndex>>
    BY <1>9 DEF ProcessNothing
  <2> QED
    BY <1>m, <1>s, <2>1
<1>10. CASE ProcessRead
  BY <1>10, <1>l DEF ProcessRead, Readable
<1>11. CASE ProcessEstablished
  <2> DEFINE s == Push(Push(stack, "epilog"), "process")
  <2>1. /\ MayPoll /\ fd = "Open" /\ inputBuffer' = "NULL" /\ UNCHANGED <<fd, connectIndex>>
        /\ stack' = Push(Push(s, "checkEvents"), "completions")
    BY <1>11 DEF ProcessEstablished, Readable
  <2>2. /\ s \in Seq(Frames) /\ Nested(s) /\ s # <<>> /\ LastOf(s).fn = "process"
        /\ \A g : On(g, s) <=> g \in {"epilog", "process"}
    BY <1>m, <2>1, LoopEntered
  <2> HIDE DEF s
  <2> DEFINE u == Push(s, "checkEvents")
  <2>3. /\ "checkEvents" \in Names /\ "completions" \in Names
        /\ "checkEvents" \in Calls["process"] /\ "completions" \in Calls["checkEvents"]
    BY DEF Names, Calls
  <2>4. /\ u \in Seq(Frames) /\ Nested(u) /\ u # <<>> /\ LastOf(u).fn = "checkEvents"
        /\ \A g : On(g, u) <=> On(g, s) \/ "checkEvents" = g
    BY <2>2, <2>3, PushCall
  <2>5. stack' = Push(u, "completions")
    BY <2>1
  <2> HIDE DEF u
  <2>6. /\ Nested(stack')
        /\ \A g : On(g, stack') <=> On(g, u) \/ "completions" = g
    BY <2>3, <2>4, <2>5, PushCall
  <2>7. ~On("handleError", stack')
    BY <2>2, <2>4, <2>6
  <2> QED
    BY <1>a, <2>1, <2>6, <2>7 DEF FlatInv, Descriptor, Index
<1>12. CASE ProcessExpired
  BY <1>12, <1>e, <1>a DEF ProcessExpired, Readable, Codes
<1>13. CASE CheckEventsTail
  <2>1. /\ stack # <<>> /\ Top.fn = "checkEvents" /\ stack' = Below
        /\ UNCHANGED <<fd, connectIndex, toServer>>
        /\ inputBuffer' = "NULL"
    BY <1>13 DEF CheckEventsTail, TopIs
  <2>2. inputBuffer = "NULL"
    BY <1>a, <1>r, <2>1
  <2>3. UNCHANGED <<peer, fromServer>>
    BY <1>13, <2>2 DEF CheckEventsTail, CutShort
  <2> QED
    BY <1>a, <1>r, <2>1, <2>3 DEF FlatInv, Descriptor, Index
<1>14. CASE ProcessDone
  <2>1. /\ stack # <<>> /\ Top.fn = "process" /\ stack' = Push(Below, "completions")
        /\ UNCHANGED <<fd, connectIndex, network, inputBuffer>>
    BY <1>14 DEF ProcessDone, TopIs
  <2>2. "completions" \in Names /\ "completions" \in Calls["epilog"]
    BY DEF Names, Calls
  <2>3. /\ Nested(stack') /\ \A g : On(g, stack') <=> On(g, Below) \/ "completions" = g
    BY <1>r, <2>1, <2>2, PushCall
  <2>4. /\ Nested(stack')
        /\ On("handleError", stack') <=> On("handleError", stack)
        /\ On("process", stack') => On("process", stack)
        /\ On("checkEvents", stack') => On("checkEvents", stack)
    BY <1>r, <2>1, <2>3
  <2> QED
    BY <1>a, <1>t, <2>1, <2>4
<1>15. CASE ProcessIgnored \/ ProcessEvent \/ ProcessReply \/ RunCompletion
  <2>1. UNCHANGED <<stack, fd, connectIndex, network, inputBuffer>>
    BY <1>15 DEF ProcessIgnored, ProcessEvent, ProcessReply, RunCompletion
  <2> QED
    BY <1>a, <1>s, <2>1
\* handle_error() from the loop.
<1>h. ASSUME TopIs("process"), NEW s, NEW rc \in Codes, HandleError(Below, s, rc),
             UNCHANGED <<connectIndex, inputBuffer>>
      PROVE  FlatInv'
  <2>1. stack # <<>> /\ Top.fn = "process"
    BY <1>h DEF TopIs
  <2>2. fd = "Open"
    BY <1>a, <1>r, <2>1
  <2>3. /\ Below \in Seq(Frames) /\ Nested(Below) /\ Below # <<>> /\ LastOf(Below).fn = "epilog"
        /\ \A g : On(g, Below) <=> g = "epilog"
    BY <1>r, <2>1
  <2>4. /\ Nested(stack') /\ stack' # <<>> /\ On("handleError", stack')
        /\ \A g : On(g, stack') => On(g, Below) \/ g \in {"handleError", "completions"}
        /\ fd' = "Closed" /\ peer' = "none" /\ toServer' = <<>> /\ fromServer' = <<>>
    BY <1>h, <2>3, ErrorFacts
  <2>5. ~On("process", stack') /\ ~On("checkEvents", stack')
    BY <2>3, <2>4
  <2> QED
    BY <1>a, <1>h, <2>2, <2>4, <2>5 DEF FlatInv, Descriptor, Index
<1>16. CASE ProcessAuth
  <2>1. CASE Head(toProcess).ok
    <3>1. UNCHANGED <<stack, fd, connectIndex, network, inputBuffer>>
      BY <1>16, <2>1 DEF ProcessAuth
    <3> QED
      BY <1>a, <1>s, <3>1
  <2>2. CASE ~Head(toProcess).ok
    <3>1. /\ TopIs("process") /\ HandleError(Below, "AUTH_FAILED", "ZAUTHFAILED")
          /\ UNCHANGED <<connectIndex, inputBuffer>>
      BY <1>16, <2>2 DEF ProcessAuth, Received
    <3>2. "ZAUTHFAILED" \in Codes
      BY DEF Codes
    <3> QED
      BY <1>h, <3>1, <3>2
  <2> QED
    BY <2>1, <2>2
<1>17. CASE ProcessOutOfOrder
  <2>1. /\ TopIs("process") /\ HandleError(Below, state, "ZRUNTIMEINCONSISTENCY")
        /\ UNCHANGED <<connectIndex, inputBuffer>>
    BY <1>17 DEF ProcessOutOfOrder, ReplyReceived, Received
  <2>2. "ZRUNTIMEINCONSISTENCY" \in Codes
    BY DEF Codes
  <2> QED
    BY <1>h, <2>1, <2>2
<1>18. CASE ProcessAfterClose \/ CompletionsDone \/ WatcherReturns
  <2>1. /\ stack # <<>> /\ Top.fn \in {"process", "completions", "watcher"} /\ stack' = Below
        /\ UNCHANGED <<fd, connectIndex, network, inputBuffer>>
    BY <1>18 DEF ProcessAfterClose, CompletionsDone, WatcherReturns, TopIs, ReplyReceived, Received
  <2>2. /\ Nested(stack')
        /\ On("handleError", stack') <=> On("handleError", stack)
        /\ On("process", stack') => On("process", stack)
        /\ On("checkEvents", stack') => On("checkEvents", stack)
    BY <1>r, <2>1
  <2> QED
    BY <1>a, <1>t, <2>1, <2>2
<1>19. CASE RunWatcher
  <2>1. /\ stack # <<>> /\ Top.fn = "completions" /\ stack' = Push(stack, "watcher")
        /\ UNCHANGED <<fd, connectIndex, network, inputBuffer>>
    BY <1>19 DEF RunWatcher, TopIs
  <2>2. "watcher" \in Names /\ "watcher" \in Calls["completions"] /\ LastOf(stack).fn = "completions"
    BY <2>1 DEF Names, Calls, LastOf, Top
  <2>3. /\ Nested(stack') /\ \A g : On(g, stack') <=> On(g, stack) \/ "watcher" = g
    BY <1>a, <2>1, <2>2, PushCall
  <2> QED
    BY <1>a, <1>t, <2>1, <2>3
<1>20. CASE HandleErrorTail
  <2>1. /\ stack # <<>> /\ Top.fn = "handleError" /\ stack' = Push(Below, "completions")
        /\ fd' = "NoFd" /\ peer' = "none" /\ toServer' = <<>> /\ fromServer' = <<>>
        /\ connectIndex' = connectIndex + 1
    BY <1>20 DEF HandleErrorTail, TopIs
  <2>2. "completions" \in Names /\ "completions" \in Calls["epilog"]
    BY DEF Names, Calls
  <2>3. /\ Nested(stack') /\ \A g : On(g, stack') <=> On(g, Below) \/ "completions" = g
    BY <1>r, <2>1, <2>2, PushCall
  <2>4. ~On("handleError", stack') /\ ~On("process", stack') /\ ~On("checkEvents", stack')
    BY <1>r, <2>1, <2>3
  <2>5. fd = "Closed"
    BY <1>a, <1>r, <2>1
  <2>6. connectIndex' \in 0 .. NumServers
    <3>1. connectIndex < NumServers
      BY <1>a, <2>5
    <3> QED
      BY <1>a, <2>1, <3>1
  <2> QED
    BY <2>1, <2>3, <2>4, <2>6 DEF FlatInv, Descriptor, Index
\* destroy() at top level.
<1>d. ASSUME Destroy, \A g : ~On(g, stack'), Nested(stack'), connectIndex' = connectIndex
      PROVE  FlatInv'
  <2>1. fd' = "NoFd" /\ peer' = "none" /\ toServer' = <<>> /\ fromServer' = <<>>
    BY <1>d DEF Destroy
  <2> QED
    BY <1>d, <1>a, <2>1 DEF FlatInv, Descriptor, Index
<1>21. CASE Epilog
  <2>1. stack # <<>> /\ Top.fn = "epilog" /\ stack' = Below /\ connectIndex' = connectIndex
    BY <1>21 DEF Epilog, TopIs
  <2>2. stack' = <<>> /\ (\A g : ~On(g, stack')) /\ Nested(stack')
    BY <1>r, <2>1, EmptyStack, NothingNested
  <2>3. CASE CloseDue
    <3>1. Destroy
      BY <1>21, <2>3 DEF Epilog
    <3> QED
      BY <1>d, <2>1, <2>2, <3>1
  <2>4. CASE ~CloseDue
    <3>1. UNCHANGED <<fd, network, inputBuffer>>
      BY <1>21, <2>4 DEF Epilog
    <3>2. ~On("handleError", stack)
      BY <1>r, <2>1, <2>2
    <3> QED
      BY <1>a, <1>t, <2>1, <2>2, <3>1, <3>2
  <2> QED
    BY <2>3, <2>4
<1>22. CASE CloseInCallback
  <2>1. UNCHANGED <<stack, fd, connectIndex, network, inputBuffer>>
    BY <1>22 DEF CloseInCallback
  <2> QED
    BY <1>a, <1>s, <2>1
<1>23. CASE CloseAtTop
  <2>1. Destroy /\ UNCHANGED <<stack, connectIndex>>
    BY <1>23 DEF CloseAtTop
  <2>2. stack = <<>>
    BY <1>23, <1>a, CountFacts DEF CloseAtTop, NotInUse, UserTurn, StackInv
  <2> QED
    BY <1>d, <2>1, <2>2, EmptyStack, NothingNested
<1>24. CASE Submit
  <2>1. /\ FlushSendQueue(Append(toSend, Packet("request", nextXid)))
        /\ UNCHANGED <<stack, fd, connectIndex, peer, fromServer, inputBuffer>>
    BY <1>24 DEF Submit
  <2> QED
    BY <1>a, <1>q, <1>s, <2>1, FlushNothing
<1>25. CASE SubmitRefused
  <2>1. /\ FlushSendQueue(toSend)
        /\ UNCHANGED <<stack, fd, connectIndex, peer, fromServer, inputBuffer>>
    BY <1>25 DEF SubmitRefused
  <2> QED
    BY <1>a, <1>s, <2>1, FlushNothing
<1>26. CASE AddAuth
  <2>1. UNCHANGED <<stack, fd, connectIndex, network, inputBuffer>>
    BY <1>26 DEF AddAuth
  <2> QED
    BY <1>a, <1>s, <2>1
<1>27. CASE Environment
  <2>1. peer # "none"
    BY <1>27 DEF Environment, ServerStep, ServerEvent, PeerFails
  <2>2. UNCHANGED <<stack, fd, connectIndex, inputBuffer>>
    BY <1>27 DEF Environment, ServerStep, ServerEvent, PeerFails
  <2> QED
    BY <1>a, <1>s, <2>1, <2>2
<1>28. CASE UNCHANGED vars
  BY <1>28, <1>a, <1>s DEF vars
<1> QED
  BY <1>1, <1>2, <1>3, <1>4, <1>5, <1>6, <1>7, <1>8, <1>9, <1>10, <1>11, <1>12, <1>13, <1>14,
     <1>15, <1>16, <1>17, <1>18, <1>19, <1>20, <1>21, <1>22, <1>23, <1>24, <1>25, <1>26, <1>27,
     <1>28
  DEF Next, Interest, CheckEvents, Continue, Api

-----------------------------------------------------------------------------
(* The session is lost for good                                            *)

Answered == \A i \in DOMAIN authList : authList[i] # "waiting"
Settled ==
    IsUnrecoverable /\ fd # "Closed" =>
        /\ sentRequests = <<>> /\ toSend = <<>> /\ fd = "NoFd" /\ Answered
        /\ completionsToProcess # <<>> => On("completions", stack)

\* When the pending auth completions are called none is left waiting.
LEMMA AuthAnswers ==
    ASSUME TypeOK, NEW rc \in Codes, CallAuthCompletions(rc)
    PROVE  Answered'
<1>1. Len(authList) \in Nat /\ rc # "waiting"
  BY LenProperties DEF TypeOK, Codes
<1>2. DOMAIN authList' = 1 .. Len(authList)
  BY DEF CallAuthCompletions
<1>3. \A i \in 1 .. Len(authList) : authList'[i] # "waiting"
  BY <1>1 DEF CallAuthCompletions
<1> QED
  BY <1>2, <1>3 DEF Answered

\* free_completions() fakes no reply when no request is outstanding.
LEMMA NoFakes == ASSUME TypeOK, sentRequests = <<>>, NEW rc \in Codes, FreeCompletions(rc)
                 PROVE  completionsToProcess' = completionsToProcess /\ sentRequests' = <<>>
<1>1. FakedReplies(rc) \in Seq(Completions) /\ Len(FakedReplies(rc)) = Len(sentRequests)
  BY FakedType
<1>2. Len(sentRequests) = 0
  BY EmptySeq DEF TypeOK
<1>3. FakedReplies(rc) = <<>>
  BY <1>1, <1>2, EmptySeq
<1>4. completionsToProcess' = completionsToProcess \o <<>>
  BY <1>3 DEF FreeCompletions
<1>5. completionsToProcess \o <<>> = completionsToProcess
  BY DEF TypeOK
<1> QED
  BY <1>4, <1>5 DEF FreeCompletions

\* Every step that loses the session settles what is left of it.
LEMMA SettledStep ==
    ASSUME ~Reentrant, TypeOK, StackInv, FlatInv, Settled, [Next]_vars
    PROVE  Settled'
<1> USE DEF queues, session, lifetime, history, network
<1>a. /\ stack \in Seq(Frames) /\ Nested(stack)
      /\ On("process", stack) => fd = "Open"
      /\ fd = "Closed" <=> On("handleError", stack)
  BY DEF FlatInv, Descriptor, TypeOK
<1>m. ASSUME MayPoll PROVE ~IsUnrecoverable
  BY <1>m DEF MayPoll
<1>r. ASSUME stack # <<>>
      PROVE  /\ Below \in Seq(Frames) /\ Nested(Below)
             /\ Top.fn = "epilog" <=> Below = <<>>
             /\ \A g : On(g, stack) <=> On(g, Below) \/ Top.fn = g
             /\ Top.fn \in {"process", "handleError"} => Below # <<>> /\ LastOf(Below).fn = "epilog"
  BY <1>a, <1>r, ReturnFacts DEF Below, Top, Pop, LastOf
\* The session is not lost, or handle_error() has just been called.
<1>u. ASSUME fd' = "Closed" \/ ~IsUnrecoverable'
      PROVE  Settled'
  BY <1>u DEF Settled
<1>f. ASSUME NEW base, NEW s, NEW rc, HandleError(base, s, rc)
      PROVE  Settled'
  BY <1>f, <1>u DEF HandleError, CloseFd
<1>e. ASSUME NEW s, NEW rc, FailInApi(s, rc)
      PROVE  Settled'
  BY <1>e, <1>f DEF FailInApi
<1>k. ASSUME UNCHANGED <<state, fd, sentRequests, toSend, authList>>,
             IsUnrecoverable /\ fd # "Closed" /\ completionsToProcess' # <<>>
                 => /\ On("completions", stack) => On("completions", stack')
                    /\ On("completions", stack') \/ completionsToProcess # <<>>
      PROVE  Settled'
  BY <1>k DEF Settled, Answered, IsUnrecoverable
<1>1. CASE InterestWrap
  BY <1>1, <1>k DEF InterestWrap
<1>2. CASE InterestConnect \/ InterestConnectNow
  BY <1>2, <1>u DEF InterestConnect, InterestConnectNow, IsUnrecoverable, Unrecoverable
<1>3. CASE InterestConnectFails
  BY <1>3, <1>e DEF InterestConnectFails
<1>4. CASE InterestTimeout
  BY <1>4, <1>e DEF InterestTimeout
<1>5. CASE InterestPing
  BY <1>5, <1>m, <1>u DEF InterestPing, IsUnrecoverable
<1>6. CASE ProcessConnected
  BY <1>6, <1>u DEF ProcessConnected, IsUnrecoverable, Unrecoverable
<1>7. CASE ProcessFails
  BY <1>7, <1>e DEF ProcessFails
<1>8. CASE ProcessWrite
  BY <1>8, <1>m, <1>u DEF ProcessWrite, IsUnrecoverable
<1>9. CASE ProcessNothing
  BY <1>9, <1>m, <1>u DEF ProcessNothing, IsUnrecoverable
<1>10. CASE ProcessRead
  BY <1>10, <1>m, <1>u DEF ProcessRead, Readable, IsUnrecoverable
<1>11. CASE ProcessEstablished
  BY <1>11, <1>u DEF ProcessEstablished, IsUnrecoverable, Unrecoverable
<1>12. CASE ProcessExpired
  BY <1>12, <1>e DEF ProcessExpired
<1>p. ASSUME TopIs("process") PROVE ~IsUnrecoverable
  <2>1. fd = "Open"
    BY <1>a, <1>p, <1>r DEF TopIs
  <2> QED
    BY <2>1 DEF Settled
<1>13. CASE CheckEventsTail
  BY <1>13, <1>k, <1>r DEF CheckEventsTail, TopIs
<1>14. CASE ProcessDone
  BY <1>14, <1>p, <1>u DEF ProcessDone, IsUnrecoverable
<1>15. CASE ProcessIgnored \/ ProcessEvent \/ ProcessReply \/ ProcessAfterClose
  BY <1>15, <1>p, <1>u DEF ProcessIgnored, ProcessEvent, ProcessReply, ProcessAfterClose,
                           ReplyReceived, Received, IsUnrecoverable
<1>16. CASE ProcessAuth
  <2>1. CASE Head(toProcess).ok
    BY <1>16, <1>p, <1>u, <2>1 DEF ProcessAuth, Received, IsUnrecoverable
  <2>2. CASE ~Head(toProcess).ok
    BY <1>16, <1>f, <2>2 DEF ProcessAuth
  <2> QED
    BY <2>1, <2>2
<1>17. CASE ProcessOutOfOrder
  BY <1>17, <1>f DEF ProcessOutOfOrder
<1>18. CASE RunCompletion
  <2>1. stack # <<>> /\ Top.fn = "completions" /\ UNCHANGED stack
    BY <1>18 DEF RunCompletion, TopIs
  <2>2. On("completions", stack')
    BY <1>r, <2>1
  <2> QED
    BY <1>18, <1>k, <2>2 DEF RunCompletion
<1>19. CASE RunWatcher
  <2>1. stack # <<>> /\ Top.fn = "completions" /\ stack' = Push(stack, "watcher")
    BY <1>19 DEF RunWatcher, TopIs
  <2>2. "watcher" \in Names /\ "watcher" \in Calls["completions"] /\ LastOf(stack).fn = "completions"
    BY <2>1 DEF Names, Calls, LastOf, Top
  <2>3. \A g : On(g, stack') <=> On(g, stack) \/ "watcher" = g
    BY <1>a, <2>1, <2>2, PushCall
  <2>4. On("completions", stack')
    BY <1>r, <2>1, <2>3
  <2> QED
    BY <1>19, <1>k, <2>4 DEF RunWatcher
<1>20. CASE CompletionsDone
  BY <1>20, <1>k DEF CompletionsDone
<1>21. CASE WatcherReturns
  BY <1>21, <1>k, <1>r DEF WatcherReturns, TopIs
<1>22. CASE HandleErrorTail
  <2>1. /\ stack # <<>> /\ Top.fn = "handleError" /\ stack' = Push(Below, "completions")
        /\ fd' = "NoFd" /\ CleanupBufs(Top.rc)
    BY <1>22 DEF HandleErrorTail, TopIs
  <2>2. "completions" \in Names /\ "completions" \in Calls["epilog"]
    BY DEF Names, Calls
  <2>3. \A g : On(g, stack') <=> On(g, Below) \/ "completions" = g
    BY <1>r, <2>1, <2>2, PushCall
  <2>4. Top.rc \in Codes
    <3>1. stack[Len(stack)] \in Frames
      BY <1>a, <2>1, PopFacts
    <3> QED
      BY <3>1 DEF Top, Frames
  <2>5. Answered'
    BY <2>1, <2>4, AuthAnswers DEF CleanupBufs
  <2> QED
    BY <2>1, <2>3, <2>5 DEF Settled, CleanupBufs, FreeCompletions
<1>d. ASSUME Destroy, ~On("completions", stack) PROVE Settled'
  <2>1. "ZCLOSING" \in Codes /\ CleanupBufs("ZCLOSING") /\ fd' = "NoFd"
    BY <1>d DEF Destroy, Codes
  <2>2. Answered'
    BY <2>1, AuthAnswers DEF CleanupBufs
  <2>3. IsUnrecoverable' => IsUnrecoverable /\ fd = "NoFd"
    BY <1>d DEF Destroy, IsUnrecoverable, Unrecoverable
  <2>4. ASSUME IsUnrecoverable' PROVE completionsToProcess' = <<>>
    <3>1. sentRequests = <<>> /\ completionsToProcess = <<>>
      BY <1>d, <2>3, <2>4 DEF Settled
    <3> QED
      BY <2>1, <3>1, NoFakes DEF CleanupBufs
  <2> QED
    BY <2>1, <2>2, <2>4 DEF Settled, CleanupBufs, FreeCompletions
<1>23. CASE Epilog
  <2>0. ~On("completions", stack)
    <3>1. stack # <<>> /\ Top.fn = "epilog"
      BY <1>23 DEF Epilog, TopIs
    <3> QED
      BY <1>r, <3>1, EmptyStack
  <2>1. CASE CloseDue
    BY <1>23, <1>d, <2>0, <2>1 DEF Epilog
  <2>2. CASE ~CloseDue
    BY <1>23, <1>k, <2>0, <2>2 DEF Epilog, Settled
  <2> QED
    BY <2>1, <2>2
<1>24. CASE CloseInCallback
  <2>1. CASE IsUnrecoverable /\ fd # "Closed"
    <3>1. "ZCLOSING" \in Codes /\ FreeCompletions("ZCLOSING") /\ CallAuthCompletions("ZCLOSING")
      BY <1>24 DEF CloseInCallback, Codes
    <3>2. sentRequests = <<>>
      BY <2>1 DEF Settled
    <3>3. completionsToProcess' = completionsToProcess /\ sentRequests' = <<>> /\ Answered'
      BY <3>1, <3>2, NoFakes, AuthAnswers
    <3> QED
      BY <1>24, <2>1, <3>3 DEF CloseInCallback, Settled
  <2>2. CASE ~(IsUnrecoverable /\ fd # "Closed")
    BY <1>24, <1>u, <2>2 DEF CloseInCallback, IsUnrecoverable
  <2> QED
    BY <2>1, <2>2
<1>25. CASE CloseAtTop
  <2>1. stack = <<>>
    BY <1>25, <1>a, CountFacts DEF CloseAtTop, NotInUse, UserTurn, StackInv
  <2> QED
    BY <1>25, <1>d, <2>1, EmptyStack DEF CloseAtTop
<1>26. CASE Submit \/ SubmitRefused \/ AddAuth
  BY <1>26, <1>u DEF Submit, SubmitRefused, AddAuth, Accepts, IsUnrecoverable
<1>27. CASE Environment
  BY <1>27, <1>k DEF Environment, ServerStep, ServerEvent, PeerFails
<1>28. CASE UNCHANGED vars
  BY <1>28, <1>k DEF vars
<1> QED
  BY <1>1, <1>2, <1>3, <1>4, <1>5, <1>6, <1>7, <1>8, <1>9, <1>10, <1>11, <1>12, <1>13, <1>14,
     <1>15, <1>16, <1>17, <1>18, <1>19, <1>20, <1>21, <1>22, <1>23, <1>24, <1>25, <1>26, <1>27,
     <1>28
  DEF Next, Interest, CheckEvents, Continue, Api

-----------------------------------------------------------------------------
(* Requests in a line                                                      *)

\* What travels on the connection, in either direction.
Items == Packets \cup Responses
Carrier(p) == p.kind \in {"request", "reply"}

\* s carries the requests a, a + 1, ..., b - 1, in this order.
InLine(s, a, b) ==
    /\ \A k \in 1 .. Len(s) : Carrier(s[k]) => s[k].id \in a .. b - 1
    /\ \A n \in a .. b - 1 : \E k \in 1 .. Len(s) : Carrier(s[k]) /\ s[k].id = n
    /\ \A k, m \in 1 .. Len(s) : Carrier(s[k]) /\ Carrier(s[m]) /\ k < m => s[k].id < s[m].id

\* Whatever travels is numbered.
LEMMA ItemIds == \A p \in Items : p.id \in Nat
BY DEF Items, Packets, Responses

\* Nothing is a line of no requests.
LEMMA EmptyLine ==
    ASSUME NEW a \in Nat, NEW b \in Nat, a <= b
    PROVE  InLine(<<>>, a, b) <=> a = b
<1>1. Len(<<>>) = 0
  OBVIOUS
<1>2. ASSUME InLine(<<>>, a, b) PROVE a = b
  <2>1. ~ a \in a .. b - 1
    BY <1>1, <1>2 DEF InLine
  <2> QED
    BY <2>1
<1>3. ASSUME a = b PROVE InLine(<<>>, a, b)
  <2>1. a .. b - 1 = {}
    BY <1>3
  <2> QED
    BY <1>1, <2>1 DEF InLine
<1> QED
  BY <1>2, <1>3

\* One line behind another.
LEMMA JoinLines ==
    ASSUME NEW s \in Seq(Items), NEW t \in Seq(Items), NEW a \in Nat, NEW b \in Nat, NEW c \in Nat,
           a <= b, b <= c, InLine(s, a, b), InLine(t, b, c)
    PROVE  InLine(s \o t, a, c)
<1> DEFINE u == s \o t
<1>1. /\ u \in Seq(Items) /\ Len(u) = Len(s) + Len(t)
      /\ \A i \in 1 .. Len(s) : u[i] = s[i]
      /\ \A i \in 1 .. Len(t) : u[Len(s) + i] = t[i]
  BY JoinFacts
<1>2. Len(s) \in Nat /\ Len(t) \in Nat
  BY LenProperties
<1> HIDE DEF u
<1>3. \A k \in 1 .. Len(u) :
          \/ k \in 1 .. Len(s) /\ u[k] = s[k]
          \/ k - Len(s) \in 1 .. Len(t) /\ u[k] = t[k - Len(s)]
  <2> TAKE k \in 1 .. Len(u)
  <2>1. CASE k <= Len(s)
    BY <1>1, <1>2, <2>1
  <2>2. CASE k > Len(s)
    <3>1. k - Len(s) \in 1 .. Len(t) /\ Len(s) + (k - Len(s)) = k
      BY <1>1, <1>2, <2>2
    <3> QED
      BY <1>1, <3>1
  <2> QED
    BY <1>1, <1>2, <2>1, <2>2
<1>4. /\ \A k \in 1 .. Len(s) : Carrier(s[k]) => s[k].id \in a .. b - 1
      /\ \A k \in 1 .. Len(t) : Carrier(t[k]) => t[k].id \in b .. c - 1
  BY DEF InLine
<1>5. ASSUME NEW k \in 1 .. Len(u), Carrier(u[k]) PROVE u[k].id \in a .. c - 1
  <2>1. u[k].id \in a .. b - 1 \/ u[k].id \in b .. c - 1
    BY <1>3, <1>4, <1>5
  <2> QED
    BY <2>1
<1>6. ASSUME NEW n \in a .. c - 1 PROVE \E k \in 1 .. Len(u) : Carrier(u[k]) /\ u[k].id = n
  <2>1. CASE n < b
    <3>1. n \in a .. b - 1
      BY <2>1
    <3>2. PICK k \in 1 .. Len(s) : Carrier(s[k]) /\ s[k].id = n
      BY <3>1 DEF InLine
    <3>3. k \in 1 .. Len(u) /\ u[k] = s[k]
      BY <1>1, <1>2
    <3> QED
      BY <3>2, <3>3
  <2>2. CASE n >= b
    <3>1. n \in b .. c - 1
      BY <2>2
    <3>2. PICK k \in 1 .. Len(t) : Carrier(t[k]) /\ t[k].id = n
      BY <3>1 DEF InLine
    <3>3. Len(s) + k \in 1 .. Len(u) /\ u[Len(s) + k] = t[k]
      BY <1>1, <1>2
    <3> QED
      BY <3>2, <3>3
  <2> QED
    BY <2>1, <2>2
<1>7. ASSUME NEW k \in 1 .. Len(u), NEW m \in 1 .. Len(u), Carrier(u[k]), Carrier(u[m]), k < m
      PROVE  u[k].id < u[m].id
  <2>1. CASE k \in 1 .. Len(s) /\ u[k] = s[k] /\ m \in 1 .. Len(s) /\ u[m] = s[m]
    BY <1>7, <2>1 DEF InLine
  <2>2. CASE /\ k - Len(s) \in 1 .. Len(t) /\ u[k] = t[k - Len(s)]
             /\ m - Len(s) \in 1 .. Len(t) /\ u[m] = t[m - Len(s)]
    <3> DEFINE k2 == k - Len(s)
               m2 == m - Len(s)
    <3>1. k2 \in 1 .. Len(t) /\ m2 \in 1 .. Len(t) /\ k2 < m2 /\ u[k] = t[k2] /\ u[m] = t[m2]
      BY <1>2, <1>7, <2>2
    <3> HIDE DEF k2, m2
    <3> QED
      BY <1>7, <3>1 DEF InLine
  <2>3. CASE /\ k \in 1 .. Len(s) /\ u[k] = s[k]
             /\ m - Len(s) \in 1 .. Len(t) /\ u[m] = t[m - Len(s)]
    <3>1. u[k].id \in a .. b - 1 /\ u[m].id \in b .. c - 1
      BY <1>4, <1>7, <2>3
    <3> QED
      BY <3>1
  <2>4. CASE k - Len(s) \in 1 .. Len(t) /\ m \in 1 .. Len(s)
    BY <1>2, <1>7, <2>4
  <2> QED
    BY <1>3, <2>1, <2>2, <2>3, <2>4
<1>8. InLine(u, a, c)
  BY <1>5, <1>6, <1>7 DEF InLine
<1> QED
  BY <1>8 DEF u

\* A line of one.
LEMMA OneInLine ==
    ASSUME NEW p \in Items, NEW a \in Nat
    PROVE  /\ Carrier(p) /\ p.id = a => InLine(<<p>>, a, a + 1)
           /\ ~Carrier(p) => InLine(<<p>>, a, a)
<1> DEFINE s == <<p>>
<1>1. Len(s) = 1 /\ s[1] = p
  OBVIOUS
<1> HIDE DEF s
<1>2. (\A k \in 1 .. Len(s) : k = 1) /\ 1 \in 1 .. Len(s)
  BY <1>1
<1>3. a .. (a + 1) - 1 = {a} /\ a .. a - 1 = {}
  OBVIOUS
<1>4. ASSUME Carrier(p), p.id = a PROVE InLine(s, a, a + 1)
  BY <1>1, <1>2, <1>3, <1>4 DEF InLine
<1>5. ASSUME ~Carrier(p) PROVE InLine(s, a, a)
  BY <1>1, <1>2, <1>3, <1>5 DEF InLine
<1> QED
  BY <1>4, <1>5 DEF s

\* To append one is to put a line of one behind.
LEMMA AppendIsJoin ==
    ASSUME NEW S, NEW s \in Seq(S), NEW p \in S
    PROVE  Append(s, p) = s \o <<p>> /\ <<p>> \in Seq(S)
OBVIOUS

\* A request joins the end of the line, anything else does not count.
LEMMA AppendInLine ==
    ASSUME NEW s \in Seq(Items), NEW p \in Items, NEW a \in Nat, NEW b \in Nat,
           a <= b, InLine(s, a, b)
    PROVE  /\ Carrier(p) /\ p.id = b => InLine(Append(s, p), a, b + 1)
           /\ ~Carrier(p) => InLine(Append(s, p), a, b)
<1>1. Append(s, p) = s \o <<p>> /\ <<p>> \in Seq(Items)
  BY AppendIsJoin
<1>2. b <= b + 1 /\ b <= b /\ b + 1 \in Nat
  OBVIOUS
<1>3. /\ Carrier(p) /\ p.id = b => InLine(<<p>>, b, b + 1)
      /\ ~Carrier(p) => InLine(<<p>>, b, b)
  BY OneInLine
<1>4. ASSUME Carrier(p), p.id = b PROVE InLine(s \o <<p>>, a, b + 1)
  BY <1>1, <1>2, <1>3, <1>4, JoinLines
<1>5. ASSUME ~Carrier(p) PROVE InLine(s \o <<p>>, a, b)
  BY <1>1, <1>2, <1>3, <1>5, JoinLines
<1> QED
  BY <1>1, <1>4, <1>5

\* A line without its first.
LEMMA TailInLine ==
    ASSUME NEW s \in Seq(Items), s # <<>>, NEW a \in Nat, NEW b \in Nat, a <= b, InLine(s, a, b)
    PROVE  /\ Carrier(Head(s)) => Head(s).id = a /\ a < b /\ InLine(Tail(s), a + 1, b)
           /\ ~Carrier(Head(s)) => InLine(Tail(s), a, b)
<1> DEFINE t == Tail(s)
           h == Head(s)
<1>1. /\ t \in Seq(Items) /\ h = s[1] /\ Len(s) \in Nat \ {0}
      /\ Len(t) = Len(s) - 1
      /\ \A i \in 1 .. Len(s) - 1 : t[i] = s[i + 1]
  BY TailFacts
<1> HIDE DEF t, h
<1>2. 1 \in 1 .. Len(s) /\ \A i \in 1 .. Len(t) : i + 1 \in 1 .. Len(s) /\ 1 < i + 1 /\ t[i] = s[i + 1]
  BY <1>1
<1>3. \A k \in 1 .. Len(s) : k = 1 \/ (k - 1 \in 1 .. Len(t) /\ s[k] = t[k - 1])
  <2> TAKE k \in 1 .. Len(s)
  <2>1. CASE k # 1
    <3>1. k - 1 \in 1 .. Len(s) - 1 /\ (k - 1) + 1 = k
      BY <1>1, <2>1
    <3> QED
      BY <1>1, <3>1
  <2> QED
    BY <2>1
<1>4. \A k, m \in 1 .. Len(t) : Carrier(t[k]) /\ Carrier(t[m]) /\ k < m => t[k].id < t[m].id
  <2> SUFFICES ASSUME NEW k \in 1 .. Len(t), NEW m \in 1 .. Len(t),
                      Carrier(t[k]), Carrier(t[m]), k < m
               PROVE  t[k].id < t[m].id
    OBVIOUS
  <2> DEFINE k2 == k + 1
             m2 == m + 1
  <2>1. /\ k2 \in 1 .. Len(s) /\ m2 \in 1 .. Len(s) /\ t[k] = s[k2] /\ t[m] = s[m2]
        /\ k2 < m2
    BY <1>2
  <2> HIDE DEF k2, m2
  <2> QED
    BY <2>1 DEF InLine
<1>5. ASSUME Carrier(h) PROVE h.id = a /\ a < b /\ InLine(t, a + 1, b)
  <2>1. h.id \in a .. b - 1
    BY <1>1, <1>2, <1>5 DEF InLine
  <2>2. a < b /\ a \in a .. b - 1
    BY <2>1
  <2>3. PICK k \in 1 .. Len(s) : Carrier(s[k]) /\ s[k].id = a
    BY <2>2 DEF InLine
  <2>4. \A m \in 1 .. Len(s) : Carrier(s[m]) /\ 1 < m => h.id < s[m].id
    BY <1>1, <1>2, <1>5 DEF InLine
  <2>5. h.id = a
    <3>1. CASE k = 1
      BY <1>1, <2>3, <3>1
    <3>2. CASE k # 1
      <4>1. 1 < k
        BY <3>2
      <4>2. h.id < a
        BY <2>3, <2>4, <4>1
      <4> QED
        BY <2>1, <4>2
    <3> QED
      BY <3>1, <3>2
  <2>6. \A i \in 1 .. Len(t) : Carrier(t[i]) => t[i].id \in (a + 1) .. b - 1
    <3> SUFFICES ASSUME NEW i \in 1 .. Len(t), Carrier(t[i]) PROVE t[i].id \in (a + 1) .. b - 1
      OBVIOUS
    <3> DEFINE m == i + 1
    <3>1. m \in 1 .. Len(s) /\ 1 < m /\ t[i] = s[m]
      BY <1>2
    <3> HIDE DEF m
    <3>2. s[m].id \in a .. b - 1 /\ h.id < s[m].id
      BY <2>4, <3>1 DEF InLine
    <3> QED
      BY <2>5, <3>1, <3>2
  <2>7. \A n \in (a + 1) .. b - 1 : \E i \in 1 .. Len(t) : Carrier(t[i]) /\ t[i].id = n
    <3> TAKE n \in (a + 1) .. b - 1
    <3>1. n \in a .. b - 1 /\ n # a
      OBVIOUS
    <3>2. PICK m \in 1 .. Len(s) : Carrier(s[m]) /\ s[m].id = n
      BY <3>1 DEF InLine
    <3>3. m # 1
      BY <1>1, <2>5, <3>1, <3>2
    <3> QED
      BY <1>3, <3>2, <3>3
  <2> QED
    BY <1>4, <2>2, <2>5, <2>6, <2>7 DEF InLine
<1>6. ASSUME ~Carrier(h) PROVE InLine(t, a, b)
  <2>1. \A i \in 1 .. Len(t) : Carrier(t[i]) => t[i].id \in a .. b - 1
    <3> SUFFICES ASSUME NEW i \in 1 .. Len(t), Carrier(t[i]) PROVE t[i].id \in a .. b - 1
      OBVIOUS
    <3> DEFINE m == i + 1
    <3>1. m \in 1 .. Len(s) /\ t[i] = s[m]
      BY <1>2
    <3> HIDE DEF m
    <3> QED
      BY <3>1 DEF InLine
  <2>2. \A n \in a .. b - 1 : \E i \in 1 .. Len(t) : Carrier(t[i]) /\ t[i].id = n
    <3> TAKE n \in a .. b - 1
    <3>2. PICK m \in 1 .. Len(s) : Carrier(s[m]) /\ s[m].id = n
      BY DEF InLine
    <3>3. m # 1
      BY <1>1, <1>6, <3>2
    <3> QED
      BY <1>3, <3>2, <3>3
  <2> QED
    BY <1>4, <2>1, <2>2 DEF InLine
<1> QED
  BY <1>5, <1>6 DEF t, h

\* A line that is cut: there is a request with which the second part begins.
LEMMA CutLine ==
    ASSUME NEW q \in Seq(Items), NEW k \in 0 .. Len(q), NEW a \in Nat, NEW c \in Nat, a <= c,
           InLine(q, a, c)
    PROVE  \E b \in Nat : /\ a <= b /\ b <= c /\ InLine(SubSeq(q, 1, k), a, b)
                          /\ InLine(SubSeq(q, k + 1, Len(q)), b, c)
<1> DEFINE s == SubSeq(q, 1, k)
           t == SubSeq(q, k + 1, Len(q))
           T == {n \in a .. c : \A i \in 1 .. k : Carrier(q[i]) => q[i].id < n}
<1>1. Len(q) \in Nat /\ k \in Nat /\ k <= Len(q) /\ \A i \in 1 .. Len(q) : q[i].id \in Nat
  BY LenProperties, ElementOfSeq, ItemIds
<1>2. /\ Len(s) = k /\ \A i \in 1 .. k : s[i] = q[i]
      /\ Len(t) = Len(q) - k /\ \A i \in 1 .. Len(q) - k : t[i] = q[k + i]
  BY CutFacts
<1>3. \A i \in 1 .. k : i \in 1 .. Len(q) /\ (Carrier(q[i]) => q[i].id \in a .. c - 1)
  BY <1>1 DEF InLine
<1>4. T \in SUBSET Nat /\ T # {}
  <2>1. \A i \in 1 .. k : Carrier(q[i]) => q[i].id < c
    BY <1>3
  <2>2. c \in T
    BY <2>1
  <2>3. T \in SUBSET Nat
    <3>1. a .. c \subseteq Nat
      OBVIOUS
    <3> QED
      BY <3>1
  <2> HIDE DEF T
  <2> QED
    BY <2>2, <2>3
<1>5. PICK b \in T : \A y \in T : b <= y
  BY <1>4, Least
<1>6. b \in a .. c /\ b \in Nat /\ a <= b /\ b <= c /\ \A i \in 1 .. k : Carrier(q[i]) => q[i].id < b
  BY <1>4, <1>5
<1>7. b = a \/ \E i \in 1 .. k : Carrier(q[i]) /\ q[i].id = b - 1
  <2> SUFFICES ASSUME b # a, \A i \in 1 .. k : Carrier(q[i]) => q[i].id # b - 1 PROVE FALSE
    OBVIOUS
  <2>1. b - 1 \in a .. c
    BY <1>6
  <2>2. \A i \in 1 .. k : Carrier(q[i]) => q[i].id < b - 1
    BY <1>1, <1>3, <1>6
  <2>3. b - 1 \in T
    BY <2>1, <2>2
  <2>4. b <= b - 1
    BY <1>5, <2>3
  <2> QED
    BY <1>6, <2>4
<1> HIDE DEF T, s, t
<1>8. ASSUME NEW j \in k + 1 .. Len(q), Carrier(q[j]) PROVE q[j].id \in b .. c - 1
  <2>1. j \in 1 .. Len(q) /\ q[j].id \in a .. c - 1
    BY <1>1, <1>8 DEF InLine
  <2>2. CASE b = a
    BY <2>1, <2>2
  <2>3. CASE \E i \in 1 .. k : Carrier(q[i]) /\ q[i].id = b - 1
    <3>1. PICK i \in 1 .. k : Carrier(q[i]) /\ q[i].id = b - 1
      BY <2>3
    <3>2. i \in 1 .. Len(q) /\ i < j
      BY <1>1
    <3>3. q[i].id < q[j].id
      BY <1>8, <2>1, <3>1, <3>2 DEF InLine
    <3> QED
      BY <1>6, <2>1, <3>1, <3>3
  <2> QED
    BY <1>7, <2>2, <2>3
<1>9. InLine(s, a, b)
  <2>1. \A i \in 1 .. Len(s) : Carrier(s[i]) => s[i].id \in a .. b - 1
    <3> SUFFICES ASSUME NEW i \in 1 .. Len(s), Carrier(s[i]) PROVE s[i].id \in a .. b - 1
      OBVIOUS
    <3>1. q[i] = s[i] /\ q[i].id \in a .. c - 1 /\ q[i].id < b
      BY <1>2, <1>3, <1>6
    <3> QED
      BY <1>6, <3>1
  <2>2. \A n \in a .. b - 1 : \E i \in 1 .. Len(s) : Carrier(s[i]) /\ s[i].id = n
    <3> TAKE n \in a .. b - 1
    <3>1. n \in a .. c - 1 /\ n < b
      BY <1>6
    <3>2. PICK j \in 1 .. Len(q) : Carrier(q[j]) /\ q[j].id = n
      BY <3>1 DEF InLine
    <3>3. j \in 1 .. k
      <4>1. ASSUME j \in k + 1 .. Len(q) PROVE FALSE
        <5>1. q[j].id \in b .. c - 1
          BY <1>8, <3>2, <4>1
        <5>2. n >= b
          BY <3>2, <5>1
        <5> QED
          BY <1>6, <3>1, <5>2
      <4> QED
        BY <1>1, <4>1
    <3> QED
      BY <1>2, <3>2, <3>3
  <2>3. \A i, m \in 1 .. Len(s) : Carrier(s[i]) /\ Carrier(s[m]) /\ i < m => s[i].id < s[m].id
    <3> SUFFICES ASSUME NEW i \in 1 .. Len(s), NEW m \in 1 .. Len(s), Carrier(s[i]), Carrier(s[m]),
                        i < m
                 PROVE  s[i].id < s[m].id
      OBVIOUS
    <3>1. /\ i \in 1 .. Len(q) /\ m \in 1 .. Len(q) /\ s[i] = q[i] /\ s[m] = q[m]
      BY <1>2, <1>3
    <3> QED
      BY <3>1 DEF InLine
  <2> QED
    BY <2>1, <2>2, <2>3 DEF InLine
<1>10. InLine(t, b, c)
  <2>0. \A i \in 1 .. Len(t) : k + i \in k + 1 .. Len(q) /\ k + i \in 1 .. Len(q) /\ t[i] = q[k + i]
    BY <1>1, <1>2
  <2>1. \A i \in 1 .. Len(t) : Carrier(t[i]) => t[i].id \in b .. c - 1
    BY <1>8, <2>0
  <2>2. \A n \in b .. c - 1 : \E i \in 1 .. Len(t) : Carrier(t[i]) /\ t[i].id = n
    <3> TAKE n \in b .. c - 1
    <3>1. n \in a .. c - 1 /\ n >= b
      BY <1>6
    <3>2. PICK j \in 1 .. Len(q) : Carrier(q[j]) /\ q[j].id = n
      BY <3>1 DEF InLine
    <3>3. j \notin 1 .. k
      <4>1. CASE j \in 1 .. k
        <5>1. q[j].id < b
          BY <1>6, <3>2, <4>1
        <5> QED
          BY <1>6, <3>1, <3>2, <5>1
      <4> QED
        BY <4>1
    <3>4. j - k \in 1 .. Len(t) /\ k + (j - k) = j
      BY <1>1, <1>2, <3>3
    <3>5. t[j - k] = q[j]
      BY <2>0, <3>4
    <3> QED
      BY <3>2, <3>4, <3>5
  <2>3. \A i, m \in 1 .. Len(t) : Carrier(t[i]) /\ Carrier(t[m]) /\ i < m => t[i].id < t[m].id
    <3> SUFFICES ASSUME NEW i \in 1 .. Len(t), NEW m \in 1 .. Len(t), Carrier(t[i]), Carrier(t[m]),
                        i < m
                 PROVE  t[i].id < t[m].id
      OBVIOUS
    <3> DEFINE i2 == k + i
               m2 == k + m
    <3>1. i2 \in 1 .. Len(q) /\ m2 \in 1 .. Len(q) /\ i2 < m2 /\ t[i] = q[i2] /\ t[m] = q[m2]
      BY <1>1, <2>0
    <3> HIDE DEF i2, m2
    <3> QED
      BY <3>1 DEF InLine
  <2> QED
    BY <2>1, <2>2, <2>3 DEF InLine
<1> QED
  BY <1>6, <1>9, <1>10 DEF s, t

\* flush_send_queue() keeps the line: what it takes from the queue it puts on the wire.
LEMMA FlushLine ==
    ASSUME TypeOK, NEW q \in Seq(Packets), FlushSendQueue(q),
           NEW b \in Nat, NEW c \in Nat, NEW d \in Nat, b <= c, c <= d,
           InLine(toServer, b, c), InLine(q, c, d)
    PROVE  \E e \in Nat : /\ b <= e /\ e <= d
                          /\ InLine(toServer', b, e) /\ InLine(toSend', e, d)
<1>1. PICK k \in 0 .. (IF state = "CONNECTED" /\ fd = "Open" THEN Len(q) ELSE 0) :
          /\ toSend' = SubSeq(q, k + 1, Len(q))
          /\ toServer' = toServer \o SubSeq(q, 1, k)
  BY DEF FlushSendQueue
<1>2. k \in 0 .. Len(q) /\ q \in Seq(Items) /\ toServer \in Seq(Items)
  <2>1. Len(q) \in Nat
    BY LenProperties
  <2>2. Seq(Packets) \subseteq Seq(Items)
    <3>1. ASSUME NEW s \in Seq(Packets) PROVE s \in Seq(Items)
      <4>1. Len(s) \in Nat /\ DOMAIN s = 1 .. Len(s) /\ s = [i \in 1 .. Len(s) |-> s[i]]
        BY LenProperties
      <4>2. \A i \in 1 .. Len(s) : s[i] \in Items
        BY ElementOfSeq DEF Items
      <4>3. [i \in 1 .. Len(s) |-> s[i]] \in Seq(Items)
        BY <4>1, <4>2, IsASeq
      <4> QED
        BY <4>1, <4>3
    <3> QED
      BY <3>1
  <2> QED
    BY <2>1, <2>2 DEF TypeOK
<1>3. PICK e \in Nat : /\ c <= e /\ e <= d /\ InLine(SubSeq(q, 1, k), c, e)
                       /\ InLine(SubSeq(q, k + 1, Len(q)), e, d)
  BY <1>2, CutLine
<1>4. SubSeq(q, 1, k) \in Seq(Items)
  BY <1>2, CutFacts
<1>5. InLine(toServer \o SubSeq(q, 1, k), b, e)
  BY <1>2, <1>3, <1>4, JoinLines
<1>6. b <= e
  BY <1>3
<1> QED
  BY <1>1, <1>3, <1>5, <1>6

-----------------------------------------------------------------------------
(* The handshake                                                           *)

\* Until the session is established nothing but the handshake is on the wire.
OfKind(s, k) == \A i \in 1 .. Len(s) : s[i].kind = k
Handshake ==
    /\ inputBuffer = "primer" => state # "CONNECTED"
    /\ state # "CONNECTED" => OfKind(toServer, "connect") /\ OfKind(fromServer, "primer")

\* What is appended or taken away leaves the others of their kind.
LEMMA KindFacts ==
    ASSUME NEW S, NEW s \in Seq(S), NEW k
    PROVE  /\ OfKind(<<>>, k)
           /\ \A p \in S : OfKind(s, k) /\ p.kind = k => OfKind(Append(s, p), k)
           /\ s # <<>> /\ OfKind(s, k) => OfKind(Tail(s), k) /\ Head(s).kind = k
<1>1. Len(<<>>) = 0
  OBVIOUS
<1>2. OfKind(<<>>, k)
  BY <1>1 DEF OfKind
<1>3. ASSUME NEW p \in S, OfKind(s, k), p.kind = k PROVE OfKind(Append(s, p), k)
  <2>1. /\ Len(s) \in Nat /\ Len(Append(s, p)) = Len(s) + 1
        /\ \A i \in 1 .. Len(s) : Append(s, p)[i] = s[i]
        /\ Append(s, p)[Len(s) + 1] = p
    BY AppendProperties, LenProperties
  <2> DEFINE a == Append(s, p)
  <2> HIDE DEF a
  <2>2. \A i \in 1 .. Len(s) + 1 : i \in 1 .. Len(s) \/ i = Len(s) + 1
    BY <2>1
  <2> QED
    BY <1>3, <2>1, <2>2 DEF OfKind
<1>4. ASSUME s # <<>>, OfKind(s, k) PROVE OfKind(Tail(s), k) /\ Head(s).kind = k
  <2>1. /\ Head(s) = s[1] /\ Len(s) \in Nat \ {0} /\ Len(Tail(s)) = Len(s) - 1
        /\ \A i \in 1 .. Len(s) - 1 : Tail(s)[i] = s[i + 1]
    BY <1>4, TailFacts
  <2>2. 1 \in 1 .. Len(s) /\ \A i \in 1 .. Len(s) - 1 : i + 1 \in 1 .. Len(s)
    BY <2>1
  <2> QED
    BY <1>4, <2>1, <2>2 DEF OfKind
<1> QED
  BY <1>2, <1>3, <1>4

\* The handshake keeps to itself.
LEMMA HandshakeStep ==
    ASSUME ~Reentrant, TypeOK, StackInv, FlatInv, Handshake, [Next]_vars
    PROVE  Handshake'
<1> USE DEF queues, session, lifetime, history, network
<1>a. /\ toServer \in Seq(Packets) /\ fromServer \in Seq(Responses) /\ toSend \in Seq(Packets)
      /\ nextXid \in Nat /\ clientId \in Nat
  BY DEF TypeOK
<1>n. /\ fd # "Open" => toServer = <<>> /\ fromServer = <<>>
      /\ On("checkEvents", stack) => inputBuffer = "NULL"
  BY DEF FlatInv, Descriptor
<1>0. \A k : OfKind(<<>>, k)
  BY <1>a, KindFacts
\* The connection is given up.
<1>g. ASSUME toServer' = <<>>, fromServer' = <<>>, inputBuffer' = "primer" => state' # "CONNECTED"
      PROVE  Handshake'
  BY <1>0, <1>g DEF Handshake
<1>f. ASSUME NEW base, NEW s, NEW rc, HandleError(base, s, rc), UNCHANGED inputBuffer,
             s = state \/ s # "CONNECTED"
      PROVE  Handshake'
  BY <1>f, <1>g DEF HandleError, CloseFd, Handshake
<1>e. ASSUME NEW s, NEW rc, FailInApi(s, rc), s = state \/ s # "CONNECTED"
      PROVE  Handshake'
  BY <1>e, <1>f DEF FailInApi
<1>k. ASSUME UNCHANGED <<state, toServer, fromServer>>, inputBuffer' \in {inputBuffer, "NULL"}
      PROVE  Handshake'
  BY <1>k DEF Handshake
<1>l. ASSUME NEW q \in Seq(Packets), FlushSendQueue(q), UNCHANGED <<state, inputBuffer, fromServer>>
      PROVE  Handshake'
  BY <1>l, FlushNothing DEF Handshake
<1>1. CASE InterestWrap
  BY <1>1, <1>k DEF InterestWrap
<1>2. CASE InterestConnect
  BY <1>2, <1>g DEF InterestConnect
<1>3. CASE InterestConnectNow
  <2>1. toServer' = Append(<<>>, Packet("connect", clientId)) /\ Packet("connect", clientId) \in Packets
    BY <1>3, <1>a DEF InterestConnectNow, Packet, Packets
  <2>2. OfKind(Append(<<>>, Packet("connect", clientId)), "connect")
    <3>1. <<>> \in Seq(Packets) /\ Packet("connect", clientId).kind = "connect"
      BY EmptySeq DEF Packet
    <3> QED
      BY <2>1, <3>1, <1>0, KindFacts
  <2> QED
    BY <1>3, <1>0, <2>1, <2>2 DEF InterestConnectNow, Handshake
<1>4. CASE InterestConnectFails \/ InterestTimeout \/ ProcessFails
  BY <1>4, <1>e DEF InterestConnectFails, InterestTimeout, ProcessFails
<1>5. CASE InterestPing
  <2>1. Append(toSend, Packet("ping", 0)) \in Seq(Packets)
    BY <1>a, AppendProperties DEF Packet, Packets
  <2> QED
    BY <1>5, <1>l, <2>1 DEF InterestPing
<1>6. CASE ProcessConnected
  <2>1. Packet("connect", clientId) \in Packets /\ Packet("connect", clientId).kind = "connect"
    BY <1>a DEF Packet, Packets
  <2>2. /\ state = "CONNECTING" /\ state' = "ASSOCIATING" /\ fromServer' = fromServer
        /\ toServer' = Append(toServer, Packet("connect", clientId))
    BY <1>6 DEF ProcessConnected
  <2>3. OfKind(toServer', "connect") /\ OfKind(fromServer', "primer")
    BY <1>a, <2>1, <2>2, KindFacts DEF Handshake
  <2> QED
    BY <2>2, <2>3 DEF Handshake
<1>7. CASE ProcessWrite
  BY <1>7, <1>a, <1>l DEF ProcessWrite
<1>8. CASE ProcessNothing
  <2>1. FlushSendQueue(toSend) /\ UNCHANGED <<state, fromServer>> /\ inputBuffer' # "primer"
    BY <1>8 DEF ProcessNothing
  <2> QED
    BY <1>a, <2>1, FlushNothing DEF Handshake
<1>9. CASE ProcessRead
  <2>1. /\ FlushSendQueue(toSend) /\ UNCHANGED state /\ inputBuffer' = "NULL"
        /\ fromServer # <<>> /\ fromServer' = Tail(fromServer)
    BY <1>9 DEF ProcessRead, Readable
  <2> QED
    BY <1>a, <2>1, FlushNothing, KindFacts DEF Handshake
<1>10. CASE ProcessEstablished
  BY <1>10 DEF ProcessEstablished, Handshake
<1>11. CASE ProcessExpired
  BY <1>11, <1>e DEF ProcessExpired
<1>12. CASE CheckEventsTail
  <2>1. On("checkEvents", stack)
    <3>1. stack # <<>> /\ Top.fn = "checkEvents" /\ stack \in Seq(Frames)
      BY <1>12 DEF CheckEventsTail, TopIs, TypeOK
    <3> QED
      BY <3>1, PopFacts DEF On, Top
  <2> QED
    BY <1>12, <1>k, <1>n, <2>1 DEF CheckEventsTail, CutShort
<1>13. CASE ProcessDone \/ ProcessIgnored \/ ProcessEvent \/ ProcessReply \/ ProcessAfterClose
  BY <1>13, <1>k DEF ProcessDone, ProcessIgnored, ProcessEvent, ProcessReply, ProcessAfterClose
<1>14. CASE ProcessAuth
  <2>1. CASE Head(toProcess).ok
    BY <1>14, <1>k, <2>1 DEF ProcessAuth
  <2>2. CASE ~Head(toProcess).ok
    BY <1>14, <1>f, <2>2 DEF ProcessAuth
  <2> QED
    BY <2>1, <2>2
<1>15. CASE ProcessOutOfOrder
  BY <1>15, <1>f DEF ProcessOutOfOrder
<1>16. CASE RunCompletion \/ RunWatcher \/ CompletionsDone \/ WatcherReturns
  BY <1>16, <1>k DEF RunCompletion, RunWatcher, CompletionsDone, WatcherReturns
<1>17. CASE HandleErrorTail
  <2>1. state' # "CONNECTED"
    BY <1>17 DEF HandleErrorTail, StateAfterError, IsUnrecoverable, Unrecoverable
  <2> QED
    BY <1>17, <1>g, <2>1 DEF HandleErrorTail
<1>d. ASSUME Destroy PROVE Handshake'
  <2>1. toServer' = <<>> /\ fromServer' = <<>> /\ (state' = "CONNECTED" => state = "CONNECTED")
    BY <1>d DEF Destroy
  <2>2. inputBuffer' = "primer" => inputBuffer = "primer"
    BY <1>d DEF Destroy, CleanupBufs, CleanupInput
  <2> QED
    BY <1>g, <2>1, <2>2 DEF Handshake
<1>18. CASE Epilog
  BY <1>18, <1>d, <1>k DEF Epilog
<1>19. CASE CloseInCallback
  BY <1>19, <1>k DEF CloseInCallback
<1>20. CASE CloseAtTop
  BY <1>20, <1>d DEF CloseAtTop
<1>21. CASE Submit
  <2>1. Append(toSend, Packet("request", nextXid)) \in Seq(Packets)
    BY <1>a, AppendProperties DEF Packet, Packets
  <2> QED
    BY <1>21, <1>l, <2>1 DEF Submit
<1>22. CASE SubmitRefused
  BY <1>22, <1>a, <1>l DEF SubmitRefused
<1>23. CASE AddAuth
  BY <1>23, <1>k DEF AddAuth
<1>24. CASE ServerStep
  <2>1. /\ toServer # <<>> /\ toServer' = Tail(toServer) /\ UNCHANGED <<state, inputBuffer>>
    BY <1>24 DEF ServerStep
  <2>2. CASE state = "CONNECTED"
    BY <2>1, <2>2 DEF Handshake
  <2>3. CASE state # "CONNECTED"
    <3>1. /\ Head(toServer).kind = "connect" /\ OfKind(Tail(toServer), "connect")
          /\ OfKind(fromServer, "primer")
      BY <1>a, <2>1, <2>3, KindFacts DEF Handshake
    <3>2. PICK id \in IF Head(toServer).id = 0 THEN {1} ELSE {0, Head(toServer).id} :
              fromServer' = Append(fromServer, Response("primer", id, TRUE))
      BY <1>24, <3>1 DEF ServerStep
    <3>3. id \in Nat
      <4>1. Head(toServer) \in Packets
        BY <1>a, <2>1, EmptySeq, HeadTailProperties
      <4> QED
        BY <3>2, <4>1 DEF Packets
    <3>4. Response("primer", id, TRUE) \in Responses /\ Response("primer", id, TRUE).kind = "primer"
      BY <3>3 DEF Response, Responses
    <3>5. OfKind(fromServer', "primer")
      BY <1>a, <3>1, <3>2, <3>4, KindFacts
    <3> QED
      BY <2>1, <2>3, <3>1, <3>5 DEF Handshake
  <2> QED
    BY <2>2, <2>3
<1>25. CASE ServerEvent
  BY <1>25 DEF ServerEvent, Handshake
<1>26. CASE PeerFails \/ UNCHANGED vars
  BY <1>26, <1>k DEF PeerFails, vars
<1> QED
  BY <1>1, <1>2, <1>3, <1>4, <1>5, <1>6, <1>7, <1>8, <1>9, <1>10, <1>11, <1>12, <1>13, <1>14,
     <1>15, <1>16, <1>17, <1>18, <1>19, <1>20, <1>21, <1>22, <1>23, <1>24, <1>25, <1>26
  DEF Next, Interest, CheckEvents, Continue, Api, Environment

-----------------------------------------------------------------------------
(* The pipeline                                                            *)

\* Packets and responses are what travels.
LEMMA MoreItems == Seq(Packets) \subseteq Seq(Items) /\ Seq(Responses) \subseteq Seq(Items)
<1>1. ASSUME NEW S, S \subseteq Items, NEW s \in Seq(S) PROVE s \in Seq(Items)
  <2>1. Len(s) \in Nat /\ s = [i \in 1 .. Len(s) |-> s[i]]
    BY LenProperties
  <2>2. \A i \in 1 .. Len(s) : s[i] \in Items
    BY <1>1, ElementOfSeq
  <2>3. [i \in 1 .. Len(s) |-> s[i]] \in Seq(Items)
    BY <2>1, <2>2, IsASeq
  <2> QED
    BY <2>1, <2>3
<1>2. Packets \subseteq Items /\ Responses \subseteq Items
  BY DEF Items
<1> QED
  BY <1>1, <1>2

\* What is on its way on this connection are the outstanding requests, in
\* order: first their replies, last the packets that have not been sent.
Lines(a, b, c) ==
    /\ FirstSent <= a /\ a <= b /\ b <= c /\ c <= nextXid
    /\ InLine(toProcess, FirstSent, a) /\ InLine(fromServer, a, b)
    /\ InLine(toServer, b, c) /\ InLine(toSend, c, nextXid)
Lined == fd # "Closed" /\ ~closeRequested => \E a, b, c \in Nat : Lines(a, b, c)

\* It is empty at the start.
LEMMA LinedInit == Init => Lined
<1> SUFFICES ASSUME Init PROVE Lined
  OBVIOUS
<1>1. FirstSent = 1 /\ nextXid = 1
  <2>1. Len(<<>>) = 0
    OBVIOUS
  <2> QED
    BY <2>1 DEF Init, FirstSent
<1>2. InLine(<<>>, 1, 1)
  BY EmptyLine
<1>3. Lines(1, 1, 1)
  BY <1>1, <1>2 DEF Lines, Init
<1> QED
  BY <1>3 DEF Lined

\* Nothing but the end of handle_error() takes a handle out of a failure.
LEMMA StillOpen ==
    ASSUME [Next]_vars, fd' # "Closed", ~closeRequested', ~HandleErrorTail
    PROVE  fd # "Closed" /\ ~closeRequested
<1> USE DEF queues, session, lifetime, history, network
<1>k. ASSUME UNCHANGED <<fd, closeRequested>> PROVE fd # "Closed" /\ ~closeRequested
  BY <1>k
<1>1. CASE Interest
  <2>1. CASE InterestConnectFails \/ InterestTimeout
    BY <2>1 DEF InterestConnectFails, InterestTimeout, FailInApi, HandleError, CloseFd
  <2>2. CASE InterestConnect \/ InterestConnectNow
    BY <2>2 DEF InterestConnect, InterestConnectNow, MayConnect
  <2>3. CASE InterestWrap \/ InterestPing
    BY <2>3 DEF InterestWrap, InterestPing
  <2> QED
    BY <1>1, <2>1, <2>2, <2>3 DEF Interest
<1>2. CASE CheckEvents
  <2>1. CASE ProcessFails \/ ProcessExpired
    BY <2>1 DEF ProcessFails, ProcessExpired, FailInApi, HandleError, CloseFd
  <2>2. CASE ProcessEstablished
    BY <2>2 DEF ProcessEstablished
  <2>3. CASE ProcessNothing
    BY <2>3 DEF ProcessNothing
  <2>4. CASE ProcessConnected \/ ProcessWrite \/ ProcessRead
    BY <2>4 DEF ProcessConnected, ProcessWrite, ProcessRead
  <2> QED
    BY <1>2, <2>1, <2>2, <2>3, <2>4 DEF CheckEvents
<1>3. CASE CheckEventsTail \/ ProcessDone \/ ProcessIgnored \/ ProcessEvent \/ ProcessReply
           \/ ProcessAfterClose \/ RunCompletion \/ RunWatcher \/ CompletionsDone \/ WatcherReturns
  BY <1>3 DEF CheckEventsTail, ProcessDone, ProcessIgnored, ProcessEvent, ProcessReply,
              ProcessAfterClose, RunCompletion, RunWatcher, CompletionsDone, WatcherReturns
<1>4. CASE ProcessAuth \/ ProcessOutOfOrder
  BY <1>4 DEF ProcessAuth, ProcessOutOfOrder, HandleError, CloseFd
<1>5. CASE Epilog
  <2>1. CASE CloseDue
    BY <1>5, <2>1 DEF Epilog, CloseDue
  <2>2. CASE ~CloseDue
    BY <1>5, <2>2 DEF Epilog
  <2> QED
    BY <2>1, <2>2
<1>6. CASE Api
  BY <1>6 DEF Api, Submit, SubmitRefused, AddAuth, CloseInCallback, CloseAtTop
<1>7. CASE Environment
  <2>1. CASE ServerStep
    <3>1. UNCHANGED <<fd, closeRequested>>
      BY <2>1 DEF ServerStep
    <3> QED
      BY <1>k, <3>1
  <2>2. CASE ServerEvent \/ PeerFails
    <3>1. UNCHANGED <<fd, closeRequested>>
      BY <2>2 DEF ServerEvent, PeerFails
    <3> QED
      BY <1>k, <3>1
  <2> QED
    BY <1>7, <2>1, <2>2 DEF Environment
<1>8. CASE UNCHANGED vars
  BY <1>8 DEF vars
<1> QED
  BY <1>1, <1>2, <1>3, <1>4, <1>5, <1>6, <1>7, <1>8 DEF Next, Continue

\* A packet is put in front of to_send.
LEMMA AuthFirst ==
    ASSUME NEW s \in Seq(Packets), NEW t \in Seq(Packets), OfKind(t, "auth") \/ OfKind(t, "setWatches"),
           NEW a \in Nat, NEW b \in Nat, a <= b, InLine(s, a, b)
    PROVE  t \o s \in Seq(Packets) /\ InLine(t \o s, a, b)
<1>1. InLine(t, a, a)
  <2>1. \A k \in 1 .. Len(t) : ~Carrier(t[k])
    BY DEF OfKind, Carrier
  <2>2. a .. a - 1 = {}
    OBVIOUS
  <2> QED
    BY <2>1, <2>2 DEF InLine
<1>2. t \in Seq(Items) /\ s \in Seq(Items) /\ a <= a
  BY MoreItems
<1>3. InLine(t \o s, a, b)
  BY <1>1, <1>2, JoinLines
<1> QED
  BY <1>3, ConcatProperties

\* Every step moves requests along the pipeline and keeps their order.
LEMMA LinedStep ==
    ASSUME ~Reentrant, TypeOK, RequestLedger, StackInv, FlatInv, Handshake, Lined, [Next]_vars
    PROVE  Lined'
<1> USE DEF queues, session, lifetime, history, network
<1>a. /\ toServer \in Seq(Packets) /\ fromServer \in Seq(Responses) /\ toSend \in Seq(Packets)
      /\ toProcess \in Seq(Responses) /\ sentRequests \in Seq(Nat)
      /\ nextXid \in Nat /\ clientId \in Nat /\ FirstSent \in Nat /\ 1 <= FirstSent
      /\ FirstSent = nextXid - Len(sentRequests) /\ Len(sentRequests) \in Nat
  <2>1. /\ Len(callbacks) \in Nat /\ FirstSent \in Int /\ nextXid \in Nat
        /\ Len(sentRequests) \in Nat
    BY QueueFacts
  <2>2. Len(callbacks) < FirstSent
    BY DEF RequestLedger, LedgerCount
  <2> QED
    BY <2>1, <2>2 DEF TypeOK, FirstSent
<1>i. /\ toServer \in Seq(Items) /\ fromServer \in Seq(Items) /\ toSend \in Seq(Items)
      /\ toProcess \in Seq(Items)
  BY <1>a, MoreItems
<1>n. /\ fd # "Open" => toServer = <<>> /\ fromServer = <<>>
      /\ On("checkEvents", stack) => inputBuffer = "NULL"
  BY DEF FlatInv, Descriptor
<1>1. CASE fd' = "Closed" \/ closeRequested'
  BY <1>1 DEF Lined
<1>2. CASE HandleErrorTail
  <2>1. /\ toSend' = <<>> /\ toProcess' = <<>> /\ sentRequests' = <<>>
        /\ toServer' = <<>> /\ fromServer' = <<>> /\ nextXid' = nextXid
    BY <1>2 DEF HandleErrorTail, CleanupBufs, FreeCompletions
  <2>2. FirstSent' = nextXid
    <3>1. Len(<<>>) = 0
      OBVIOUS
    <3> QED
      BY <1>a, <2>1, <3>1 DEF FirstSent
  <2>3. InLine(<<>>, nextXid, nextXid)
    BY <1>a, EmptyLine
  <2>4. Lines(nextXid, nextXid, nextXid)'
    BY <1>a, <2>1, <2>2, <2>3 DEF Lines
  <2>5. PICK n \in Nat : nextXid' = n
    BY <1>a, <2>1
  <2>6. \E a, b, c \in Nat : Lines(a, b, c)'
    BY <1>a, <2>1, <2>4
  <2> QED
    BY <2>6 DEF Lined
<1>3. ASSUME fd # "Closed", ~closeRequested, fd' # "Closed", ~closeRequested', ~HandleErrorTail
      PROVE  Lined'
  <2>0. PICK a \in Nat, b \in Nat, c \in Nat : Lines(a, b, c)
    BY <1>3 DEF Lined
  <2>l. /\ FirstSent <= a /\ a <= b /\ b <= c /\ c <= nextXid
        /\ InLine(toProcess, FirstSent, a) /\ InLine(fromServer, a, b)
        /\ InLine(toServer, b, c) /\ InLine(toSend, c, nextXid)
    BY <2>0 DEF Lines
  <2> SUFFICES \E x, y, z \in Nat : Lines(x, y, z)'
    BY DEF Lined
  <2>s. UNCHANGED <<nextXid, sentRequests>> => FirstSent' = FirstSent
    BY DEF FirstSent
  <2>k. ASSUME UNCHANGED <<nextXid, sentRequests, toProcess, fromServer, toServer, toSend>>
        PROVE  \E x, y, z \in Nat : Lines(x, y, z)'
    BY <2>k, <2>l, <2>s DEF Lines
  <2>f. ASSUME NEW q \in Seq(Packets), FlushSendQueue(q), InLine(q, c, nextXid),
               UNCHANGED <<nextXid, sentRequests, toProcess, fromServer>>
        PROVE  \E x, y, z \in Nat : Lines(x, y, z)'
    <3>1. PICK e \in Nat : /\ b <= e /\ e <= nextXid
                           /\ InLine(toServer', b, e) /\ InLine(toSend', e, nextXid)
      BY <1>a, <2>f, <2>l, FlushLine
    <3>2. Lines(a, b, e)'
      BY <2>f, <2>l, <2>s, <3>1 DEF Lines
    <3> QED
      BY <3>2
  <2>1. CASE InterestWrap
    BY <2>1, <2>k DEF InterestWrap
  <2>2. CASE InterestConnect
    BY <1>n, <2>2, <2>k DEF InterestConnect, MayConnect
  <2>c. ASSUME toServer' = Append(toServer, Packet("connect", clientId)),
               UNCHANGED <<nextXid, sentRequests, toProcess, fromServer, toSend>>
        PROVE  \E x, y, z \in Nat : Lines(x, y, z)'
    <3>1. Packet("connect", clientId) \in Items /\ ~Carrier(Packet("connect", clientId))
      BY <1>a DEF Packet, Packets, Items, Carrier
    <3>2. InLine(toServer', b, c)
      BY <1>i, <2>c, <2>l, <3>1, AppendInLine
    <3>3. Lines(a, b, c)'
      BY <2>c, <2>l, <2>s, <3>2 DEF Lines
    <3> QED
      BY <3>3
  <2>3. CASE InterestConnectNow
    <3>1. /\ toServer = <<>> /\ fromServer = <<>> /\ fromServer' = <<>>
          /\ toServer' = <<Packet("connect", clientId)>>
          /\ UNCHANGED <<nextXid, sentRequests, toProcess, toSend>>
      BY <1>n, <2>3 DEF InterestConnectNow, MayConnect
    <3>2. toServer' = Append(toServer, Packet("connect", clientId))
      BY <3>1
    <3> QED
      BY <2>c, <3>1, <3>2
  <2>4. CASE InterestConnectFails \/ InterestTimeout \/ ProcessFails \/ ProcessExpired
    BY <1>3, <2>4 DEF InterestConnectFails, InterestTimeout, ProcessFails, ProcessExpired,
                      FailInApi, HandleError, CloseFd
  <2>5. CASE InterestPing
    <3>1. Packet("ping", 0) \in Packets /\ Packet("ping", 0) \in Items /\ ~Carrier(Packet("ping", 0))
      BY DEF Packet, Packets, Items, Carrier
    <3>2. Append(toSend, Packet("ping", 0)) \in Seq(Packets)
      BY <1>a, <3>1, AppendProperties
    <3>3. InLine(Append(toSend, Packet("ping", 0)), c, nextXid)
      BY <1>a, <1>i, <2>l, <3>1, AppendInLine
    <3> QED
      BY <2>5, <2>f, <3>2, <3>3 DEF InterestPing
  <2>6. CASE ProcessConnected
    BY <2>6, <2>c DEF ProcessConnected
  <2>7. CASE ProcessWrite
    BY <1>a, <2>7, <2>f, <2>l DEF ProcessWrite
  <2>8. CASE ProcessNothing
    <3>1. FlushSendQueue(toSend) /\ UNCHANGED <<nextXid, sentRequests, toProcess, fromServer>>
      BY <2>8 DEF ProcessNothing
    <3> QED
      BY <1>a, <2>f, <2>l, <3>1
  <2>9. CASE ProcessRead
    <3>1. /\ FlushSendQueue(toSend) /\ UNCHANGED <<nextXid, sentRequests>>
          /\ fromServer # <<>> /\ fromServer' = Tail(fromServer)
          /\ toProcess' = Append(toProcess, Head(fromServer))
      BY <2>9 DEF ProcessRead, Readable
    <3>2. PICK e \in Nat : /\ b <= e /\ e <= nextXid
                           /\ InLine(toServer', b, e) /\ InLine(toSend', e, nextXid)
      BY <1>a, <2>l, <3>1, FlushLine
    <3>3. Head(fromServer) \in Items
      BY <1>i, <3>1, EmptySeq, HeadTailProperties
    <3>4. CASE Carrier(Head(fromServer))
      <4>1. Head(fromServer).id = a /\ a < b /\ InLine(Tail(fromServer), a + 1, b)
        BY <1>i, <2>l, <3>1, <3>4, TailInLine
      <4>2. InLine(toProcess', FirstSent, a + 1)
        BY <1>a, <1>i, <2>l, <3>1, <3>3, <3>4, <4>1, AppendInLine
      <4>3. FirstSent <= a + 1 /\ a + 1 <= b /\ a + 1 \in Nat
        BY <1>a, <2>l, <4>1
      <4>4. Lines(a + 1, b, e)'
        BY <2>l, <2>s, <3>1, <3>2, <4>1, <4>2, <4>3 DEF Lines
      <4> QED
        BY <4>3, <4>4
    <3>5. CASE ~Carrier(Head(fromServer))
      <4>1. InLine(Tail(fromServer), a, b)
        BY <1>i, <2>l, <3>1, <3>5, TailInLine
      <4>2. InLine(toProcess', FirstSent, a)
        BY <1>a, <1>i, <2>l, <3>1, <3>3, <3>5, AppendInLine
      <4>4. Lines(a, b, e)'
        BY <2>l, <2>s, <3>1, <3>2, <4>1, <4>2 DEF Lines
      <4> QED
        BY <4>4
    <3> QED
      BY <3>4, <3>5
  <2>10. CASE ProcessEstablished
    <3>1. PICK watches \in {<<>>, <<Packet("setWatches", 0)>>} :
              toSend' = AllCredentials \o watches \o toSend
      BY <2>10 DEF ProcessEstablished
    <3>2. /\ fromServer # <<>> /\ fromServer' = Tail(fromServer) /\ inputBuffer = "primer"
          /\ UNCHANGED <<nextXid, sentRequests, toProcess, toServer>>
      BY <2>10 DEF ProcessEstablished, Readable
    <3>3. Head(fromServer).kind = "primer"
      BY <1>a, <3>2, KindFacts DEF Handshake
    <3>4. InLine(fromServer', a, b)
      <4>1. ~Carrier(Head(fromServer))
        BY <3>3 DEF Carrier
      <4> QED
        BY <1>i, <2>l, <3>2, <4>1, TailInLine
    <3>5. watches \in Seq(Packets) /\ OfKind(watches, "setWatches")
      <4>1. CASE watches = <<>>
        BY <4>1, <1>a, EmptySeq, KindFacts
      <4>2. CASE watches = <<Packet("setWatches", 0)>>
        <5>1. Packet("setWatches", 0) \in Packets /\ Packet("setWatches", 0).kind = "setWatches"
          BY DEF Packet, Packets
        <5>2. watches \in Seq(Packets) /\ Len(watches) = 1 /\ watches[1].kind = "setWatches"
          BY <4>2, <5>1
        <5> QED
          BY <5>2 DEF OfKind
      <4> QED
        BY <3>1, <4>1, <4>2
    <3>6. AllCredentials \in Seq(Packets) /\ OfKind(AllCredentials, "auth")
      <4>1. Len(authList) \in Nat
        BY LenProperties DEF TypeOK
      <4>2. \A i \in 1 .. Len(authList) :
                /\ Packet("auth", Len(authList) + 1 - i) \in Packets
                /\ Packet("auth", Len(authList) + 1 - i).kind = "auth"
        BY <4>1 DEF Packet, Packets
      <4>3. AllCredentials \in Seq(Packets)
        BY <4>1, <4>2, IsASeq DEF AllCredentials
      <4>4. DOMAIN AllCredentials = 1 .. Len(authList)
            /\ \A i \in 1 .. Len(authList) : AllCredentials[i].kind = "auth"
        BY <4>2 DEF AllCredentials
      <4>5. DOMAIN AllCredentials = 1 .. Len(AllCredentials)
        BY <4>3, LenProperties
      <4> QED
        BY <4>3, <4>4, <4>5 DEF OfKind
    <3>7. watches \o toSend \in Seq(Packets) /\ InLine(watches \o toSend, c, nextXid)
      BY <1>a, <2>l, <3>5, AuthFirst
    <3>8. InLine(AllCredentials \o (watches \o toSend), c, nextXid)
      BY <1>a, <2>l, <3>6, <3>7, AuthFirst
    <3>9. AllCredentials \o watches \o toSend = AllCredentials \o (watches \o toSend)
      <4>1. \A x, y, z \in Seq(Packets) : (x \o y) \o z = x \o (y \o z)
        BY ConcatAssociative
      <4> QED
        BY <1>a, <3>5, <3>6, <4>1
    <3>10. Lines(a, b, c)'
      BY <2>l, <2>s, <3>1, <3>2, <3>4, <3>8, <3>9 DEF Lines
    <3> QED
      BY <3>10
  <2>11. CASE CheckEventsTail
    <3>1. On("checkEvents", stack)
      <4>1. stack # <<>> /\ Top.fn = "checkEvents" /\ stack \in Seq(Frames)
        BY <2>11 DEF CheckEventsTail, TopIs, TypeOK
      <4> QED
        BY <4>1, PopFacts DEF On, Top
    <3> QED
      BY <1>n, <2>11, <2>k, <3>1 DEF CheckEventsTail, CutShort
  <2>12. CASE ProcessDone
    BY <2>12, <2>k DEF ProcessDone
  <2>13. CASE \/ ProcessIgnored \/ ProcessEvent
              \/ ProcessAuth
    <3>1. /\ toProcess # <<>> /\ toProcess' = Tail(toProcess) /\ ~Carrier(Head(toProcess))
      BY <2>13 DEF ProcessIgnored, ProcessEvent, ProcessAuth, Received, Carrier
    <3>2. UNCHANGED <<nextXid, sentRequests, fromServer, toServer, toSend>>
      <4>1. CASE ProcessIgnored \/ ProcessEvent
        BY <4>1 DEF ProcessIgnored, ProcessEvent
      <4>2. CASE ProcessAuth
        <5>1. Head(toProcess).ok
          BY <1>3, <4>2 DEF ProcessAuth, HandleError, CloseFd
        <5> QED
          BY <4>2, <5>1 DEF ProcessAuth
      <4> QED
        BY <2>13, <4>1, <4>2
    <3>3. InLine(toProcess', FirstSent, a)
      BY <1>a, <1>i, <2>l, <3>1, TailInLine
    <3>4. Lines(a, b, c)'
      BY <2>l, <2>s, <3>2, <3>3 DEF Lines
    <3> QED
      BY <3>4
  <2>14. CASE ProcessReply
    <3>1. /\ toProcess # <<>> /\ toProcess' = Tail(toProcess) /\ sentRequests # <<>>
          /\ sentRequests' = Tail(sentRequests) /\ ReplyXid = Head(sentRequests)
          /\ Head(toProcess).kind \in {"reply", "primer"}
          /\ UNCHANGED <<nextXid, fromServer, toServer, toSend>>
      BY <2>14 DEF ProcessReply, ReplyReceived, Received
    <3>2. Head(sentRequests) = FirstSent /\ Len(Tail(sentRequests)) = Len(sentRequests) - 1
      <4>1. /\ Head(sentRequests) = sentRequests[1] /\ Len(sentRequests) \in Nat \ {0}
            /\ Len(Tail(sentRequests)) = Len(sentRequests) - 1
        BY <1>a, <3>1, TailFacts
      <4>2. 1 \in 1 .. Len(sentRequests)
        BY <4>1
      <4>3. sentRequests[1] = FirstSent + 1 - 1
        BY <4>2, LedgerSays
      <4> QED
        BY <1>a, <4>1, <4>3
    <3>3. Carrier(Head(toProcess))
      <4>1. Head(toProcess).kind # "primer"
        BY <1>a, <3>1, <3>2 DEF ReplyXid
      <4> QED
        BY <3>1, <4>1 DEF Carrier
    <3>4. FirstSent < a /\ InLine(toProcess', FirstSent + 1, a)
      BY <1>a, <1>i, <2>l, <3>1, <3>3, TailInLine
    <3>5. FirstSent' = FirstSent + 1
      <4>1. FirstSent' = nextXid - (Len(sentRequests) - 1)
        BY <3>1, <3>2 DEF FirstSent
      <4> QED
        BY <1>a, <4>1
    <3>6. FirstSent + 1 <= a
      BY <1>a, <3>4
    <3>7. Lines(a, b, c)'
      BY <2>l, <3>1, <3>4, <3>5, <3>6 DEF Lines
    <3> QED
      BY <3>7
  <2>15. CASE ProcessOutOfOrder
    BY <1>3, <2>15 DEF ProcessOutOfOrder, HandleError, CloseFd
  <2>16. CASE ProcessAfterClose
    BY <1>3, <2>16 DEF ProcessAfterClose
  <2>17. CASE RunCompletion \/ RunWatcher \/ CompletionsDone \/ WatcherReturns
    BY <2>17, <2>k DEF RunCompletion, RunWatcher, CompletionsDone, WatcherReturns
  <2>18. CASE Epilog
    <3>1. ~CloseDue
      BY <1>3 DEF CloseDue
    <3> QED
      BY <2>18, <2>k, <3>1 DEF Epilog
  <2>19. CASE CloseInCallback \/ CloseAtTop
    BY <1>3, <2>19 DEF CloseInCallback, CloseAtTop
  <2>20. CASE Submit
    <3>1. /\ nextXid' = nextXid + 1 /\ sentRequests' = Append(sentRequests, nextXid)
          /\ FlushSendQueue(Append(toSend, Packet("request", nextXid)))
          /\ UNCHANGED <<toProcess, fromServer>>
      BY <2>20 DEF Submit
    <3>2. /\ Packet("request", nextXid) \in Packets /\ Packet("request", nextXid) \in Items
          /\ Carrier(Packet("request", nextXid)) /\ Packet("request", nextXid).id = nextXid
      BY <1>a DEF Packet, Packets, Items, Carrier
    <3>3. Append(toSend, Packet("request", nextXid)) \in Seq(Packets)
      BY <1>a, <3>2, AppendProperties
    <3>4. InLine(Append(toSend, Packet("request", nextXid)), c, nextXid + 1)
      BY <1>a, <1>i, <2>l, <3>2, AppendInLine
    <3>5. nextXid + 1 \in Nat /\ c <= nextXid + 1
      BY <1>a, <2>l
    <3>6. PICK e \in Nat : /\ b <= e /\ e <= nextXid + 1
                           /\ InLine(toServer', b, e) /\ InLine(toSend', e, nextXid + 1)
      BY <1>a, <2>l, <3>1, <3>3, <3>4, <3>5, FlushLine
    <3>7. FirstSent' = FirstSent
      <4>1. Len(sentRequests') = Len(sentRequests) + 1
        BY <1>a, <3>1, AppendProperties
      <4>2. FirstSent' = (nextXid + 1) - (Len(sentRequests) + 1)
        BY <3>1, <4>1 DEF FirstSent
      <4> QED
        BY <1>a, <4>2
    <3>8. Lines(a, b, e)'
      BY <2>l, <3>1, <3>6, <3>7 DEF Lines
    <3> QED
      BY <3>8
  <2>21. CASE SubmitRefused
    BY <1>3, <2>21 DEF SubmitRefused
  <2>22. CASE AddAuth
    <3>1. UNCHANGED <<nextXid, sentRequests, toProcess, fromServer, toServer>>
      BY <2>22 DEF AddAuth
    <3>2. CASE toSend' = toSend
      BY <2>k, <3>1, <3>2
    <3>3. CASE toSend' = <<Packet("auth", Len(authList) + 1)>> \o toSend
      <4> DEFINE p == Packet("auth", Len(authList) + 1)
      <4>1. p \in Packets /\ p.kind = "auth"
        <5>1. Len(authList) \in Nat
          BY LenProperties DEF TypeOK
        <5> QED
          BY <5>1 DEF Packet, Packets
      <4> HIDE DEF p
      <4>2. <<p>> \in Seq(Packets) /\ Len(<<p>>) = 1 /\ <<p>>[1] = p
        BY <4>1
      <4>3. OfKind(<<p>>, "auth")
        BY <4>1, <4>2 DEF OfKind
      <4>4. InLine(<<p>> \o toSend, c, nextXid)
        BY <1>a, <2>l, <4>2, <4>3, AuthFirst
      <4>5. Lines(a, b, c)'
        BY <2>l, <2>s, <3>1, <3>3, <4>4 DEF Lines, p
      <4> QED
        BY <4>5
    <3> QED
      BY <2>22, <3>2, <3>3 DEF AddAuth
  <2>23. CASE ServerStep
    <3> DEFINE p == Head(toServer)
    <3>1. /\ toServer # <<>> /\ toServer' = Tail(toServer)
          /\ UNCHANGED <<nextXid, sentRequests, toProcess, toSend>>
      BY <2>23 DEF ServerStep
    <3>2. p \in Packets
      BY <1>a, <3>1, EmptySeq, HeadTailProperties
    <3>3. CASE p.kind = "request"
      <4>1. fromServer' = Append(fromServer, Response("reply", p.id, TRUE))
        BY <2>23, <3>3 DEF ServerStep
      <4>2. Carrier(p) /\ p.id \in Nat
        BY <3>2, <3>3 DEF Carrier, Packets
      <4>3. p.id = b /\ b < c /\ InLine(toServer', b + 1, c)
        BY <1>i, <2>l, <3>1, <4>2, TailInLine
      <4> DEFINE r == Response("reply", p.id, TRUE)
      <4>4. r \in Items /\ Carrier(r) /\ r.id = b
        BY <4>2, <4>3 DEF Response, Responses, Items, Carrier
      <4> HIDE DEF r
      <4>5. InLine(fromServer', a, b + 1)
        BY <1>i, <2>l, <4>1, <4>4, AppendInLine DEF r
      <4>6. a <= b + 1 /\ b + 1 <= c /\ b + 1 \in Nat
        BY <2>l, <4>3
      <4>7. Lines(a, b + 1, c)'
        BY <2>l, <2>s, <3>1, <4>3, <4>5, <4>6 DEF Lines
      <4> QED
        BY <4>6, <4>7
    <3>4. CASE p.kind # "request"
      <4>1. PICK r \in Responses : ~Carrier(r) /\ fromServer' = Append(fromServer, r)
        <5>1. CASE p.kind = "connect"
          <6>1. PICK id \in IF p.id = 0 THEN {1} ELSE {0, p.id} :
                    fromServer' = Append(fromServer, Response("primer", id, TRUE))
            BY <2>23, <5>1 DEF ServerStep
          <6>2. id \in Nat
            BY <3>2, <6>1 DEF Packets
          <6>3. Response("primer", id, TRUE) \in Responses /\ ~Carrier(Response("primer", id, TRUE))
            BY <6>2 DEF Response, Responses, Carrier
          <6> QED
            BY <6>1, <6>3
        <5>2. CASE p.kind = "auth"
          <6>1. PICK ok \in BOOLEAN : fromServer' = Append(fromServer, Response("auth", p.id, ok))
            BY <2>23, <5>2 DEF ServerStep
          <6>2. p.id \in Nat
            BY <3>2 DEF Packets
          <6>3. Response("auth", p.id, ok) \in Responses /\ ~Carrier(Response("auth", p.id, ok))
            BY <6>2 DEF Response, Responses, Carrier
          <6> QED
            BY <6>1, <6>3
        <5>3. CASE p.kind \in {"setWatches", "ping"}
          <6>1. fromServer' = Append(fromServer, Response(p.kind, 0, TRUE))
            BY <2>23, <5>3 DEF ServerStep
          <6>3. Response(p.kind, 0, TRUE) \in Responses /\ ~Carrier(Response(p.kind, 0, TRUE))
            BY <5>3 DEF Response, Responses, Carrier
          <6> QED
            BY <6>1, <6>3
        <5> QED
          BY <3>2, <3>4, <5>1, <5>2, <5>3 DEF Packets
      <4>2. ~Carrier(p)
        BY <3>2, <3>4 DEF Carrier, Packets
      <4>3. InLine(toServer', b, c)
        BY <1>i, <2>l, <3>1, <4>2, TailInLine
      <4>4. r \in Items
        BY DEF Items
      <4>5. InLine(fromServer', a, b)
        BY <1>i, <2>l, <4>1, <4>4, AppendInLine
      <4>6. Lines(a, b, c)'
        BY <2>l, <2>s, <3>1, <4>3, <4>5 DEF Lines
      <4> QED
        BY <4>6
    <3> QED
      BY <3>3, <3>4
  <2>24. CASE ServerEvent
    <3>1. /\ fromServer' = Append(fromServer, Response("event", 0, TRUE))
          /\ UNCHANGED <<nextXid, sentRequests, toProcess, toServer, toSend>>
      BY <2>24 DEF ServerEvent
    <3>2. Response("event", 0, TRUE) \in Items /\ ~Carrier(Response("event", 0, TRUE))
      BY DEF Response, Responses, Items, Carrier
    <3>3. InLine(fromServer', a, b)
      BY <1>i, <2>l, <3>1, <3>2, AppendInLine
    <3>4. Lines(a, b, c)'
      BY <2>l, <2>s, <3>1, <3>3 DEF Lines
    <3> QED
      BY <3>4
  <2>25. CASE PeerFails \/ UNCHANGED vars
    BY <2>25, <2>k DEF PeerFails, vars
  <2> QED
    BY <1>3, <2>1, <2>2, <2>3, <2>4, <2>5, <2>6, <2>7, <2>8, <2>9, <2>10, <2>11, <2>12, <2>13,
       <2>14, <2>15, <2>16, <2>17, <2>18, <2>19, <2>20, <2>21, <2>22, <2>23, <2>24, <2>25
    DEF Next, Interest, CheckEvents, Continue, Api, Environment
<1>4. fd' # "Closed" /\ ~closeRequested' /\ ~HandleErrorTail => fd # "Closed" /\ ~closeRequested
  BY StillOpen
<1> QED
  BY <1>1, <1>2, <1>3, <1>4

-----------------------------------------------------------------------------
(* The outstanding requests are what is on its way                         *)

\* The four queues together are one line.
LEMMA PipelineInLine ==
    ASSUME TypeOK, RequestLedger, Lined, fd # "Closed", ~closeRequested
    PROVE  Pipeline \in Seq(Items) /\ InLine(Pipeline, FirstSent, nextXid)
<1>1. PICK a \in Nat, b \in Nat, c \in Nat : Lines(a, b, c)
  BY DEF Lined
<1>2. FirstSent \in Nat /\ nextXid \in Nat
  <2>1. Len(callbacks) \in Nat /\ FirstSent \in Int /\ nextXid \in Nat
    BY QueueFacts
  <2>2. Len(callbacks) < FirstSent
    BY DEF RequestLedger, LedgerCount
  <2> QED
    BY <2>1, <2>2
<1>3. /\ toServer \in Seq(Items) /\ fromServer \in Seq(Items) /\ toSend \in Seq(Items)
      /\ toProcess \in Seq(Items)
  BY MoreItems DEF TypeOK
<1>4. /\ FirstSent <= a /\ a <= b /\ b <= c /\ c <= nextXid
      /\ InLine(toProcess, FirstSent, a) /\ InLine(fromServer, a, b)
      /\ InLine(toServer, b, c) /\ InLine(toSend, c, nextXid)
  BY <1>1 DEF Lines
<1> DEFINE p2 == toProcess \o fromServer
           p3 == p2 \o toServer
           p4 == p3 \o toSend
<1>5. p2 \in Seq(Items) /\ InLine(p2, FirstSent, b) /\ FirstSent <= b
  BY <1>2, <1>3, <1>4, JoinLines, JoinFacts
<1> HIDE DEF p2
<1>6. p3 \in Seq(Items) /\ InLine(p3, FirstSent, c) /\ FirstSent <= c
  BY <1>2, <1>3, <1>4, <1>5, JoinLines, JoinFacts
<1> HIDE DEF p3
<1>7. p4 \in Seq(Items) /\ InLine(p4, FirstSent, nextXid)
  BY <1>2, <1>3, <1>4, <1>6, JoinLines, JoinFacts
<1>8. Pipeline = p4
  BY DEF Pipeline, p4, p3, p2
<1> QED
  BY <1>7, <1>8

\* A line is a numbering.
LEMMA Matching ==
    ASSUME NEW P \in Seq(Items), NEW r \in Seq(Nat), NEW n \in Nat, InLine(P, n, n + Len(r)),
           \A i \in 1 .. Len(r) : r[i] = n + i - 1
    PROVE  \E at \in [DOMAIN r -> DOMAIN P] :
               /\ \A i, j \in DOMAIN at : i < j => at[i] < at[j]
               /\ Carriers(P) = {at[i] : i \in DOMAIN at}
               /\ \A i \in DOMAIN at : P[at[i]].id = r[i]
<1>1. /\ Len(P) \in Nat /\ Len(r) \in Nat /\ DOMAIN P = 1 .. Len(P) /\ DOMAIN r = 1 .. Len(r)
  BY LenProperties
<1>2. \A i \in 1 .. Len(r) : r[i] \in Nat /\ r[i] \in n .. (n + Len(r)) - 1
  BY <1>1
<1>3. \A x \in n .. (n + Len(r)) - 1 : x - n + 1 \in 1 .. Len(r) /\ r[x - n + 1] = x
  <2> TAKE x \in n .. (n + Len(r)) - 1
  <2>1. x - n + 1 \in 1 .. Len(r) /\ n + (x - n + 1) - 1 = x
    BY <1>1
  <2> QED
    BY <2>1
<1>4. \A i, j \in 1 .. Len(r) : i < j => r[i] < r[j]
  BY <1>1
<1> DEFINE Here(i, k) == Carrier(P[k]) /\ P[k].id = r[i]
           at == [i \in 1 .. Len(r) |-> CHOOSE k \in 1 .. Len(P) : Here(i, k)]
<1>5. \A i \in 1 .. Len(r) : \E k \in 1 .. Len(P) : Here(i, k)
  BY <1>2 DEF InLine
<1>6. \A i \in 1 .. Len(r) : at[i] \in 1 .. Len(P) /\ Here(i, at[i])
  <2> TAKE i \in 1 .. Len(r)
  <2>1. at[i] = CHOOSE k \in 1 .. Len(P) : Here(i, k)
    OBVIOUS
  <2>2. \E k \in 1 .. Len(P) : Here(i, k)
    BY <1>5
  <2> HIDE DEF at, Here
  <2> QED
    BY <2>1, <2>2
<1>7. at \in [1 .. Len(r) -> 1 .. Len(P)] /\ DOMAIN at = 1 .. Len(r)
  <2>1. \A i \in 1 .. Len(r) : (CHOOSE k \in 1 .. Len(P) : Here(i, k)) \in 1 .. Len(P)
    BY <1>6
  <2> HIDE DEF Here
  <2> QED
    BY <2>1
<1> HIDE DEF at
<1>8. ASSUME NEW i \in 1 .. Len(r), NEW j \in 1 .. Len(r), i < j PROVE at[i] < at[j]
  <2>1. /\ at[i] \in 1 .. Len(P) /\ at[j] \in 1 .. Len(P)
        /\ Carrier(P[at[i]]) /\ Carrier(P[at[j]]) /\ P[at[i]].id < P[at[j]].id
    BY <1>4, <1>6, <1>8
  <2>2. at[j] < at[i] => P[at[j]].id < P[at[i]].id
    BY <2>1 DEF InLine
  <2>3. /\ P[at[i]].id \in Nat /\ P[at[j]].id \in Nat
    BY <1>2, <1>6
  <2> DEFINE u == P[at[i]].id
             v == P[at[j]].id
  <2>6. u < v /\ (at[j] < at[i] => v < u) /\ u \in Nat /\ v \in Nat
    BY <2>1, <2>2, <2>3
  <2>5. at[i] # at[j]
    BY <2>1, <2>3
  <2> HIDE DEF u, v
  <2>7. ~(v < u)
    BY <2>6
  <2>4. ~(at[j] < at[i])
    BY <2>6, <2>7
  <2> QED
    BY <2>1, <2>4, <2>5
<1>9. ASSUME NEW k \in 1 .. Len(P), Carrier(P[k]) PROVE \E i \in 1 .. Len(r) : at[i] = k
  <2> DEFINE x == P[k].id
             i == x - n + 1
  <2>1. x \in n .. (n + Len(r)) - 1
    BY <1>9 DEF InLine
  <2>2. i \in 1 .. Len(r) /\ r[i] = x
    BY <1>3, <2>1
  <2> HIDE DEF i, x
  <2>3. at[i] \in 1 .. Len(P) /\ Carrier(P[at[i]]) /\ P[at[i]].id = P[k].id
    BY <1>6, <2>2 DEF x
  <2>4. P[k].id \in Nat
    BY <2>1 DEF x
  <2>5. /\ at[i] < k => P[at[i]].id < P[k].id
        /\ k < at[i] => P[k].id < P[at[i]].id
    BY <1>9, <2>3 DEF InLine
  <2>6. ~(at[i] < k) /\ ~(k < at[i])
    BY <2>3, <2>4, <2>5
  <2>7. at[i] = k
    BY <2>3, <2>6
  <2> QED
    BY <2>2, <2>7
<1>10. Carriers(P) = {at[i] : i \in 1 .. Len(r)}
  <2>1. Carriers(P) = {k \in 1 .. Len(P) : Carrier(P[k])}
    BY <1>1 DEF Carriers, Carrier
  <2>2. \A k \in 1 .. Len(P) : Carrier(P[k]) => k \in {at[i] : i \in 1 .. Len(r)}
    BY <1>9
  <2>3. \A i \in 1 .. Len(r) : at[i] \in 1 .. Len(P) /\ Carrier(P[at[i]])
    BY <1>6
  <2> QED
    BY <2>1, <2>2, <2>3
<1>11. \A i \in 1 .. Len(r) : P[at[i]].id = r[i]
  BY <1>6
<1> HIDE DEF Here
<1> QED
  BY <1>1, <1>7, <1>8, <1>10, <1>11

\* handle_error() is suspended.
LEMMA ErrorOnStack == ASSUME TypeOK PROVE ErrorPending <=> On("handleError", stack)
<1>1. DOMAIN stack = 1 .. Len(stack)
  BY LenProperties DEF TypeOK
<1> QED
  BY <1>1 DEF ErrorPending, On

\* The pipeline in order is what PipelineMatches says.
LEMMA LinesMatch ==
    ASSUME TypeOK, RequestLedger, FlatInv, Lined
    PROVE  PipelineMatches
<1> SUFFICES ASSUME ~ErrorPending, ~closeRequested
             PROVE  \E at \in [DOMAIN sentRequests -> DOMAIN Pipeline] :
                        /\ \A i, j \in DOMAIN at : i < j => at[i] < at[j]
                        /\ Carriers(Pipeline) = {at[i] : i \in DOMAIN at}
                        /\ \A i \in DOMAIN at : Pipeline[at[i]].id = sentRequests[i]
  BY DEF PipelineMatches
<1>1. fd # "Closed"
  BY ErrorOnStack DEF FlatInv, Descriptor
<1>2. Pipeline \in Seq(Items) /\ InLine(Pipeline, FirstSent, nextXid)
  BY <1>1, PipelineInLine
<1>3. /\ FirstSent \in Nat /\ nextXid = FirstSent + Len(sentRequests) /\ sentRequests \in Seq(Nat)
  <2>1. /\ Len(callbacks) \in Nat /\ FirstSent \in Int /\ nextXid \in Nat
        /\ Len(sentRequests) \in Nat
    BY QueueFacts
  <2>2. Len(callbacks) < FirstSent
    BY DEF RequestLedger, LedgerCount
  <2> QED
    BY <2>1, <2>2 DEF TypeOK, FirstSent
<1>4. \A i \in 1 .. Len(sentRequests) : sentRequests[i] = FirstSent + i - 1
  BY LedgerSays
<1> QED
  BY <1>2, <1>3, <1>4, Matching

-----------------------------------------------------------------------------
(* Credentials that wait for an answer                                     *)

\* Nothing is lost between to_send and the wire.
LEMMA FlushKeeps ==
    ASSUME TypeOK, NEW q \in Seq(Packets), FlushSendQueue(q), NEW p
    PROVE  Among(p, toServer) \/ Among(p, q) => Among(p, toServer') \/ Among(p, toSend')
<1>1. PICK k \in 0 .. (IF state = "CONNECTED" /\ fd = "Open" THEN Len(q) ELSE 0) :
          /\ toSend' = SubSeq(q, k + 1, Len(q))
          /\ toServer' = toServer \o SubSeq(q, 1, k)
  BY DEF FlushSendQueue
<1>2. k \in 0 .. Len(q) /\ toServer \in Seq(Packets)
  BY LenProperties DEF TypeOK
<1>3. /\ SubSeq(q, 1, k) \in Seq(Packets) /\ SubSeq(q, k + 1, Len(q)) \in Seq(Packets)
      /\ SubSeq(q, 1, k) \o SubSeq(q, k + 1, Len(q)) = q
  BY <1>2, CutFacts
<1>4. Among(p, q) <=> Among(p, SubSeq(q, 1, k)) \/ Among(p, SubSeq(q, k + 1, Len(q)))
  <2> DEFINE x == SubSeq(q, 1, k)
             y == SubSeq(q, k + 1, Len(q))
  <2>1. x \in Seq(Packets) /\ y \in Seq(Packets) /\ x \o y = q
    BY <1>3
  <2> HIDE DEF x, y
  <2>2. Among(p, x \o y) <=> Among(p, x) \/ Among(p, y)
    BY <2>1, AmongFacts
  <2>3. Among(p, q) <=> Among(p, x) \/ Among(p, y)
    BY <2>1, <2>2
  <2> QED
    BY <2>3 DEF x, y
<1>5. Among(p, toServer') <=> Among(p, toServer) \/ Among(p, SubSeq(q, 1, k))
  <2> DEFINE x == SubSeq(q, 1, k)
  <2>1. x \in Seq(Packets) /\ toServer' = toServer \o x
    BY <1>1, <1>3
  <2> HIDE DEF x
  <2>2. Among(p, toServer \o x) <=> Among(p, toServer) \/ Among(p, x)
    BY <1>2, <2>1, AmongFacts
  <2>3. Among(p, toServer') <=> Among(p, toServer) \/ Among(p, x)
    BY <2>1, <2>2
  <2> QED
    BY <2>3 DEF x
<1> QED
  BY <1>1, <1>4, <1>5

\* Where a credential's packet, or any answer to one, is.
Travels(i) ==
    \/ Among(Packet("auth", i), toSend) \/ Among(Packet("auth", i), toServer)
    \/ \E p \in Responses : p.kind = "auth" /\ (Among(p, fromServer) \/ Among(p, toProcess))
WaitingTravels ==
    state = "CONNECTED" /\ fd # "Closed" =>
        \A i \in 1 .. Len(authList) : authList[i] = "waiting" => Travels(i)

\* Every step that moves a credential's packet, or its answer, puts it in the next queue,
\* and every step that drops one answers all that wait.
LEMMA WaitingStep ==
    ASSUME ~Reentrant, TypeOK, StackInv, FlatInv, WaitingTravels, [Next]_vars
    PROVE  WaitingTravels'
<1> USE DEF queues, session, lifetime, history, network
<1>a. /\ toServer \in Seq(Packets) /\ fromServer \in Seq(Responses) /\ toSend \in Seq(Packets)
      /\ toProcess \in Seq(Responses) /\ nextXid \in Nat /\ clientId \in Nat
      /\ Len(authList) \in Nat /\ DOMAIN authList = 1 .. Len(authList)
  BY LenProperties DEF TypeOK
<1>w. ASSUME NEW i \in 1 .. Len(authList), authList[i] = "waiting", state = "CONNECTED", fd # "Closed"
      PROVE  Travels(i)
  BY <1>w DEF WaitingTravels
<1>t. ASSUME state' # "CONNECTED" \/ fd' = "Closed" PROVE WaitingTravels'
  BY <1>t DEF WaitingTravels
<1>c. ASSUME NEW rc \in Codes, CallAuthCompletions(rc) PROVE WaitingTravels'
  <2>1. Answered' /\ DOMAIN authList' = 1 .. Len(authList) /\ authList' \in Seq({"waiting"} \cup Codes)
    BY <1>c, AuthAnswers, CallAuthType DEF CallAuthCompletions
  <2>2. DOMAIN authList' = 1 .. Len(authList')
    BY <2>1, LenProperties
  <2> QED
    BY <2>1, <2>2 DEF Answered, WaitingTravels
<1>g. ASSUME UNCHANGED <<state, fd, authList>>, \A i \in Nat : Travels(i) => Travels(i)'
      PROVE  WaitingTravels'
  BY <1>a, <1>g DEF WaitingTravels
<1>k. ASSUME UNCHANGED <<state, fd, authList, toSend, toServer, fromServer, toProcess>>
      PROVE  WaitingTravels'
  BY <1>k DEF WaitingTravels, Travels
<1>f. ASSUME NEW q \in Seq(Packets), FlushSendQueue(q), \A p : Among(p, toSend) => Among(p, q),
             UNCHANGED <<state, fd, authList, fromServer, toProcess>>
      PROVE  WaitingTravels'
  <2>1. \A p : Among(p, toServer) \/ Among(p, q) => Among(p, toServer') \/ Among(p, toSend')
    BY <1>f, FlushKeeps
  <2>2. \A i \in Nat : Travels(i) => Travels(i)'
    BY <1>f, <2>1 DEF Travels
  <2> QED
    BY <1>f, <1>g, <2>2
<1>e. ASSUME NEW s, NEW rc, FailInApi(s, rc) PROVE WaitingTravels'
  BY <1>e, <1>t DEF FailInApi, HandleError, CloseFd
<1>p. ASSUME toProcess # <<>>, toProcess' = Tail(toProcess), Head(toProcess).kind # "auth",
             UNCHANGED <<state, fd, authList, toSend, toServer, fromServer>>
      PROVE  WaitingTravels'
  <2>1. \A p : Among(p, toProcess) => p = Head(toProcess) \/ Among(p, toProcess')
    BY <1>a, <1>p, AmongFacts
  <2>2. \A i \in Nat : Travels(i) => Travels(i)'
    BY <1>p, <2>1 DEF Travels
  <2> QED
    BY <1>g, <1>p, <2>2
<1>1. CASE InterestWrap
  BY <1>1, <1>k DEF InterestWrap
<1>2. CASE InterestConnect \/ InterestConnectNow
  BY <1>2, <1>t DEF InterestConnect, InterestConnectNow
<1>3. CASE InterestConnectFails \/ InterestTimeout
  BY <1>3, <1>e DEF InterestConnectFails, InterestTimeout
<1>4. CASE InterestPing
  <2>1. Packet("ping", 0) \in Packets
    BY DEF Packet, Packets
  <2>2. /\ Append(toSend, Packet("ping", 0)) \in Seq(Packets)
        /\ \A p : Among(p, toSend) => Among(p, Append(toSend, Packet("ping", 0)))
    BY <1>a, <2>1, AppendProperties, AmongFacts
  <2> QED
    BY <1>4, <1>f, <2>2 DEF InterestPing
<1>5. CASE ProcessConnected
  BY <1>5, <1>t DEF ProcessConnected
<1>6. CASE ProcessFails \/ ProcessExpired
  BY <1>6, <1>e DEF ProcessFails, ProcessExpired
<1>7. CASE ProcessWrite
  BY <1>7, <1>a, <1>f DEF ProcessWrite
<1>8. CASE ProcessNothing
  <2>1. FlushSendQueue(toSend) /\ UNCHANGED <<state, fd, authList, fromServer, toProcess>>
    BY <1>8 DEF ProcessNothing
  <2> QED
    BY <1>a, <1>f, <2>1
<1>9. CASE ProcessRead
  <2>1. /\ FlushSendQueue(toSend) /\ UNCHANGED <<state, fd, authList>>
        /\ fromServer # <<>> /\ fromServer' = Tail(fromServer)
        /\ toProcess' = Append(toProcess, Head(fromServer))
    BY <1>9 DEF ProcessRead, Readable
  <2>2. Head(fromServer) \in Responses
    BY <1>a, <2>1, EmptySeq, HeadTailProperties
  <2>3. \A p : Among(p, toServer) \/ Among(p, toSend) => Among(p, toServer') \/ Among(p, toSend')
    BY <1>a, <2>1, FlushKeeps
  <2>4. \A p : Among(p, fromServer) <=> p = Head(fromServer) \/ Among(p, Tail(fromServer))
    BY <1>a, <2>1, AmongFacts
  <2>5. \A p : Among(p, toProcess') <=> Among(p, toProcess) \/ p = Head(fromServer)
    BY <1>a, <2>1, <2>2, AmongFacts
  <2>6. \A i \in Nat : Travels(i) => Travels(i)'
    BY <2>1, <2>3, <2>4, <2>5 DEF Travels
  <2> QED
    BY <1>g, <2>1, <2>6
<1>10. CASE ProcessEstablished
  <2>1. PICK watches \in {<<>>, <<Packet("setWatches", 0)>>} :
              toSend' = AllCredentials \o watches \o toSend
    BY <1>10 DEF ProcessEstablished
  <2>2. UNCHANGED authList
    BY <1>10 DEF ProcessEstablished
  <2>3. watches \in Seq(Packets)
    <3>1. Packet("setWatches", 0) \in Packets
      BY DEF Packet, Packets
    <3>2. <<Packet("setWatches", 0)>> \in Seq(Packets) /\ <<>> \in Seq(Packets)
      BY <3>1
    <3> QED
      BY <2>1, <3>2
  <2>4. AllCredentials \in Seq(Packets) /\ Len(AllCredentials) = Len(authList)
    <3>1. \A i \in 1 .. Len(authList) : Packet("auth", Len(authList) + 1 - i) \in Packets
      BY <1>a DEF Packet, Packets
    <3> QED
      BY <1>a, <3>1, IsASeq DEF AllCredentials
  <2>5. ASSUME NEW i \in 1 .. Len(authList) PROVE Among(Packet("auth", i), AllCredentials)
    <3> DEFINE k == Len(authList) + 1 - i
    <3>1. k \in 1 .. Len(authList) /\ Len(authList) + 1 - k = i
      BY <1>a
    <3>2. AllCredentials[k] = Packet("auth", i)
      BY <3>1 DEF AllCredentials
    <3> HIDE DEF k
    <3> QED
      BY <2>4, <3>1, <3>2 DEF Among
  <2>6. AllCredentials \o watches \in Seq(Packets)
    BY <2>3, <2>4, ConcatProperties
  <2>7. \A p : Among(p, AllCredentials) => Among(p, AllCredentials \o watches)
    BY <2>3, <2>4, AmongFacts
  <2> DEFINE w == AllCredentials \o watches
  <2> HIDE DEF w
  <2>8. \A p : Among(p, w) => Among(p, w \o toSend)
    BY <1>a, <2>6, AmongFacts DEF w
  <2>9. \A p : Among(p, AllCredentials) => Among(p, toSend')
    BY <2>1, <2>7, <2>8 DEF w
  <2> QED
    BY <2>2, <2>5, <2>9 DEF WaitingTravels, Travels
<1>11. CASE CheckEventsTail
  <2>1. On("checkEvents", stack)
    <3>1. stack # <<>> /\ Top.fn = "checkEvents" /\ stack \in Seq(Frames)
      BY <1>11 DEF CheckEventsTail, TopIs, TypeOK
    <3> QED
      BY <3>1, PopFacts DEF On, Top
  <2>2. inputBuffer = "NULL"
    BY <2>1 DEF FlatInv, Descriptor
  <2> QED
    BY <1>11, <1>k, <2>2 DEF CheckEventsTail, CutShort
<1>12. CASE ProcessDone
  BY <1>12, <1>k DEF ProcessDone
<1>13. CASE ProcessIgnored \/ ProcessEvent \/ ProcessReply
  BY <1>13, <1>p DEF ProcessIgnored, ProcessEvent, ProcessReply, ReplyReceived, Received
<1>14. CASE ProcessAuth
  <2>1. PICK rc \in Codes : CallAuthCompletions(rc)
    BY <1>14 DEF ProcessAuth, AuthCode, Codes
  <2> QED
    BY <1>c, <2>1
<1>15. CASE ProcessOutOfOrder
  BY <1>15, <1>t DEF ProcessOutOfOrder, HandleError, CloseFd
<1>16. CASE ProcessAfterClose
  <2>1. /\ toProcess # <<>> /\ toProcess' = Tail(toProcess) /\ Head(toProcess).kind # "auth"
        /\ UNCHANGED <<state, fd, authList, toSend, toServer, fromServer>>
    BY <1>16 DEF ProcessAfterClose, ReplyReceived, Received
  <2> QED
    BY <1>p, <2>1
<1>17. CASE RunCompletion \/ RunWatcher \/ CompletionsDone \/ WatcherReturns
  BY <1>17, <1>k DEF RunCompletion, RunWatcher, CompletionsDone, WatcherReturns
<1>18. CASE HandleErrorTail
  BY <1>18, <1>t DEF HandleErrorTail, StateAfterError, IsUnrecoverable, Unrecoverable
<1>19. CASE Epilog
  <2>1. CASE CloseDue
    <3>1. "ZCLOSING" \in Codes /\ CallAuthCompletions("ZCLOSING")
      BY <1>19, <2>1 DEF Epilog, Destroy, CleanupBufs, Codes
    <3> QED
      BY <1>c, <3>1
  <2>2. CASE ~CloseDue
    BY <1>19, <1>k, <2>2 DEF Epilog
  <2> QED
    BY <2>1, <2>2
<1>20. CASE CloseInCallback \/ CloseAtTop
  <2>1. "ZCLOSING" \in Codes /\ CallAuthCompletions("ZCLOSING")
    BY <1>20 DEF CloseInCallback, CloseAtTop, Destroy, CleanupBufs, Codes
  <2> QED
    BY <1>c, <2>1
<1>21. CASE Submit
  <2>1. Packet("request", nextXid) \in Packets
    BY <1>a DEF Packet, Packets
  <2>2. /\ Append(toSend, Packet("request", nextXid)) \in Seq(Packets)
        /\ \A p : Among(p, toSend) => Among(p, Append(toSend, Packet("request", nextXid)))
    BY <1>a, <2>1, AppendProperties, AmongFacts
  <2> QED
    BY <1>21, <1>f, <2>2 DEF Submit
<1>22. CASE SubmitRefused
  BY <1>22, <1>a, <1>f DEF SubmitRefused
<1>23. CASE AddAuth
  <2>0. PICK n \in Nat : n = Len(authList) + 1
    BY <1>a
  <2> DEFINE p == Packet("auth", n)
  <2>1. /\ authList' = Append(authList, "waiting")
        /\ toSend' = IF SendsAuthNow THEN <<p>> \o toSend ELSE toSend
        /\ UNCHANGED <<state, fd, toServer, fromServer, toProcess>>
    BY <1>23, <2>0 DEF AddAuth
  <2>2. p \in Packets /\ n \in Nat
    BY <1>a DEF Packet, Packets
  <2>3. /\ Len(authList') = n /\ \A i \in 1 .. Len(authList) : authList'[i] = authList[i]
    BY <2>0, <2>1, AppendProperties DEF TypeOK
  <2>4. \A i \in 1 .. n : i \in 1 .. Len(authList) \/ i = n
    BY <1>a, <2>0
  <2>5. CASE state # "CONNECTED"
    BY <1>t, <2>1, <2>5
  <2>6. CASE state = "CONNECTED"
    <3>1. toSend' = <<p>> \o toSend
      BY <2>1, <2>6 DEF SendsAuthNow
    <3> HIDE DEF p
    <3>2. <<p>> \in Seq(Packets) /\ Len(<<p>>) = 1 /\ <<p>>[1] = p
      BY <2>2
    <3>3. Among(p, <<p>>)
      BY <3>2 DEF Among
    <3>4. \A x : Among(x, toSend') <=> Among(x, <<p>>) \/ Among(x, toSend)
      BY <1>a, <3>1, <3>2, AmongFacts
    <3>5. \A i \in Nat : Travels(i) => Travels(i)'
      BY <2>1, <3>4 DEF Travels
    <3>6. Travels(n)'
      <4>1. Among(p, toSend')
        BY <3>3, <3>4
      <4> QED
        BY <4>1 DEF Travels, p
    <3>7. ASSUME fd' # "Closed", NEW i \in 1 .. n, authList'[i] = "waiting" PROVE Travels(i)'
      <4>1. CASE i = n
        <5>1. Packet("auth", i)' = Packet("auth", i) /\ Packet("auth", n)' = Packet("auth", n)
          BY DEF Packet
        <5> QED
          BY <3>6, <4>1, <5>1 DEF Travels
      <4>2. CASE i \in 1 .. Len(authList)
        <5>1. Travels(i) /\ i \in Nat
          BY <1>w, <1>a, <2>1, <2>3, <2>6, <3>7, <4>2
        <5> QED
          BY <3>5, <5>1
      <4> QED
        BY <2>4, <4>1, <4>2
    <3> QED
      BY <2>3, <3>7 DEF WaitingTravels
  <2> QED
    BY <2>5, <2>6
<1>24. CASE ServerStep
  <2>1. /\ toServer # <<>> /\ toServer' = Tail(toServer)
        /\ UNCHANGED <<state, fd, authList, toProcess, toSend>>
    BY <1>24 DEF ServerStep
  <2>2. Head(toServer) \in Packets
    BY <1>a, <2>1, EmptySeq, HeadTailProperties
  <2>3. \A p : Among(p, toServer) => p = Head(toServer) \/ Among(p, toServer')
    BY <1>a, <2>1, AmongFacts
  <2>4. PICK r \in Responses : /\ fromServer' = Append(fromServer, r)
                               /\ Head(toServer).kind = "auth" => r.kind = "auth"
    <3>0. Head(toServer).id \in Nat
      BY <2>2 DEF Packets
    <3>1. CASE Head(toServer).kind = "connect"
      <4>1. PICK id \in IF Head(toServer).id = 0 THEN {1} ELSE {0, Head(toServer).id} :
                fromServer' = Append(fromServer, Response("primer", id, TRUE))
        BY <1>24, <3>1 DEF ServerStep
      <4>2. Response("primer", id, TRUE) \in Responses
        BY <3>0, <4>1 DEF Response, Responses
      <4> QED
        BY <3>1, <4>1, <4>2
    <3>2. CASE Head(toServer).kind = "request"
      <4>1. fromServer' = Append(fromServer, Response("reply", Head(toServer).id, TRUE))
        BY <1>24, <3>2 DEF ServerStep
      <4>2. Response("reply", Head(toServer).id, TRUE) \in Responses
        BY <3>0 DEF Response, Responses
      <4> QED
        BY <3>2, <4>1, <4>2
    <3>3. CASE Head(toServer).kind = "auth"
      <4>1. PICK ok \in BOOLEAN : fromServer' = Append(fromServer, Response("auth", Head(toServer).id, ok))
        BY <1>24, <3>3 DEF ServerStep
      <4>2. Response("auth", Head(toServer).id, ok) \in Responses
            /\ Response("auth", Head(toServer).id, ok).kind = "auth"
        BY <3>0 DEF Response, Responses
      <4> QED
        BY <4>1, <4>2
    <3>4. CASE Head(toServer).kind \in {"setWatches", "ping"}
      <4>1. fromServer' = Append(fromServer, Response(Head(toServer).kind, 0, TRUE))
        BY <1>24, <3>4 DEF ServerStep
      <4>2. Response(Head(toServer).kind, 0, TRUE) \in Responses
        BY <3>4 DEF Response, Responses
      <4> QED
        BY <3>4, <4>1, <4>2
    <3> QED
      BY <2>2, <3>1, <3>2, <3>3, <3>4 DEF Packets
  <2>5. \A p : Among(p, fromServer') <=> Among(p, fromServer) \/ p = r
    BY <1>a, <2>4, AmongFacts
  <2>6. ASSUME NEW i \in Nat, Travels(i) PROVE Travels(i)'
    <3>1. CASE Packet("auth", i) = Head(toServer)
      <4>1. r.kind = "auth" /\ Among(r, fromServer')
        BY <2>4, <2>5, <3>1 DEF Packet
      <4> QED
        BY <4>1 DEF Travels
    <3>2. CASE Packet("auth", i) # Head(toServer)
      BY <2>1, <2>3, <2>5, <2>6, <3>2 DEF Travels
    <3> QED
      BY <3>1, <3>2
  <2> QED
    BY <1>g, <2>1, <2>6
<1>25. CASE ServerEvent
  <2>1. /\ fromServer' = Append(fromServer, Response("event", 0, TRUE))
        /\ UNCHANGED <<state, fd, authList, toProcess, toServer, toSend>>
    BY <1>25 DEF ServerEvent
  <2>2. Response("event", 0, TRUE) \in Responses
    BY DEF Response, Responses
  <2>3. \A p : Among(p, fromServer) => Among(p, fromServer')
    BY <1>a, <2>1, <2>2, AmongFacts
  <2>4. \A i \in Nat : Travels(i) => Travels(i)'
    BY <2>1, <2>3 DEF Travels
  <2> QED
    BY <1>g, <2>1, <2>4
<1>26. CASE PeerFails \/ UNCHANGED vars
  BY <1>26, <1>k DEF PeerFails, vars
<1> QED
  BY <1>1, <1>2, <1>3, <1>4, <1>5, <1>6, <1>7, <1>8, <1>9, <1>10, <1>11, <1>12, <1>13, <1>14,
     <1>15, <1>16, <1>17, <1>18, <1>19, <1>20, <1>21, <1>22, <1>23, <1>24, <1>25, <1>26
  DEF Next, Interest, CheckEvents, Continue, Api, Environment

\* That is what WaitingAuthOnItsWay says.
LEMMA TravelsOnItsWay ==
    ASSUME TypeOK, FlatInv, WaitingTravels
    PROVE  WaitingAuthOnItsWay
<1> SUFFICES ASSUME state = "CONNECTED", ~ErrorPending, NEW i \in DOMAIN authList,
                    authList[i] = "waiting"
             PROVE  OnItsWay(i)
  BY DEF WaitingAuthOnItsWay
<1>1. /\ DOMAIN toSend = 1 .. Len(toSend) /\ DOMAIN toServer = 1 .. Len(toServer)
      /\ DOMAIN fromServer = 1 .. Len(fromServer) /\ DOMAIN toProcess = 1 .. Len(toProcess)
      /\ DOMAIN authList = 1 .. Len(authList)
  BY LenProperties DEF TypeOK
<1>2. fd # "Closed"
  BY ErrorOnStack DEF FlatInv, Descriptor
<1>3. Travels(i)
  BY <1>1, <1>2 DEF WaitingTravels
<1> QED
  BY <1>1, <1>3 DEF Travels, OnItsWay, Among

-----------------------------------------------------------------------------
(* Theorems                                                                *)

FlatAll == TypeOK /\ RequestLedger /\ StackInv /\ FlatInv /\ Settled /\ Handshake /\ Lined /\ WaitingTravels

\* All of them hold at the start ...
LEMMA FlatAllInit == Init => FlatAll
<1> SUFFICES ASSUME Init PROVE FlatAll
  OBVIOUS
<1>1. Settled /\ WaitingTravels
  BY DEF Init, Settled, WaitingTravels, IsUnrecoverable, Unrecoverable
<1>2. Handshake
  <2>1. Len(<<>>) = 0
    OBVIOUS
  <2>2. \A k : OfKind(<<>>, k)
    BY <2>1 DEF OfKind
  <2> QED
    BY <2>2 DEF Init, Handshake
<1> QED
  BY <1>1, <1>2, TypeInit, LedgerInit, StackInit, FlatInit, LinedInit DEF FlatAll

\* ... after every step ...
LEMMA FlatAllStep == ASSUME ~Reentrant, FlatAll, [Next]_vars PROVE FlatAll'
BY TypeStep, LedgerStep, StackStep, FlatStep, SettledStep, HandshakeStep, LinedStep, WaitingStep DEF FlatAll

\* ... and always ...
LEMMA FlatAlways == ASSUME ~Reentrant PROVE Spec => []FlatAll
<1>1. FlatAll /\ [Next]_vars => FlatAll'
  BY FlatAllStep
<1> QED
  BY <1>1, FlatAllInit, PTL DEF Spec

\* ... and they imply the invariants.
LEMMA FlatSays ==
    ASSUME FlatAll
    PROVE  /\ DescriptorOwned /\ ConnectIndexInBounds /\ NothingOwedAfterLoss
           /\ PipelineMatches /\ WaitingAuthOnItsWay
<1>1. PipelineMatches /\ WaitingAuthOnItsWay
  BY LinesMatch, TravelsOnItsWay DEF FlatAll
<1>2. ConnectIndexInBounds
  BY DEF FlatAll, FlatInv, Index, ConnectIndexInBounds
<1>3. DescriptorOwned
  <2>1. ErrorPending <=> On("handleError", stack)
    BY ErrorOnStack DEF FlatAll
  <2>2. TopIs("handleError") => On("handleError", stack)
    <3>1. stack \in Seq(Frames)
      BY DEF FlatAll, TypeOK
    <3> QED
      BY <3>1, PopFacts DEF On, Top, TopIs
  <2> QED
    BY <2>1, <2>2 DEF FlatAll, FlatInv, Descriptor, DescriptorOwned
<1>4. NothingOwedAfterLoss
  <2> SUFFICES ASSUME IsUnrecoverable, stack = <<>>
               PROVE  /\ sentRequests = <<>> /\ completionsToProcess = <<>> /\ toSend = <<>>
                      /\ fd = "NoFd" /\ Answered
    BY DEF NothingOwedAfterLoss, Answered
  <2>1. ~On("handleError", stack) /\ ~On("completions", stack)
    BY EmptyStack
  <2>2. fd # "Closed"
    BY <2>1 DEF FlatAll, FlatInv, Descriptor
  <2> QED
    BY <2>1, <2>2 DEF FlatAll, Settled
<1> QED
  BY <1>1, <1>2, <1>3, <1>4

\* A descriptor that was closed stays in zh->fd only while handle_error() is
\* suspended, which never forgets an open one.
THEOREM Descriptors == ASSUME ~Reentrant PROVE Spec => []DescriptorOwned
<1> QED
  BY FlatAlways, FlatSays, PTL

\* connect_index never runs past addrs_count, for which zookeeper_interest() tests.
THEOREM IndexBounded == ASSUME ~Reentrant PROVE Spec => []ConnectIndexInBounds
<1> QED
  BY FlatAlways, FlatSays, PTL

\* When the session is lost for good, every request and credential has been
\* answered by the time the API call that found out returns.
THEOREM LossSettles == ASSUME ~Reentrant PROVE Spec => []NothingOwedAfterLoss
<1> QED
  BY FlatAlways, FlatSays, PTL

\* Replies arrive in the order of sent_requests: to_process, the wire and to_send
\* hold exactly the outstanding requests, oldest first.
THEOREM InOrder == ASSUME ~Reentrant PROVE Spec => []PipelineMatches
<1> QED
  BY FlatAlways, FlatSays, PTL

\* A credential that waits for its answer is on its way as long as the session is
\* established.
THEOREM CredentialsTravel == ASSUME ~Reentrant PROVE Spec => []WaitingAuthOnItsWay
<1> QED
  BY FlatAlways, FlatSays, PTL
=============================================================================
