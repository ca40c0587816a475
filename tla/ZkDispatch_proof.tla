--------------------------- MODULE ZkDispatch_proof ---------------------------
(***************************************************************************)
(* Proofs about the dispatch loop.  Methods, watchers and the handling of  *)
(* an error pile up on one stack, so everything depends on which frames    *)
(* lie above a method that still waits: Cover says that the completion of  *)
(* a request runs before the frames below it go on, or that the error of   *)
(* the connection is still being handled above it.                         *)
(***************************************************************************)
EXTENDS ZkDispatch, ZkSequences

Frames    == [fn : FrameKinds, req : 0 .. MaxCalls, rc : Codes]
Responses == [kind : {"reply", "node", "session"}, req : 0 .. MaxCalls, rc : Codes]
QueryResults == [running : BOOLEAN, error : Codes, retval : Values]

-----------------------------------------------------------------------------
(* Stacks                                                                  *)

Methodic == {"loop", "poll", "return"}

\* What lies directly on what.
Follows(f, g) ==
    \/ f = "loop" /\ g \in {"call", "completions"}
    \/ f = "call" /\ g \in {"tail", "completions"}
    \/ f = "tail" /\ g = "completions"
    \/ f = "completions" /\ g = "watcher"
    \/ f = "watcher" /\ g \in Methodic

Sound(f) == /\ f.fn \notin Methodic => f.req = 0
            /\ f.fn = "return" => f.req # 0
            /\ f.fn \in {"call", "tail"} => f.rc \in Failures

Shaped(s) == /\ s # <<>> => s[1].fn \in Methodic
             /\ \A i \in 1 .. Len(s) - 1 : Follows(s[i].fn, s[i + 1].fn)
             /\ \A i \in 1 .. Len(s) : Sound(s[i])

\* On the stack, an inner method has made its request later; completions run in the
\* order of the requests.
Rising(s) == \A i, j \in 1 .. Len(s) :
                 i < j /\ s[i].req # 0 /\ s[j].req # 0 => s[i].req < s[j].req

\* Something in s is for request r.
Holds(r, s) == \E i \in 1 .. Len(s) : s[i].req = r

WellMade(s) == s \in Seq(Frames) /\ Shaped(s) /\ Rising(s)

\* An API call the method of request r has made is about to fail; above every frame of
\* that method there is one at fn.
Failing(r, s)     == \E i \in 1 .. Len(s) - 1 : s[i].req = r /\ s[i + 1].fn = "call"
Covered(r, s, fn) == \A i \in 1 .. Len(s) :
                         s[i].req = r => \E j \in 1 .. Len(s) : i < j /\ s[j].fn = fn

\* The stack s and the stack t that came of it, for the frames fn.
Kept(s, t, fn) == \A r \in Requests : /\ Holds(r, t) <=> Holds(r, s)
                                      /\ Failing(r, t) => Failing(r, s)
                                      /\ Covered(r, s, fn) => Covered(r, t, fn)

\* Pushed and popped.
LEMMA AppendedFront ==
    ASSUME NEW S, NEW s \in Seq(S), NEW f \in S
    PROVE  Front(Append(s, f)) = s
<1>1. /\ Append(s, f) \in Seq(S) /\ Len(Append(s, f)) = Len(s) + 1 /\ Len(s) \in Nat
      /\ \A i \in 1 .. Len(s) : Append(s, f)[i] = s[i]
  BY AppendProperties, LenProperties
<1>2. Append(s, f) # <<>>
  BY <1>1, EmptySeq
<1> DEFINE t == Append(s, f)
           p == SubSeq(t, 1, Len(t) - 1)
<1>3. /\ p \in Seq(S) /\ Len(p) = Len(t) - 1
      /\ \A i \in 1 .. Len(t) - 1 : p[i] = t[i]
  BY <1>1, <1>2, PopFacts
<1> HIDE DEF p
<1>4. Len(p) = Len(s) /\ \A i \in 1 .. Len(s) : p[i] = s[i]
  BY <1>1, <1>3
<1>5. p = s
  BY <1>3, <1>4, SeqEqual
<1> QED
  BY <1>5 DEF Front, p

\* What is put behind all others is the latest.
LEMMA LatestLast ==
    ASSUME NEW S, NEW s \in Seq(S), NEW f \in S, Rising(s),
           \A r : Holds(r, s) /\ r # 0 /\ f.req # 0 => r < f.req
    PROVE  /\ Rising(Append(s, f))
           /\ \A r : Holds(r, Append(s, f)) <=> Holds(r, s) \/ f.req = r
<1> DEFINE t == Append(s, f)
<1>1. PICK n \in Nat : n = Len(s)
  BY LenProperties
<1>2. Len(t) = n + 1 /\ (\A i \in 1 .. n : t[i] = s[i]) /\ t[n + 1] = f
  BY <1>1, AppendProperties
<1> HIDE DEF t
<1>3. /\ \A i \in 1 .. n : i \in 1 .. n + 1 /\ i # n + 1
      /\ \A i \in 1 .. n + 1 : i \in 1 .. n \/ i = n + 1
      /\ n + 1 \in 1 .. n + 1
  OBVIOUS
<1>4. \A r : Holds(r, t) <=> Holds(r, s) \/ f.req = r
  BY <1>1, <1>2, <1>3 DEF Holds
<1>5. Rising(t)
  <2> SUFFICES ASSUME NEW i \in 1 .. n + 1, NEW j \in 1 .. n + 1, i < j, t[i].req # 0, t[j].req # 0
               PROVE  t[i].req < t[j].req
    BY <1>2 DEF Rising
  <2>1. i \in 1 .. n
    OBVIOUS
  <2>2. CASE j \in 1 .. n
    BY <1>1, <1>2, <2>1, <2>2 DEF Rising
  <2>3. CASE j = n + 1
    BY <1>1, <1>2, <2>1, <2>3 DEF Holds
  <2> QED
    BY <1>3, <2>2, <2>3
<1> QED
  BY <1>4, <1>5 DEF t

\* A stack whose top is taken off.
LEMMA Popped ==
    ASSUME NEW s, WellMade(s), s # <<>>
    PROVE  /\ WellMade(Front(s)) /\ Last(s) \in Frames /\ Sound(Last(s))
           /\ \A r : Holds(r, s) <=> Holds(r, Front(s)) \/ Last(s).req = r
           /\ \A r : Failing(r, Front(s)) => Failing(r, s)
           /\ \A r, fn : Covered(r, s, fn) => Last(s).req # r
           /\ \A r, fn : Covered(r, s, fn) /\ Last(s).fn # fn => Covered(r, Front(s), fn)
           /\ \A r : Holds(r, Front(s)) /\ r # 0 /\ Last(s).req # 0 => r < Last(s).req
           /\ Front(s) = <<>> => Last(s).fn \in Methodic
           /\ Front(s) # <<>> =>
                  /\ Follows(Last(Front(s)).fn, Last(s).fn)
                  /\ Last(s).fn = "call" => Failing(Last(Front(s)).req, s)
<1> DEFINE p == Front(s)
<1>1. s \in Seq(Frames) /\ Shaped(s) /\ Rising(s)
  BY DEF WellMade
<1>2. /\ p \in Seq(Frames) /\ Len(p) = Len(s) - 1
      /\ \A i \in 1 .. Len(s) - 1 : p[i] = s[i]
      /\ Len(s) \in Nat \ {0} /\ s[Len(s)] \in Frames
  BY <1>1, PopFacts DEF Front
<1>3. Last(s) = s[Len(s)]
  BY DEF Last
<1> HIDE DEF p
<1>4. PICK n \in Nat : n = Len(s) - 1 /\ Len(s) = n + 1 /\ Len(p) = n
  BY <1>2
<1>5. /\ \A i \in 1 .. n : p[i] = s[i]
      /\ \A i \in 1 .. n : i \in 1 .. n + 1 /\ i # n + 1 /\ i < n + 1
      /\ \A i \in 1 .. n + 1 : i \in 1 .. n \/ i = n + 1
      /\ n + 1 \in 1 .. n + 1 /\ Last(s) = s[n + 1]
      /\ \A i \in 1 .. n - 1 : i \in 1 .. n /\ i + 1 \in 1 .. n
  BY <1>2, <1>3, <1>4
<1>6. /\ s[1].fn \in Methodic
      /\ \A i \in 1 .. n : Follows(s[i].fn, s[i + 1].fn)
      /\ \A i \in 1 .. n + 1 : Sound(s[i])
  BY <1>1, <1>4 DEF Shaped
<1>7. Shaped(p)
  <2>1. p # <<>> => p[1].fn \in Methodic
    <3>1. p # <<>> => 1 \in 1 .. n
      BY <1>2, <1>4, EmptySeq
    <3> QED
      BY <1>5, <1>6, <3>1
  <2>2. \A i \in 1 .. n - 1 : Follows(p[i].fn, p[i + 1].fn)
    BY <1>5, <1>6
  <2>3. \A i \in 1 .. n : Sound(p[i])
    BY <1>5, <1>6
  <2> QED
    BY <1>4, <2>1, <2>2, <2>3 DEF Shaped
<1>8. Rising(p)
  BY <1>1, <1>4, <1>5 DEF Rising
<1>9. \A r : Holds(r, s) <=> Holds(r, p) \/ Last(s).req = r
  BY <1>4, <1>5 DEF Holds
<1>10. \A r : Failing(r, p) => Failing(r, s)
  BY <1>4, <1>5 DEF Failing
<1>11. \A r, fn : Covered(r, s, fn) => Last(s).req # r
  <2> SUFFICES ASSUME NEW r, NEW fn, Covered(r, s, fn), Last(s).req = r PROVE FALSE
    OBVIOUS
  <2>1. PICK j \in 1 .. n + 1 : n + 1 < j
    BY <1>4, <1>5 DEF Covered
  <2> QED
    BY <2>1
<1>12. \A r, fn : Covered(r, s, fn) /\ Last(s).fn # fn => Covered(r, p, fn)
  <2> SUFFICES ASSUME NEW r, NEW fn, Covered(r, s, fn), Last(s).fn # fn
               PROVE  Covered(r, p, fn)
    OBVIOUS
  <2>1. ASSUME NEW i \in 1 .. n, p[i].req = r
        PROVE  \E j \in 1 .. n : i < j /\ p[j].fn = fn
    <3>1. i \in 1 .. Len(s) /\ s[i].req = r
      BY <1>4, <1>5, <2>1
    <3>2. PICK j \in 1 .. Len(s) : i < j /\ s[j].fn = fn
      BY <3>1 DEF Covered
    <3>3. j \in 1 .. n
      BY <1>4, <1>5, <3>2
    <3> QED
      BY <1>5, <3>2, <3>3
  <2> QED
    BY <1>4, <2>1 DEF Covered
<1>13. \A r : Holds(r, p) /\ r # 0 /\ Last(s).req # 0 => r < Last(s).req
  <2> SUFFICES ASSUME NEW r, Holds(r, p), r # 0, Last(s).req # 0 PROVE r < Last(s).req
    OBVIOUS
  <2>1. PICK i \in 1 .. n : p[i].req = r
    BY <1>4 DEF Holds
  <2>2. /\ i \in 1 .. Len(s) /\ n + 1 \in 1 .. Len(s) /\ i < n + 1
        /\ s[i].req = r /\ s[n + 1].req = Last(s).req
    BY <1>4, <1>5, <2>1
  <2>3. s[i].req < s[n + 1].req
    BY <1>1, <2>2 DEF Rising
  <2> QED
    BY <2>2, <2>3
<1>14. p = <<>> => Last(s).fn \in Methodic
  <2>1. p = <<>> => n = 0
    BY <1>2, <1>4, EmptySeq
  <2>2. n = 0 => n + 1 = 1
    OBVIOUS
  <2> QED
    BY <1>5, <1>6, <2>1, <2>2
<1>15. p # <<>> => /\ Follows(Last(p).fn, Last(s).fn)
                   /\ Last(s).fn = "call" => Failing(Last(p).req, s)
  <2> SUFFICES ASSUME p # <<>> PROVE /\ Follows(Last(p).fn, Last(s).fn)
                                     /\ Last(s).fn = "call" => Failing(Last(p).req, s)
    OBVIOUS
  <2>1. n \in 1 .. n /\ n \in 1 .. (n + 1) - 1
    BY <1>2, <1>4, EmptySeq
  <2>2. Last(p) = s[n]
    BY <1>4, <1>5, <2>1 DEF Last
  <2> QED
    BY <1>4, <1>5, <1>6, <2>1, <2>2 DEF Failing
<1>16. WellMade(p) /\ Sound(Last(s))
  BY <1>2, <1>5, <1>6, <1>7, <1>8 DEF WellMade
<1> QED
  BY <1>2, <1>3, <1>9, <1>10, <1>11, <1>12, <1>13, <1>14, <1>15, <1>16 DEF p

\* A stack that a frame is pushed on.
LEMMA Pushed ==
    ASSUME NEW s, WellMade(s), NEW f \in Frames, Sound(f),
           s = <<>> => f.fn \in Methodic,
           s # <<>> => Follows(Last(s).fn, f.fn),
           \A r : Holds(r, s) /\ r # 0 /\ f.req # 0 => r < f.req
    PROVE  /\ WellMade(Append(s, f)) /\ Append(s, f) # <<>>
           /\ Last(Append(s, f)) = f /\ Front(Append(s, f)) = s
           /\ \A r : Holds(r, Append(s, f)) <=> Holds(r, s) \/ f.req = r
           /\ \A r : Failing(r, Append(s, f))
                        => Failing(r, s) \/ (s # <<>> /\ Last(s).req = r /\ f.fn = "call")
           /\ \A r, fn : f.req # r /\ (Covered(r, s, fn) \/ f.fn = fn)
                            => Covered(r, Append(s, f), fn)
<1> DEFINE t == Append(s, f)
<1>1. s \in Seq(Frames) /\ Shaped(s) /\ Rising(s)
  BY DEF WellMade
<1>2. PICK n \in Nat : n = Len(s)
  BY <1>1, LenProperties
<1>3. /\ t \in Seq(Frames) /\ Len(t) = n + 1
      /\ \A i \in 1 .. n : t[i] = s[i]
      /\ t[n + 1] = f
  BY <1>1, <1>2, AppendProperties
<1>5. Front(t) = s
  BY <1>1, AppendedFront
<1> HIDE DEF t
<1>4. t # <<>> /\ Last(t) = f
  BY <1>2, <1>3, EmptySeq DEF Last
<1>6. /\ \A i \in 1 .. n : i \in 1 .. n + 1 /\ i # n + 1 /\ i < n + 1
      /\ \A i \in 1 .. n + 1 : i \in 1 .. n \/ i = n + 1
      /\ n + 1 \in 1 .. n + 1
      /\ \A i \in 1 .. n : i \in 1 .. n - 1 \/ i = n
      /\ \A i \in 1 .. n - 1 : i \in 1 .. n /\ i + 1 \in 1 .. n
      /\ (n + 1) - 1 = n
  OBVIOUS
<1>7. (s = <<>> <=> n = 0) /\ (s # <<>> => Last(s) = s[n] /\ n \in 1 .. n)
  <2>1. s = <<>> <=> n = 0
    BY <1>1, <1>2, EmptySeq
  <2> QED
    BY <1>2, <2>1 DEF Last
<1>8. Shaped(t)
  <2>1. t[1].fn \in Methodic
    <3>1. CASE s = <<>>
      <4>1. n + 1 = 1
        BY <1>7, <3>1
      <4> QED
        BY <1>3, <3>1, <4>1
    <3>2. CASE s # <<>>
      <4>1. 1 \in 1 .. n
        BY <1>7, <3>2
      <4> QED
        BY <1>1, <1>3, <3>2, <4>1 DEF Shaped
    <3> QED
      BY <3>1, <3>2
  <2>2. \A i \in 1 .. n : Follows(t[i].fn, t[i + 1].fn)
    <3> SUFFICES ASSUME NEW i \in 1 .. n PROVE Follows(t[i].fn, t[i + 1].fn)
      OBVIOUS
    <3>1. CASE i \in 1 .. n - 1
      BY <1>1, <1>2, <1>3, <1>6, <3>1 DEF Shaped
    <3>2. CASE i = n
      <4>1. s # <<>>
        BY <1>7
      <4> QED
        BY <1>3, <1>7, <3>2, <4>1
    <3> QED
      BY <1>6, <3>1, <3>2
  <2>3. \A i \in 1 .. n + 1 : Sound(t[i])
    BY <1>1, <1>2, <1>3, <1>6 DEF Shaped
  <2> QED
    BY <1>3, <1>6, <2>1, <2>2, <2>3 DEF Shaped
<1>9. Rising(t) /\ \A r : Holds(r, t) <=> Holds(r, s) \/ f.req = r
  BY <1>1, LatestLast DEF t
<1>11. \A r : Failing(r, t) => Failing(r, s) \/ (s # <<>> /\ Last(s).req = r /\ f.fn = "call")
  <2> SUFFICES ASSUME NEW r, NEW i \in 1 .. n, t[i].req = r, t[i + 1].fn = "call"
               PROVE  Failing(r, s) \/ (s # <<>> /\ Last(s).req = r /\ f.fn = "call")
    BY <1>3, <1>6 DEF Failing
  <2>1. CASE i \in 1 .. n - 1
    BY <1>2, <1>3, <1>6, <2>1 DEF Failing
  <2>2. CASE i = n
    <3>1. s # <<>>
      BY <1>7
    <3> QED
      BY <1>3, <1>7, <2>2, <3>1
  <2> QED
    BY <1>6, <2>1, <2>2
<1>12. ASSUME NEW r, NEW fn, f.req # r, Covered(r, s, fn) \/ f.fn = fn
       PROVE  Covered(r, t, fn)
  <2> SUFFICES ASSUME NEW i \in 1 .. n + 1, t[i].req = r
               PROVE  \E j \in 1 .. n + 1 : i < j /\ t[j].fn = fn
    BY <1>3 DEF Covered
  <2>1. i \in 1 .. n /\ s[i].req = r
    BY <1>3, <1>6, <1>12
  <2>2. CASE f.fn = fn
    BY <1>3, <1>6, <2>1, <2>2
  <2>3. CASE Covered(r, s, fn)
    <3>1. PICK j \in 1 .. n : i < j /\ s[j].fn = fn
      BY <1>2, <2>1, <2>3 DEF Covered
    <3> QED
      BY <1>3, <1>6, <3>1
  <2> QED
    BY <1>12, <2>2, <2>3
<1>13. WellMade(t)
  BY <1>3, <1>8, <1>9 DEF WellMade
<1> QED
  BY <1>4, <1>5, <1>9, <1>11, <1>12, <1>13 DEF t

\* A frame and its parts.
LEMMA FrameParts ==
    ASSUME NEW fn \in FrameKinds, NEW r \in 0 .. MaxCalls, NEW rc \in Codes
    PROVE  /\ Frame(fn, r, rc) \in Frames /\ Frame(fn, r, rc).fn = fn
           /\ Frame(fn, r, rc).req = r /\ Frame(fn, r, rc).rc = rc
  BY DEF Frame, Frames

\* A method that goes on, or that returns.
LEMMA Swapped ==
    ASSUME NEW s, WellMade(s), s # <<>>, Last(s).fn \in {"loop", "poll"},
           NEW f \in Frames, Sound(f), f.fn \in Methodic, f.req = Last(s).req
    PROVE  LET t == Append(Front(s), f)
           IN  /\ WellMade(t) /\ t # <<>> /\ Last(t) = f
               /\ Kept(s, t, "completions") /\ Kept(s, t, "tail")
<1> DEFINE p == Front(s)
           t == Append(p, f)
<1>1. /\ WellMade(p)
      /\ \A r : Holds(r, s) <=> Holds(r, p) \/ Last(s).req = r
      /\ \A r : Failing(r, p) => Failing(r, s)
      /\ \A r, fn : Covered(r, s, fn) => Last(s).req # r
      /\ \A r, fn : Covered(r, s, fn) /\ Last(s).fn # fn => Covered(r, p, fn)
      /\ \A r : Holds(r, p) /\ r # 0 /\ Last(s).req # 0 => r < Last(s).req
      /\ p # <<>> => Follows(Last(p).fn, Last(s).fn)
  BY Popped
<1> HIDE DEF p
<1>2. p # <<>> => Follows(Last(p).fn, f.fn)
  BY <1>1 DEF Follows, Methodic
<1>3. /\ WellMade(t) /\ t # <<>> /\ Last(t) = f
      /\ \A r : Holds(r, t) <=> Holds(r, p) \/ f.req = r
      /\ \A r : Failing(r, t)
                   => Failing(r, p) \/ (p # <<>> /\ Last(p).req = r /\ f.fn = "call")
      /\ \A r, fn : f.req # r /\ (Covered(r, p, fn) \/ f.fn = fn) => Covered(r, t, fn)
  BY <1>1, <1>2, Pushed
<1>4. f.fn # "call"
  BY DEF Methodic
<1> HIDE DEF t
<1>5. ASSUME NEW fn \in {"completions", "tail"} PROVE Kept(s, t, fn)
  BY <1>1, <1>3, <1>4, <1>5 DEF Kept
<1> QED
  BY <1>3, <1>5 DEF t, p

\* Something runs on top.
LEMMA Above ==
    ASSUME NEW s, WellMade(s), s # <<>>, NEW f \in Frames, Sound(f), f.req = 0,
           Follows(Last(s).fn, f.fn)
    PROVE  LET t == Append(s, f)
           IN  /\ WellMade(t) /\ t # <<>> /\ Last(t) = f
               /\ \A r \in Requests :
                      /\ Holds(r, t) <=> Holds(r, s)
                      /\ Failing(r, t) => Failing(r, s) \/ (Last(s).req = r /\ f.fn = "call")
                      /\ \A fn : Covered(r, s, fn) \/ f.fn = fn => Covered(r, t, fn)
<1>1. \A r \in Requests : r # 0
  BY DispatchAssumption DEF Requests, DispatchAssumption
<1> DEFINE t == Append(s, f)
<1>2. /\ WellMade(t) /\ t # <<>> /\ Last(t) = f
      /\ \A r : Holds(r, t) <=> Holds(r, s) \/ f.req = r
      /\ \A r : Failing(r, t)
                   => Failing(r, s) \/ (s # <<>> /\ Last(s).req = r /\ f.fn = "call")
      /\ \A r, fn : f.req # r /\ (Covered(r, s, fn) \/ f.fn = fn) => Covered(r, t, fn)
  BY Pushed
<1> HIDE DEF t
<1> QED
  BY <1>1, <1>2 DEF t

\* What ran on top of a method is over.
LEMMA Dropped ==
    ASSUME NEW s, WellMade(s), s # <<>>, Last(s).req = 0
    PROVE  WellMade(Front(s)) /\ \A fn : fn # Last(s).fn => Kept(s, Front(s), fn)
<1>1. \A r \in Requests : r # 0
  BY DispatchAssumption DEF Requests, DispatchAssumption
<1> DEFINE p == Front(s)
<1>2. /\ WellMade(p)
      /\ \A r : Holds(r, s) <=> Holds(r, p) \/ Last(s).req = r
      /\ \A r : Failing(r, p) => Failing(r, s)
      /\ \A r, fn : Covered(r, s, fn) /\ Last(s).fn # fn => Covered(r, p, fn)
  BY Popped
<1> HIDE DEF p
<1>3. ASSUME NEW fn, fn # Last(s).fn PROVE Kept(s, p, fn)
  BY <1>1, <1>2, <1>3 DEF Kept
<1> QED
  BY <1>2, <1>3 DEF p

\* The stack at the end of handle_error() in a method on top of s, session watchers to
\* run or not.
Raised(s, rc) ==
    Append(Append(Append(Front(s), Frame("loop", Last(s).req, "ZOK")), Inner("call", rc)),
           Inner("tail", rc))
Watched(s, rc) == Append(Raised(s, rc), Inner("completions", "ZOK"))

\* The error is handled above every method, and only the top one has its call fail.
LEMMA RaisedFacts ==
    ASSUME NEW s, WellMade(s), s # <<>>, Last(s).fn \in {"loop", "poll"}, NEW rc \in Failures,
           NEW t \in {Raised(s, rc), Watched(s, rc)}
    PROVE  /\ WellMade(t) /\ t # <<>>
           /\ Last(t).fn \in {"tail", "completions"}
           /\ t = Raised(s, rc) => Last(t).fn = "tail"
           /\ \A r \in Requests :
                  /\ Holds(r, t) <=> Holds(r, s)
                  /\ Failing(r, t) => Failing(r, s) \/ Last(s).req = r
                  /\ Covered(r, s, "completions") => Covered(r, t, "completions")
                  /\ Covered(r, t, "tail")
<1>1. Last(s) \in Frames
  BY Popped
<1> DEFINE f == Frame("loop", Last(s).req, "ZOK")
           c == Inner("call", rc)
           a == Inner("tail", rc)
           d == Inner("completions", "ZOK")
           s1 == Append(Front(s), f)
           s2 == Append(s1, c)
           s3 == Append(s2, a)
           s4 == Append(s3, d)
<1>2. /\ f \in Frames /\ c \in Frames /\ a \in Frames /\ d \in Frames
      /\ Sound(f) /\ Sound(c) /\ Sound(a) /\ Sound(d)
      /\ f.fn = "loop" /\ c.fn = "call" /\ a.fn = "tail" /\ d.fn = "completions"
      /\ f.req = Last(s).req /\ c.req = 0 /\ a.req = 0 /\ d.req = 0
      /\ "loop" \in Methodic
  <2>1. /\ Last(s).req \in 0 .. MaxCalls /\ 0 \in 0 .. MaxCalls
        /\ rc \in Codes /\ "ZOK" \in Codes
        /\ \A fn \in {"loop", "call", "tail", "completions"} : fn \in FrameKinds
    <3>1. Last(s).req \in 0 .. MaxCalls
      BY <1>1 DEF Frames
    <3>2. 0 \in 0 .. MaxCalls
      BY DispatchAssumption DEF DispatchAssumption
    <3>3. rc \in Codes /\ "ZOK" \in Codes
      BY DEF Codes
    <3>4. \A fn \in {"loop", "call", "tail", "completions"} : fn \in FrameKinds
      BY DEF FrameKinds
    <3> QED
      BY <3>1, <3>2, <3>3, <3>4
  <2>2. f \in Frames /\ f.fn = "loop" /\ f.req = Last(s).req
    BY <2>1, FrameParts
  <2>3. c \in Frames /\ c.fn = "call" /\ c.req = 0 /\ c.rc = rc
    BY <2>1, FrameParts DEF Inner
  <2>4. a \in Frames /\ a.fn = "tail" /\ a.req = 0 /\ a.rc = rc
    BY <2>1, FrameParts DEF Inner
  <2>5. d \in Frames /\ d.fn = "completions" /\ d.req = 0
    BY <2>1, FrameParts DEF Inner
  <2> HIDE DEF f, c, a, d
  <2> QED
    BY <2>2, <2>3, <2>4, <2>5 DEF Sound, Methodic
<1> HIDE DEF f, c, a, d
<1>3. /\ WellMade(s1) /\ s1 # <<>> /\ Last(s1) = f
      /\ Kept(s, s1, "completions") /\ Kept(s, s1, "tail")
  BY <1>2, Swapped
<1> HIDE DEF s1
<1>4. Follows(f.fn, c.fn) /\ Follows(c.fn, a.fn) /\ Follows(a.fn, d.fn)
  BY <1>2 DEF Follows
<1>5. /\ WellMade(s2) /\ s2 # <<>> /\ Last(s2) = c
      /\ \A r \in Requests :
             /\ Holds(r, s2) <=> Holds(r, s1)
             /\ Failing(r, s2) => Failing(r, s1) \/ (Last(s1).req = r /\ c.fn = "call")
             /\ \A fn : Covered(r, s1, fn) \/ c.fn = fn => Covered(r, s2, fn)
  BY <1>2, <1>3, <1>4, Above
<1> HIDE DEF s2
<1>6. /\ WellMade(s3) /\ s3 # <<>> /\ Last(s3) = a
      /\ \A r \in Requests :
             /\ Holds(r, s3) <=> Holds(r, s2)
             /\ Failing(r, s3) => Failing(r, s2) \/ (Last(s2).req = r /\ a.fn = "call")
             /\ \A fn : Covered(r, s2, fn) \/ a.fn = fn => Covered(r, s3, fn)
  BY <1>2, <1>4, <1>5, Above
<1> HIDE DEF s3
<1>7. /\ WellMade(s4) /\ s4 # <<>> /\ Last(s4) = d
      /\ \A r \in Requests :
             /\ Holds(r, s4) <=> Holds(r, s3)
             /\ Failing(r, s4) => Failing(r, s3) \/ (Last(s3).req = r /\ d.fn = "call")
             /\ \A fn : Covered(r, s3, fn) \/ d.fn = fn => Covered(r, s4, fn)
  BY <1>2, <1>4, <1>6, Above
<1> HIDE DEF s4
<1>8. s3 = Raised(s, rc) /\ s4 = Watched(s, rc)
  BY DEF s1, s2, s3, s4, f, c, a, d, Raised, Watched
<1>9. ASSUME NEW r \in Requests
      PROVE  /\ Holds(r, s3) <=> Holds(r, s)
             /\ Failing(r, s3) => Failing(r, s) \/ Last(s).req = r
             /\ Covered(r, s, "completions") => Covered(r, s3, "completions")
             /\ Covered(r, s3, "tail")
  BY <1>2, <1>3, <1>5, <1>6 DEF Kept
<1>10. ASSUME NEW r \in Requests
       PROVE  /\ Holds(r, s4) <=> Holds(r, s)
              /\ Failing(r, s4) => Failing(r, s) \/ Last(s).req = r
              /\ Covered(r, s, "completions") => Covered(r, s4, "completions")
              /\ Covered(r, s4, "tail")
  BY <1>2, <1>7, <1>9
<1>11. CASE t = s3
  BY <1>2, <1>6, <1>9, <1>11
<1>12. CASE t = s4 /\ s4 # s3
  BY <1>2, <1>7, <1>8, <1>10, <1>12
<1> QED
  BY <1>8, <1>11, <1>12

-----------------------------------------------------------------------------
(* Queues                                                                  *)

Bad(r, q) == \A k \in 1 .. Len(q) : q[k].req = r => q[k].rc \in Failures

Genuine(x) == x.kind = "reply" <=> x.req # 0
WellQueued(q) == /\ q \in Seq(Responses) /\ Rising(q)
                 /\ \A k \in 1 .. Len(q) : Genuine(q[k])

Ascending(p) == \A i, j \in 1 .. Len(p) : i < j => p[i] < p[j]

\* A completion joins the queue.
LEMMA ReadyMore ==
    ASSUME NEW q, WellQueued(q), NEW x \in Responses, Genuine(x),
           \A r : Holds(r, q) /\ r # 0 /\ x.req # 0 => r < x.req
    PROVE  /\ WellQueued(Append(q, x))
           /\ \A r : Holds(r, Append(q, x)) <=> Holds(r, q) \/ x.req = r
           /\ \A r : Bad(r, q) /\ (x.req = r => x.rc \in Failures) => Bad(r, Append(q, x))
<1> DEFINE t == Append(q, x)
<1>1. q \in Seq(Responses) /\ Rising(q) /\ \A k \in 1 .. Len(q) : Genuine(q[k])
  BY DEF WellQueued
<1>2. PICK n \in Nat : n = Len(q)
  BY <1>1, LenProperties
<1>3. /\ t \in Seq(Responses) /\ Len(t) = n + 1
      /\ \A i \in 1 .. n : t[i] = q[i]
      /\ t[n + 1] = x
  BY <1>1, <1>2, AppendProperties
<1>4. Rising(t) /\ \A r : Holds(r, t) <=> Holds(r, q) \/ x.req = r
  BY <1>1, LatestLast
<1> HIDE DEF t
<1>5. \A i \in 1 .. n + 1 : i \in 1 .. n \/ i = n + 1
  OBVIOUS
<1>6. \A k \in 1 .. n + 1 : Genuine(t[k])
  BY <1>1, <1>2, <1>3, <1>5
<1>7. \A r : Bad(r, q) /\ (x.req = r => x.rc \in Failures) => Bad(r, t)
  BY <1>2, <1>3, <1>5 DEF Bad
<1> QED
  BY <1>3, <1>4, <1>6, <1>7 DEF WellQueued, t

\* The first completion leaves it.
LEMMA ReadyLess ==
    ASSUME NEW q, WellQueued(q), q # <<>>
    PROVE  /\ WellQueued(Tail(q)) /\ Head(q) \in Responses /\ Genuine(Head(q))
           /\ \A r : Holds(r, q) <=> Holds(r, Tail(q)) \/ Head(q).req = r
           /\ \A r : Holds(r, Tail(q)) /\ r # 0 /\ Head(q).req # 0 => Head(q).req < r
           /\ \A r : Bad(r, q) => Bad(r, Tail(q)) /\ (Head(q).req = r => Head(q).rc \in Failures)
<1> DEFINE t == Tail(q)
           h == Head(q)
<1>1. q \in Seq(Responses) /\ Rising(q) /\ \A k \in 1 .. Len(q) : Genuine(q[k])
  BY DEF WellQueued
<1>2. /\ t \in Seq(Responses) /\ h = q[1] /\ Len(q) \in Nat \ {0} /\ Len(t) = Len(q) - 1
      /\ \A i \in 1 .. Len(q) - 1 : t[i] = q[i + 1]
  BY <1>1, TailFacts
<1> HIDE DEF t, h
<1>3. PICK n \in Nat : Len(q) = n + 1 /\ Len(t) = n
  <2>1. Len(q) - 1 \in Nat /\ Len(q) = (Len(q) - 1) + 1
    BY <1>2
  <2> QED
    BY <1>2, <2>1
<1>4. /\ \A i \in 1 .. n : t[i] = q[i + 1]
      /\ \A i \in 1 .. n : i + 1 \in 1 .. n + 1 /\ 1 < i + 1
      /\ \A i \in 1 .. n + 1 : i = 1 \/ (i - 1 \in 1 .. n /\ (i - 1) + 1 = i)
      /\ 1 \in 1 .. n + 1 /\ h = q[1]
      /\ \A i, j \in 1 .. n : i < j => i + 1 < j + 1
  <2>1. n + 1 - 1 = n
    OBVIOUS
  <2> QED
    BY <1>2, <1>3, <2>1
<1>5. \A i \in 1 .. n + 1 : i = 1 \/ \E j \in 1 .. n : j + 1 = i /\ t[j] = q[i]
  BY <1>4
<1>6. h \in Responses /\ Genuine(h) /\ \A k \in 1 .. n : Genuine(t[k])
  <2>1. q[1] \in Responses
    BY <1>1, <1>3, <1>4, ElementOfSeq
  <2> QED
    BY <1>1, <1>3, <1>4, <2>1
<1>7. Rising(t)
  <2> SUFFICES ASSUME NEW i \in 1 .. n, NEW j \in 1 .. n, i < j, t[i].req # 0, t[j].req # 0
               PROVE  t[i].req < t[j].req
    BY <1>3 DEF Rising
  <2> QED
    BY <1>1, <1>3, <1>4 DEF Rising
<1>8. \A r : Holds(r, q) <=> Holds(r, t) \/ h.req = r
  <2>1. ASSUME NEW r, Holds(r, q) PROVE Holds(r, t) \/ h.req = r
    BY <1>3, <1>4, <1>5, <2>1 DEF Holds
  <2>2. ASSUME NEW r, Holds(r, t) \/ h.req = r PROVE Holds(r, q)
    BY <1>3, <1>4, <2>2 DEF Holds
  <2> QED
    BY <2>1, <2>2
<1>9. ASSUME NEW r, Holds(r, t), r # 0, h.req # 0 PROVE h.req < r
  <2>1. PICK i \in 1 .. n : t[i].req = r
    BY <1>3, <1>9 DEF Holds
  <2>2. /\ 1 \in 1 .. Len(q) /\ i + 1 \in 1 .. Len(q) /\ 1 < i + 1
        /\ q[1].req = h.req /\ q[i + 1].req = r
    BY <1>3, <1>4, <2>1
  <2>3. q[1].req < q[i + 1].req
    BY <1>1, <1>9, <2>2 DEF Rising
  <2> QED
    BY <2>2, <2>3
<1>10. \A r : Bad(r, q) => Bad(r, t) /\ (h.req = r => h.rc \in Failures)
  BY <1>3, <1>4 DEF Bad
<1> QED
  BY <1>2, <1>3, <1>6, <1>7, <1>8, <1>9, <1>10 DEF WellQueued, t, h

\* The first request outstanding is answered.
LEMMA PendingLess ==
    ASSUME NEW p \in Seq(Requests), Ascending(p), p # <<>>
    PROVE  /\ Tail(p) \in Seq(Requests) /\ Ascending(Tail(p)) /\ Head(p) \in Requests
           /\ \A r : Among(r, p) <=> r = Head(p) \/ Among(r, Tail(p))
           /\ \A r : Among(r, Tail(p)) => Head(p) < r
<1> DEFINE t == Tail(p)
           h == Head(p)
<1>1. \A r : Among(r, p) <=> r = h \/ Among(r, t)
  BY AmongFacts
<1>2. /\ t \in Seq(Requests) /\ h = p[1] /\ Len(p) \in Nat \ {0} /\ Len(t) = Len(p) - 1
      /\ \A i \in 1 .. Len(p) - 1 : t[i] = p[i + 1]
  BY TailFacts
<1> HIDE DEF t, h
<1>3. PICK n \in Nat : Len(p) = n + 1 /\ Len(t) = n
  <2>1. Len(p) - 1 \in Nat /\ Len(p) = (Len(p) - 1) + 1
    BY <1>2
  <2> QED
    BY <1>2, <2>1
<1>4. /\ \A i \in 1 .. n : t[i] = p[i + 1]
      /\ \A i \in 1 .. n : i + 1 \in 1 .. n + 1 /\ 1 < i + 1
      /\ 1 \in 1 .. n + 1 /\ h = p[1]
      /\ \A i, j \in 1 .. n : i < j => i + 1 < j + 1
  <2>1. n + 1 - 1 = n
    OBVIOUS
  <2> QED
    BY <1>2, <1>3, <2>1
<1>5. h \in Requests
  BY <1>3, <1>4, ElementOfSeq
<1>6. Ascending(t)
  BY <1>3, <1>4 DEF Ascending
<1>7. \A r : Among(r, t) => h < r
  BY <1>3, <1>4 DEF Ascending, Among
<1> QED
  BY <1>1, <1>2, <1>5, <1>6, <1>7 DEF t, h

\* A request later than all others is made.
LEMMA PendingMore ==
    ASSUME NEW p \in Seq(Requests), Ascending(p), NEW x \in Requests,
           \A r : Among(r, p) => r < x
    PROVE  /\ Append(p, x) \in Seq(Requests) /\ Ascending(Append(p, x))
           /\ \A r : Among(r, Append(p, x)) <=> Among(r, p) \/ r = x
<1> DEFINE t == Append(p, x)
<1>1. \A r : Among(r, t) <=> Among(r, p) \/ r = x
  BY AmongFacts
<1>2. PICK n \in Nat : n = Len(p)
  BY LenProperties
<1>3. /\ t \in Seq(Requests) /\ Len(t) = n + 1
      /\ \A i \in 1 .. n : t[i] = p[i]
      /\ t[n + 1] = x
  BY <1>2, AppendProperties
<1> HIDE DEF t
<1>4. Ascending(t)
  <2> SUFFICES ASSUME NEW i \in 1 .. n + 1, NEW j \in 1 .. n + 1, i < j PROVE t[i] < t[j]
    BY <1>3 DEF Ascending
  <2>1. i \in 1 .. n /\ (j \in 1 .. n \/ j = n + 1)
    OBVIOUS
  <2>2. CASE j \in 1 .. n
    BY <1>2, <1>3, <2>1, <2>2 DEF Ascending
  <2>3. CASE j = n + 1
    BY <1>2, <1>3, <2>1, <2>3 DEF Among
  <2> QED
    BY <2>1, <2>2, <2>3
<1> QED
  BY <1>1, <1>3, <1>4 DEF t

\* All requests outstanding are failed at once, in their order.
LEMMA AllFailed ==
    ASSUME NEW q, WellQueued(q), NEW p \in Seq(Requests), Ascending(p), NEW rc \in Failures,
           \A r, x : Holds(r, q) /\ r # 0 /\ Among(x, p) => r < x
    PROVE  LET t == q \o [i \in 1 .. Len(p) |-> Reply(p[i], rc)]
           IN  /\ WellQueued(t)
               /\ \A r : Holds(r, t) <=> Holds(r, q) \/ Among(r, p)
               /\ \A r : Bad(r, q) => Bad(r, t)
<1> DEFINE u == [i \in 1 .. Len(p) |-> Reply(p[i], rc)]
           t == q \o u
<1>1. q \in Seq(Responses) /\ Rising(q) /\ \A k \in 1 .. Len(q) : Genuine(q[k])
  BY DEF WellQueued
<1>2. Len(p) \in Nat /\ \A i \in 1 .. Len(p) : p[i] \in Requests
  BY LenProperties, ElementOfSeq
<1>3. \A x \in Requests : /\ Reply(x, rc) \in Responses /\ Genuine(Reply(x, rc))
                          /\ Reply(x, rc).req = x /\ Reply(x, rc).rc = rc
  BY DispatchAssumption DEF Reply, Responses, Requests, Genuine, Failures, Codes, DispatchAssumption
<1>4. u \in Seq(Responses) /\ Len(u) = Len(p)
  <2>1. \A i \in 1 .. Len(p) : Reply(p[i], rc) \in Responses
    BY <1>2, <1>3
  <2> QED
    BY <1>2, <2>1, IsASeq, LenProperties
<1>5. \A i \in 1 .. Len(p) : u[i].req = p[i] /\ u[i].rc = rc /\ Genuine(u[i])
  BY <1>2, <1>3
<1> HIDE DEF u
<1> HIDE DEF t
<1>6. /\ t \in Seq(Responses) /\ Len(q) \in Nat /\ Len(t) = Len(q) + Len(u)
      /\ \A i \in 1 .. Len(q) : t[i] = q[i]
      /\ \A i \in 1 .. Len(u) : t[Len(q) + i] = u[i]
  <2>1. u \in Seq(Responses) /\ q \in Seq(Responses)
    BY <1>1, <1>4
  <2>2. /\ q \o u \in Seq(Responses) /\ Len(q) \in Nat
        /\ Len(q \o u) = Len(q) + Len(u)
        /\ \A i \in 1 .. Len(q) : (q \o u)[i] = q[i]
        /\ \A i \in 1 .. Len(u) : (q \o u)[Len(q) + i] = u[i]
    BY <2>1, JoinFacts
  <2> QED
    BY <2>2 DEF t
<1>7. PICK m \in Nat, n \in Nat : m = Len(q) /\ n = Len(p) /\ Len(t) = m + n
  BY <1>2, <1>4, <1>6
<1>8. /\ \A i \in 1 .. m : t[i] = q[i]
      /\ \A i \in 1 .. n : /\ t[m + i].req = p[i] /\ t[m + i].rc = rc /\ Genuine(t[m + i])
                           /\ m + i \in 1 .. m + n
      /\ \A i \in 1 .. m : i \in 1 .. m + n
  BY <1>4, <1>5, <1>6, <1>7
<1>9. \A k \in 1 .. m + n : k \in 1 .. m \/ \E i \in 1 .. n : k = m + i
  <2> SUFFICES ASSUME NEW k \in 1 .. m + n, k > m PROVE \E i \in 1 .. n : k = m + i
    OBVIOUS
  <2>1. k - m \in 1 .. n /\ k = m + (k - m)
    OBVIOUS
  <2> QED
    BY <2>1
<1>10. \A k \in 1 .. m + n : Genuine(t[k])
  BY <1>1, <1>7, <1>8, <1>9
<1>11. \A r : Holds(r, t) <=> Holds(r, q) \/ Among(r, p)
  <2>1. ASSUME NEW r, Holds(r, t) PROVE Holds(r, q) \/ Among(r, p)
    <3>1. PICK k \in 1 .. m + n : t[k].req = r
      BY <1>7, <2>1 DEF Holds
    <3>2. CASE k \in 1 .. m
      BY <1>7, <1>8, <3>1, <3>2 DEF Holds
    <3>3. CASE k \notin 1 .. m
      <4>1. PICK i \in 1 .. n : k = m + i
        BY <1>9, <3>3
      <4> QED
        BY <1>7, <1>8, <3>1, <4>1 DEF Among
    <3> QED
      BY <3>2, <3>3
  <2>2. ASSUME NEW r, Holds(r, q) PROVE Holds(r, t)
    BY <1>7, <1>8, <2>2 DEF Holds
  <2>3. ASSUME NEW r, Among(r, p) PROVE Holds(r, t)
    <3>1. PICK i \in 1 .. n : p[i] = r
      BY <1>7, <2>3 DEF Among
    <3> QED
      BY <1>7, <1>8, <3>1 DEF Holds
  <2> QED
    BY <2>1, <2>2, <2>3
<1>12. \A r : Bad(r, q) => Bad(r, t)
  <2> SUFFICES ASSUME NEW r, Bad(r, q), NEW k \in 1 .. m + n, t[k].req = r
               PROVE  t[k].rc \in Failures
    BY <1>7 DEF Bad
  <2>1. CASE k \in 1 .. m
    BY <1>7, <1>8, <2>1 DEF Bad
  <2>2. CASE k \notin 1 .. m
    <3>1. PICK i \in 1 .. n : k = m + i
      BY <1>9, <2>2
    <3> QED
      BY <1>8, <3>1
  <2> QED
    BY <2>1, <2>2
<1>13. Rising(t)
  <2> SUFFICES ASSUME NEW k \in 1 .. m + n, NEW l \in 1 .. m + n, k < l,
                      t[k].req # 0, t[l].req # 0
               PROVE  t[k].req < t[l].req
    BY <1>7 DEF Rising
  <2>1. CASE k \in 1 .. m /\ l \in 1 .. m
    BY <1>1, <1>7, <1>8, <2>1 DEF Rising
  <2>2. CASE k \in 1 .. m /\ l \notin 1 .. m
    <3>1. PICK j \in 1 .. n : l = m + j
      BY <1>9, <2>2
    <3>2. Holds(t[k].req, q) /\ Among(t[l].req, p)
      BY <1>7, <1>8, <2>2, <3>1 DEF Holds, Among
    <3> QED
      BY <3>2
  <2>3. CASE k \notin 1 .. m
    <3>1. l \notin 1 .. m
      BY <2>3
    <3>2. PICK i \in 1 .. n, j \in 1 .. n : k = m + i /\ l = m + j
      BY <1>9, <2>3, <3>1
    <3>3. i < j
      BY <3>2
    <3>4. t[k].req = p[i] /\ t[l].req = p[j] /\ i \in 1 .. Len(p) /\ j \in 1 .. Len(p)
      BY <1>7, <1>8, <3>2
    <3>5. p[i] < p[j]
      BY <3>3, <3>4 DEF Ascending
    <3> QED
      BY <3>4, <3>5
  <2> QED
    BY <2>1, <2>2, <2>3
<1> QED
  BY <1>6, <1>7, <1>10, <1>11, <1>12, <1>13 DEF WellQueued, t, u

-----------------------------------------------------------------------------
(* The inductive invariant                                                 *)

Auth(r) == Methods[method[r]].auth
Line(r) == Holds(r, ready) \/ Among(r, pending)
Sent(r) == Among(r, pending) \/ r \in auths
Out(r)  == Sent(r) \/ Holds(r, ready)

\* What a completion with code rc stores for method m.
Good(m, rc) == IF rc = "ZOK" THEN Stored[Methods[m].completion] ELSE "false"

Typed == /\ session \in Sessions /\ watches \in Nat /\ callable \in BOOLEAN
         /\ method \in [Requests -> Used \cup {"none"}]
         /\ results \in [Requests -> QueryResults]
         /\ left \in [Requests -> Codes]

Numbered == Calls \in 0 .. MaxCalls /\ \A r \in Requests : method[r] # "none" <=> r <= Calls

Stacked == WellMade(stack) /\ \A r \in Requests : Holds(r, stack) => r <= Calls

\* A request is answered, or fails, in its turn; all that were made later are still there.
Queue == /\ WellQueued(ready) /\ auths \in SUBSET Requests
         /\ pending \in Seq(Requests) /\ Ascending(pending)
         /\ \A r, x : Holds(r, ready) /\ r # 0 /\ Among(x, pending) => r < x
         /\ \A r \in Requests : Line(r) => r <= Calls /\ ~Auth(r)
         /\ \A r \in auths : r <= Calls /\ Auth(r)
         /\ \A r, x \in Requests :
                r < x /\ x <= Calls /\ Line(r) /\ ~Auth(x) => Line(x)

\* A method runs exactly as long as its completion is still to come.
Fate == \A r \in Requests :
    /\ results[r].running => results[r].error = "ZOK"
    /\ r <= Calls /\ results[r].running => Out(r)
    /\ ~ r <= Calls => results[r].running /\ results[r].retval # "gone"
    /\ Out(r) => results[r].running \/ results[r].retval = "gone"
    /\ Holds(r, stack) => results[r].retval # "gone"

\* The completion that is ready runs, and the error is handled, before the method goes on.
Cover == \A r \in Requests :
    /\ Holds(r, ready) => Covered(r, stack, "completions")
    /\ Sent(r) /\ (session = "lost" \/ Failing(r, stack)) => Covered(r, stack, "tail")
    /\ Sent(r) /\ Failing(r, stack) => TopIs("tail") \/ session \in {"closing", "lost"}

\* A method whose call is about to fail is not answered with a success any more.
Truth == \A r \in Requests :
    /\ Holds(r, stack) /\ ~results[r].running =>
           results[r].retval = Good(method[r], results[r].error)
    /\ Failing(r, stack) /\ ~results[r].running => results[r].error \in Failures
    /\ Failing(r, stack) => Bad(r, ready)

\* The method on top.
Turn == /\ TopIs("poll") /\ Top.req # 0 => results[Top.req].running
        /\ TopIs("return") /\ Out(Top.req) =>
               Top.rc = "ZNOTHING" \/ (Top.rc = "ZCONNECTIONLOSS" /\ Auth(Top.req))
        /\ TopIs("return") /\ results[Top.req].retval = "false" =>
               /\ Top.rc # "ZOK"
               /\ results[Top.req].error \notin Failures \cup {"ZOK"}
                      => Top.rc = results[Top.req].error

Left == \A r \in Requests :
    Out(r) => \/ Holds(r, stack)
              \/ left[r] = "ZNOTHING"
              \/ left[r] = "ZCONNECTIONLOSS" /\ Auth(r)

DispatchInv == /\ Typed /\ Numbered /\ Stacked /\ Queue
               /\ Fate /\ Cover /\ Truth /\ Turn /\ Left

\* Requests are numbers from 1.
LEMMA Numbers == Requests \subseteq Nat \ {0} /\ MaxCalls \in Nat /\ Requests = 1 .. MaxCalls
  BY DispatchAssumption DEF Requests, DispatchAssumption

\* What is in an empty queue or stack.
LEMMA NothingHeld == \A r : ~Holds(r, <<>>) /\ ~Failing(r, <<>>) /\ ~Among(r, <<>>)
<1>1. Len(<<>>) = 0
  OBVIOUS
<1> QED
  BY <1>1 DEF Holds, Failing, Among

\* Initially nothing has been called.
LEMMA DispatchInit == Init => DispatchInv
<1> SUFFICES ASSUME Init PROVE DispatchInv
  OBVIOUS
<1>1. /\ session = "down" /\ pending = <<>> /\ auths = {} /\ ready = <<>> /\ watches = 0
      /\ callable = FALSE /\ stack = <<>>
      /\ method = [r \in Requests |-> "none"]
      /\ results = [r \in Requests |-> QueryResult]
      /\ left = [r \in Requests |-> "ZOK"]
  BY DEF Init
<1>2. /\ QueryResult \in QueryResults /\ QueryResult.running /\ QueryResult.error = "ZOK"
      /\ QueryResult.retval # "gone"
  BY DEF QueryResult, QueryResults, Result, Codes, Values
<1>3. Typed
  BY <1>1, <1>2 DEF Typed, Sessions, Codes
<1>4. Calls = 0
  <2>1. {r \in Requests : method[r] # "none"} = {}
    BY <1>1
  <2> QED
    BY <2>1, FS_EmptySet DEF Calls
<1>5. Numbered
  BY <1>1, <1>4, Numbers DEF Numbered
<1>6. /\ <<>> \in Seq(Frames) /\ <<>> \in Seq(Responses) /\ <<>> \in Seq(Requests)
      /\ Len(<<>>) = 0
  OBVIOUS
<1>7. Shaped(<<>>) /\ Rising(<<>>) /\ Ascending(<<>>)
  BY <1>6 DEF Shaped, Rising, Ascending
<1>8. WellMade(<<>>) /\ WellQueued(<<>>)
  BY <1>6, <1>7 DEF WellMade, WellQueued
<1>9. Stacked
  BY <1>1, <1>8, NothingHeld DEF Stacked
<1>10. \A r : ~Line(r) /\ ~Sent(r) /\ ~Out(r)
  BY <1>1, NothingHeld DEF Line, Sent, Out
<1>11. Queue
  BY <1>1, <1>6, <1>7, <1>8, <1>10, NothingHeld DEF Queue
<1>12. Fate
  BY <1>1, <1>2, <1>4, <1>10, Numbers, NothingHeld DEF Fate
<1>13. Cover
  BY <1>1, <1>10, NothingHeld DEF Cover
<1>14. Truth
  BY <1>1, NothingHeld DEF Truth
<1>15. Turn
  BY <1>1 DEF Turn, TopIs
<1>16. Left
  BY <1>10 DEF Left
<1> QED
  BY <1>3, <1>5, <1>9, <1>11, <1>12, <1>13, <1>14, <1>15, <1>16 DEF DispatchInv

\* A completion stores false exactly when its request has failed, and never what a
\* method that has returned left behind.
LEMMA Storing ==
    ASSUME NEW m \in Used, NEW rc \in Codes
    PROVE  /\ Good(m, rc) \in Values /\ Good(m, rc) # "gone"
           /\ Good(m, rc) = "false" <=> rc # "ZOK"
<1>1. m \in DOMAIN Methods
  BY DispatchAssumption DEF DispatchAssumption
<1>2. Methods[m].completion \in {"data", "void", "acl", "stat", "string", "silent_stat",
                                 "strings", "set_acl"}
  <2>1. Methods[m] \in {get, addAuth, getAcl, exists, create, set, delete, getChildren, setAcl,
                        watch, watchChildren}
    BY <1>1 DEF Methods
  <2>2. /\ get.completion = "data" /\ getAcl.completion = "acl"
        /\ exists.completion = "stat" /\ create.completion = "string"
        /\ set.completion = "silent_stat" /\ delete.completion = "void"
        /\ getChildren.completion = "strings" /\ setAcl.completion = "set_acl"
    BY DEF Own, get, getAcl, exists, create, set, delete, getChildren, setAcl
  <2>3. addAuth.completion = "void"
    BY DEF Own, addAuth
  <2>4. watch.completion = "data" /\ watchChildren.completion = "strings"
    BY DEF Own, Watching, watch, watchChildren
  <2> QED
    BY <2>1, <2>2, <2>3, <2>4
<1>3. Stored[Methods[m].completion] \in Values \ {"gone", "false"}
  BY <1>2 DEF Stored, Values, my_string_completion, my_silent_data_completion,
              my_strings_completion, my_void_completion, my_stat_completion,
              my_silent_stat_completion, my_acl_completion, my_set_acl_completion
<1>4. "false" \in Values /\ "false" # "gone"
  BY DEF Values
<1> QED
  BY <1>3, <1>4 DEF Good

\* What the completions of the requests S leave behind.
LEMMA CompletedFacts ==
    ASSUME Typed, Numbered, NEW S, NEW rc \in Codes, \A r \in S : r \in Requests => r <= Calls,
           NEW t, t = Completed(S, rc)
    PROVE  /\ t \in [Requests -> QueryResults]
           /\ \A r \in Requests :
                  /\ r \notin S => t[r] = results[r]
                  /\ r \in S => ~t[r].running
                  /\ r \in S /\ results[r].retval # "gone" =>
                         /\ t[r].error = rc /\ t[r].retval = Good(method[r], rc)
                         /\ t[r].retval # "gone"
<1>1. ASSUME NEW r \in Requests
      PROVE  /\ t[r] \in QueryResults
             /\ r \notin S => t[r] = results[r]
             /\ r \in S => ~t[r].running
             /\ r \in S /\ results[r].retval # "gone" =>
                    /\ t[r].error = rc /\ t[r].retval = Good(method[r], rc)
                    /\ t[r].retval # "gone"
  <2>1. results[r] \in QueryResults
    BY DEF Typed
  <2>2. t[r] = IF r \in S /\ results[r] # Gone THEN Result(FALSE, rc, Value(r, rc))
                                               ELSE results[r]
    BY DEF Completed
  <2>3. ~Gone.running /\ Gone.retval = "gone"
    BY DEF Gone, Result
  <2>4. Value(r, rc) = Good(method[r], rc)
    BY DEF Value, Good
  <2>5. CASE r \in S /\ results[r] # Gone
    <3>1. method[r] \in Used
      BY <2>5 DEF Typed, Numbered
    <3>2. Good(method[r], rc) \in Values /\ Good(method[r], rc) # "gone"
      BY <3>1, Storing
    <3>3. t[r] = Result(FALSE, rc, Good(method[r], rc))
      BY <2>2, <2>4, <2>5
    <3>4. /\ t[r] \in QueryResults /\ ~t[r].running /\ t[r].error = rc
          /\ t[r].retval = Good(method[r], rc)
      BY <3>2, <3>3 DEF Result, QueryResults
    <3> QED
      BY <2>5, <3>2, <3>4
  <2>6. CASE ~(r \in S /\ results[r] # Gone)
    BY <2>1, <2>2, <2>3, <2>6
  <2> QED
    BY <2>5, <2>6
<1>2. t = [r \in Requests |-> t[r]]
  BY DEF Completed
<1> QED
  BY <1>1, <1>2

-----------------------------------------------------------------------------
(* Kinds of steps                                                          *)

\* A step that touches neither queues nor results.
LEMMA Quiet ==
    ASSUME DispatchInv, UNCHANGED <<pending, auths, ready, method, results, left>>,
           session' \in Sessions, session' = "lost" => session = "lost",
           session \in {"closing", "lost"} => session' = session,
           watches' = watches, callable' \in BOOLEAN,
           WellMade(stack'), Kept(stack, stack', "tail"),
           \A r \in Requests : Holds(r, ready) /\ Covered(r, stack, "completions")
                                  => Covered(r, stack', "completions"),
           TopIs("tail") => TopIs("tail")', Turn'
    PROVE  DispatchInv'
<1>1. Typed /\ Numbered /\ Stacked /\ Queue /\ Fate /\ Cover /\ Truth /\ Left
  BY DEF DispatchInv
<1>2. Calls' = Calls
  BY DEF Calls
<1>3. \A r \in Requests : /\ Holds(r, stack') <=> Holds(r, stack)
                          /\ Failing(r, stack') => Failing(r, stack)
                          /\ Covered(r, stack, "tail") => Covered(r, stack', "tail")
  BY DEF Kept
<1>4. Typed'
  BY <1>1 DEF Typed
<1>5. Numbered'
  BY <1>1, <1>2 DEF Numbered
<1>6. Stacked'
  BY <1>1, <1>2, <1>3 DEF Stacked
<1>7. Queue'
  BY <1>1, <1>2 DEF Queue, Line, Auth
<1>8. Fate'
  BY <1>1, <1>2, <1>3 DEF Fate, Out, Sent
<1>9. Cover'
  BY <1>1, <1>3 DEF Cover, Sent
<1>10. Truth'
  BY <1>1, <1>3 DEF Truth
<1>11. Left'
  BY <1>1, <1>3 DEF Left, Out, Sent, Auth
<1> QED
  BY <1>4, <1>5, <1>6, <1>7, <1>8, <1>9, <1>10, <1>11 DEF DispatchInv

\* A method goes on or returns while nothing else happens.
LEMMA GoesOn ==
    ASSUME DispatchInv, TopIs("loop") \/ TopIs("poll"),
           NEW fn \in Methodic, NEW rc \in Codes, fn = "return" => Top.req # 0
    PROVE  LET t == Append(Below, Frame(fn, Top.req, rc))
           IN  /\ WellMade(t) /\ t # <<>> /\ Last(t) = Frame(fn, Top.req, rc)
               /\ Last(t).fn = fn /\ Last(t).req = Top.req /\ Last(t).rc = rc
               /\ Kept(stack, t, "completions") /\ Kept(stack, t, "tail")
               /\ ~TopIs("tail")
<1>1. stack # <<>> /\ Last(stack).fn \in {"loop", "poll"} /\ WellMade(stack)
  BY DEF TopIs, Top, DispatchInv, Stacked
<1>2. Last(stack) \in Frames
  BY <1>1, Popped
<1> DEFINE f == Frame(fn, Last(stack).req, rc)
<1>3. /\ fn \in FrameKinds /\ Last(stack).req \in 0 .. MaxCalls
  BY <1>2 DEF Methodic, FrameKinds, Frames
<1>4. f \in Frames /\ f.fn = fn /\ f.req = Last(stack).req /\ f.rc = rc
  BY <1>3, FrameParts
<1> HIDE DEF f
<1>5. Sound(f)
  BY <1>4 DEF Sound, Top, Methodic
<1> DEFINE t == Append(Front(stack), f)
<1>6. /\ WellMade(t) /\ t # <<>> /\ Last(t) = f
      /\ Kept(stack, t, "completions") /\ Kept(stack, t, "tail")
  BY <1>1, <1>4, <1>5, Swapped
<1> HIDE DEF t
<1>7. t = Append(Below, Frame(fn, Top.req, rc)) /\ f = Frame(fn, Top.req, rc)
  BY DEF t, f, Below, Top
<1>8. ~TopIs("tail")
  BY <1>1 DEF TopIs, Top
<1>9. Top.req = Last(stack).req
  BY DEF Top
<1> QED
  BY <1>4, <1>6, <1>7, <1>8, <1>9

\* What is ready, or sent when the session is lost, has something above its method.
LEMMA TopUncovered ==
    ASSUME DispatchInv, TopIs("loop") \/ TopIs("poll"), Top.req # 0
    PROVE  /\ Top.req \in Requests /\ Holds(Top.req, stack)
           /\ ~Holds(Top.req, ready)
           /\ session = "lost" => ~Sent(Top.req)
<1>1. stack # <<>> /\ WellMade(stack) /\ Cover
  BY DEF TopIs, DispatchInv, Stacked
<1>2. /\ Last(stack) \in Frames
      /\ Holds(Last(stack).req, stack)
      /\ \A fn : ~Covered(Last(stack).req, stack, fn)
  BY <1>1, Popped
<1>3. Top.req \in Requests
  BY <1>2, Numbers DEF Top, Frames
<1> QED
  BY <1>1, <1>2, <1>3 DEF Cover, Top

\* An error that the API has returned ends the method on top of s.
LEMMA LoopFailed ==
    ASSUME DispatchInv, UNCHANGED handle, NEW s, NEW rc \in Codes \ {"ZOK"},
           LoopFails(s, rc), WellMade(s), s # <<>>, Last(s).fn \in {"loop", "poll"},
           Kept(stack, s, "completions"), Kept(stack, s, "tail"), ~TopIs("tail"),
           Last(s).req # 0 =>
               /\ Out(Last(s).req) =>
                      rc = "ZNOTHING" \/ (rc = "ZCONNECTIONLOSS" /\ Auth(Last(s).req))
               /\ results[Last(s).req].running \/ results[Last(s).req].error \in Failures
    PROVE  DispatchInv'
<1>1. Typed /\ Numbered /\ Stacked /\ Queue /\ Fate /\ Cover /\ Truth /\ Left
  BY DEF DispatchInv
<1>2. UNCHANGED <<session, pending, auths, ready, watches, callable, method, left>>
  BY DEF LoopFails, handle, caller
<1>3. Calls' = Calls
  BY <1>2 DEF Calls
<1>4. Last(s) \in Frames /\ WellMade(Front(s))
  BY Popped
<1>5. CASE Last(s).req = 0
  <2>1. stack' = Front(s) /\ results' = results
    BY <1>5 DEF LoopFails
  <2>2. Kept(s, stack', "completions") /\ Kept(s, stack', "tail")
    BY <1>5, <2>1, Dropped
  <2>3. Kept(stack, stack', "completions") /\ Kept(stack, stack', "tail")
    BY <2>2 DEF Kept
  <2>4. stack' # <<>> => Last(stack').fn = "watcher"
    <3>1. Front(s) # <<>> => Follows(Last(Front(s)).fn, Last(s).fn)
      BY Popped
    <3> QED
      BY <2>1, <3>1 DEF Follows
  <2>5. Turn'
    BY <2>4 DEF Turn, TopIs, Top
  <2>6. session' \in Sessions /\ callable' \in BOOLEAN
    BY <1>1, <1>2 DEF Typed
  <2>7. WellMade(stack') /\ \A r \in Requests :
           Covered(r, stack, "completions") => Covered(r, stack', "completions")
    BY <1>4, <2>1, <2>3 DEF Kept
  <2> QED
    BY <1>2, <2>1, <2>3, <2>5, <2>6, <2>7, Quiet
<1>6. CASE Last(s).req # 0
  <2> DEFINE r0 == Last(s).req
             f == Frame("return", r0, rc)
  <2>1. r0 \in Requests
    BY <1>4, <1>6, Numbers DEF Frames
  <2>2. stack' = Append(Front(s), f) /\ results' = [results EXCEPT ![r0].retval = "false"]
    BY <1>6 DEF LoopFails
  <2>3. f \in Frames /\ f.fn = "return" /\ f.req = r0 /\ f.rc = rc
    <3>1. "return" \in FrameKinds /\ r0 \in 0 .. MaxCalls
      BY <2>1, Numbers DEF FrameKinds
    <3> QED
      BY <3>1, FrameParts
  <2>4. "return" \in Methodic
    BY DEF Methodic
  <2> HIDE DEF f, r0
  <2>5. Sound(f)
    BY <1>6, <2>3, <2>4 DEF Sound, r0
  <2>6. /\ WellMade(stack') /\ stack' # <<>> /\ Last(stack') = f
        /\ Kept(s, stack', "completions") /\ Kept(s, stack', "tail")
    BY <2>2, <2>3, <2>4, <2>5, Swapped DEF r0
  <2>7. \A r \in Requests : /\ Holds(r, stack') <=> Holds(r, stack)
                            /\ Failing(r, stack') => Failing(r, stack)
                            /\ Covered(r, stack, "tail") => Covered(r, stack', "tail")
                            /\ Covered(r, stack, "completions")
                                  => Covered(r, stack', "completions")
    BY <2>6 DEF Kept
  <2>8. /\ results' \in [Requests -> QueryResults]
        /\ \A r \in Requests : /\ results'[r].running <=> results[r].running
                               /\ results'[r].error = results[r].error
                               /\ r # r0 => results'[r].retval = results[r].retval
        /\ results'[r0].retval = "false"
    <3>1. results \in [Requests -> QueryResults] /\ "false" \in Values
      BY <1>1 DEF Typed, Values
    <3> QED
      BY <2>1, <2>2, <3>1 DEF QueryResults
  <2>9. Holds(r0, s) /\ Holds(r0, stack')
    <3>1. Holds(r0, s)
      BY Popped DEF r0
    <3> QED
      BY <2>1, <2>6, <3>1 DEF Kept
  <2>10. Typed'
    BY <1>1, <1>2, <2>8 DEF Typed
  <2>11. Numbered'
    BY <1>1, <1>2, <1>3 DEF Numbered
  <2>12. Stacked'
    BY <1>1, <1>3, <2>6, <2>7 DEF Stacked
  <2>13. Queue'
    BY <1>1, <1>2, <1>3 DEF Queue, Line, Auth
  <2>14. Fate'
    <3> SUFFICES ASSUME NEW r \in Requests
                 PROVE  /\ results'[r].running => results'[r].error = "ZOK"
                        /\ r <= Calls /\ results'[r].running => Out(r)
                        /\ ~ r <= Calls => results'[r].running /\ results'[r].retval # "gone"
                        /\ Out(r) => results'[r].running \/ results'[r].retval = "gone"
                        /\ Holds(r, stack') => results'[r].retval # "gone"
      BY <1>2, <1>3 DEF Fate, Out, Sent
    <3>1. /\ results[r].running => results[r].error = "ZOK"
          /\ r <= Calls /\ results[r].running => Out(r)
          /\ ~ r <= Calls => results[r].running /\ results[r].retval # "gone"
          /\ Out(r) => results[r].running \/ results[r].retval = "gone"
          /\ Holds(r, stack) => results[r].retval # "gone"
      BY <1>1 DEF Fate
    <3>2. CASE r = r0
      BY <2>1, <2>7, <2>8, <2>9, <3>1, <3>2
    <3>3. CASE r # r0
      BY <2>7, <2>8, <3>1, <3>3
    <3> QED
      BY <3>2, <3>3
  <2>15. Cover'
    BY <1>1, <1>2, <2>7 DEF Cover, Sent
  <2>16. Truth'
    <3> SUFFICES ASSUME NEW r \in Requests
                 PROVE  /\ Holds(r, stack') /\ ~results'[r].running =>
                               results'[r].retval = Good(method[r], results'[r].error)
                        /\ Failing(r, stack') /\ ~results'[r].running =>
                               results'[r].error \in Failures
                        /\ Failing(r, stack') => Bad(r, ready)
      BY <1>2 DEF Truth
    <3>1. /\ Holds(r, stack) /\ ~results[r].running =>
                 results[r].retval = Good(method[r], results[r].error)
          /\ Failing(r, stack) /\ ~results[r].running => results[r].error \in Failures
          /\ Failing(r, stack) => Bad(r, ready)
      BY <1>1 DEF Truth
    <3>2. results[r].error \in Failures => Good(method[r], results[r].error) = "false"
      BY DEF Good, Failures
    <3>3. r = r0 => results[r].running \/ results[r].error \in Failures
      BY <1>6 DEF r0
    <3> QED
      BY <2>7, <2>8, <3>1, <3>2, <3>3
  <2>17. Turn'
    <3>1. Last(stack').fn = "return" /\ Last(stack').req = r0 /\ Last(stack').rc = rc
      BY <2>3, <2>6
    <3>2. Out(r0) => rc = "ZNOTHING" \/ (rc = "ZCONNECTIONLOSS" /\ Auth(r0))
      BY <1>6 DEF r0
    <3>3. results'[r0].error \in Failures \cup {"ZOK"}
      BY <1>1, <1>6, <2>1, <2>8 DEF Fate, r0
    <3> QED
      BY <1>2, <3>1, <3>2, <3>3 DEF Turn, TopIs, Top, Out, Sent, Auth
  <2>18. Left'
    BY <1>1, <1>2, <2>7 DEF Left, Out, Sent, Auth
  <2> QED
    BY <2>10, <2>11, <2>12, <2>13, <2>14, <2>15, <2>16, <2>17, <2>18 DEF DispatchInv
<1> QED
  BY <1>5, <1>6

-----------------------------------------------------------------------------
(* The actions                                                             *)

\* Frames come and go while no request is made, answered or failed.
LEMMA QuietSteps ==
    ASSUME DispatchInv,
           \/ wait \/ setWatcher \/ WaitReturns \/ DispatchDone \/ ProcessNothing \/ InterestOK
           \/ CompletionsDone \/ WatcherReturns
    PROVE  DispatchInv'
<1>1. Typed /\ Numbered /\ Stacked /\ Queue /\ Fate /\ Cover /\ Truth /\ Turn /\ Left
  BY DEF DispatchInv
<1>2. WellMade(stack) /\ session \in Sessions /\ callable \in BOOLEAN
  BY <1>1 DEF Stacked, Typed
<1>3. CASE wait
  <2>1. UserTurn /\ stack' = Append(stack, Frame("loop", 0, "ZOK"))
        /\ UNCHANGED <<handle, callable, memory>>
    BY <1>3 DEF wait, caller
  <2> DEFINE f == Frame("loop", 0, "ZOK")
  <2>2. f \in Frames /\ f.fn = "loop" /\ f.req = 0 /\ f.rc = "ZOK"
    <3>1. "loop" \in FrameKinds /\ 0 \in 0 .. MaxCalls /\ "ZOK" \in Codes
      BY Numbers DEF FrameKinds, Codes
    <3> QED
      BY <3>1, FrameParts
  <2> HIDE DEF f
  <2>3. Sound(f) /\ f.fn \in Methodic
    BY <2>2 DEF Sound, Methodic
  <2>4. stack # <<>> => Last(stack).fn = "watcher"
    BY <2>1 DEF UserTurn, TopIs, Top
  <2>5. stack # <<>> => Follows(Last(stack).fn, f.fn)
    BY <2>3, <2>4 DEF Follows
  <2>6. /\ WellMade(Append(stack, f)) /\ Append(stack, f) # <<>>
        /\ Last(Append(stack, f)) = f
        /\ \A r : Holds(r, Append(stack, f)) <=> Holds(r, stack) \/ f.req = r
        /\ \A r : Failing(r, Append(stack, f))
                     => Failing(r, stack) \/ (stack # <<>> /\ Last(stack).req = r /\ f.fn = "call")
        /\ \A r, fn : f.req # r /\ (Covered(r, stack, fn) \/ f.fn = fn)
                         => Covered(r, Append(stack, f), fn)
    BY <1>2, <2>2, <2>3, <2>5, Pushed
  <2>7. stack' = Append(stack, f)
    BY <2>1 DEF f
  <2>8. \A r \in Requests : r # 0
    BY Numbers
  <2>9. /\ Kept(stack, stack', "tail")
        /\ \A r \in Requests : Covered(r, stack, "completions") => Covered(r, stack', "completions")
    BY <2>2, <2>6, <2>7, <2>8 DEF Kept
  <2>10. Turn' /\ ~TopIs("tail")
    BY <2>2, <2>4, <2>6, <2>7 DEF Turn, TopIs, Top
  <2>11. UNCHANGED <<session, pending, auths, ready, watches, callable, method, results, left>>
    BY <2>1 DEF handle, memory
  <2> QED
    BY <1>2, <2>6, <2>7, <2>9, <2>10, <2>11, Quiet
<1>4. CASE setWatcher
  <2>1. UNCHANGED <<session, pending, auths, ready, watches, method, results, left, stack>>
        /\ callable' \in BOOLEAN
    BY <1>4 DEF setWatcher, handle, memory
  <2>2. Kept(stack, stack', "tail")
    BY <2>1 DEF Kept
  <2>3. Turn' /\ (TopIs("tail") => TopIs("tail")')
    BY <1>1, <2>1 DEF Turn, TopIs, Top, Out, Sent, Auth
  <2> QED
    BY <1>2, <2>1, <2>2, <2>3, Quiet
<1>5. CASE WaitReturns \/ WatcherReturns \/ CompletionsDone
  <2>1. /\ stack # <<>> /\ Last(stack).req = 0 /\ stack' = Front(stack)
        /\ UNCHANGED <<session, pending, auths, ready, watches, callable, method, results, left>>
        /\ Last(stack).fn \in {"loop", "poll", "watcher"}
               \/ (Last(stack).fn = "completions" /\ ready = <<>>)
    <3>1. Sound(Last(stack)) \/ stack = <<>>
      BY <1>2, Popped
    <3>2. Last(stack).fn \in {"watcher", "completions"} /\ Sound(Last(stack))
             => Last(stack).req = 0
      BY DEF Sound, Methodic
    <3> QED
      BY <1>5, <3>1, <3>2 DEF WaitReturns, WatcherReturns, CompletionsDone, Waiting, TopIs, Top,
                              Below, handle, memory, caller
  <2>2. WellMade(stack') /\ \A fn : fn # Last(stack).fn => Kept(stack, stack', fn)
    BY <1>2, <2>1, Dropped
  <2>3. Kept(stack, stack', "tail")
    BY <2>1, <2>2
  <2>4. \A r \in Requests : Holds(r, ready) /\ Covered(r, stack, "completions")
                               => Covered(r, stack', "completions")
    <3>1. CASE Last(stack).fn # "completions"
      BY <2>2, <3>1 DEF Kept
    <3>2. CASE ready = <<>>
      BY <3>2, NothingHeld
    <3> QED
      BY <2>1, <3>1, <3>2
  <2>5. stack' # <<>> => Last(stack').fn \notin {"poll", "return"}
    <3>1. stack' # <<>> => Follows(Last(stack').fn, Last(stack).fn)
      BY <1>2, <2>1, Popped
    <3> QED
      BY <2>1, <3>1 DEF Follows
  <2>6. Turn' /\ ~TopIs("tail")
    BY <2>1, <2>5 DEF Turn, TopIs, Top
  <2> QED
    BY <1>2, <2>1, <2>2, <2>3, <2>4, <2>6, Quiet
<1>6. CASE ProcessNothing \/ InterestOK
  <2>1. PICK fn \in {"loop", "poll"} :
            /\ stack' = Append(Below, Frame(fn, Top.req, "ZOK"))
            /\ fn = "poll" => Running
    BY <1>6 DEF ProcessNothing, InterestOK, Goto
  <2>2. /\ TopIs("loop") \/ TopIs("poll")
        /\ UNCHANGED <<pending, auths, ready, watches, callable, method, results, left>>
    BY <1>6 DEF ProcessNothing, InterestOK, handle, memory, caller
  <2>3. session' \in Sessions /\ (session' = session \/ (session' = "connecting" /\ session = "down"))
    BY <1>2, <1>6 DEF ProcessNothing, InterestOK, handle, Sessions
  <2>4. fn \in Methodic /\ fn # "return" /\ "ZOK" \in Codes
    BY DEF Methodic, Codes
  <2>5. /\ WellMade(stack') /\ stack' # <<>>
        /\ Last(stack').fn = fn /\ Last(stack').req = Top.req
        /\ Kept(stack, stack', "completions") /\ Kept(stack, stack', "tail")
        /\ ~TopIs("tail")
    BY <2>1, <2>2, <2>4, GoesOn
  <2>6. Turn'
    <3>1. fn = "poll" /\ Top.req # 0 => results[Top.req].running
      BY <2>1 DEF Running
    <3> QED
      BY <2>2, <2>4, <2>5, <3>1 DEF Turn, TopIs, Top
  <2>7. \A r \in Requests : Covered(r, stack, "completions") => Covered(r, stack', "completions")
    BY <2>5 DEF Kept
  <2>8. /\ session' = "lost" => session = "lost"
        /\ session \in {"closing", "lost"} => session' = session
    BY <2>3
  <2> QED
    BY <1>2, <2>2, <2>3, <2>5, <2>6, <2>7, <2>8, Quiet
<1>7. CASE DispatchDone
  <2> DEFINE r0 == Top.req
             rc == results[Top.req].error
  <2>1. /\ TopIs("loop") /\ r0 # 0 /\ ~results[r0].running
        /\ stack' = Append(Below, Frame("return", r0, rc))
        /\ UNCHANGED <<session, pending, auths, ready, watches, callable, method, results, left>>
    BY <1>7 DEF DispatchDone, In, handle, memory, caller
  <2>2. r0 \in Requests /\ Holds(r0, stack)
    BY <2>1, TopUncovered
  <2>3. rc \in Codes
    BY <1>1, <2>2 DEF Typed, QueryResults
  <2>4. "return" \in Methodic
    BY DEF Methodic
  <2>5. /\ WellMade(stack') /\ stack' # <<>>
        /\ Last(stack').fn = "return" /\ Last(stack').req = r0 /\ Last(stack').rc = rc
        /\ Kept(stack, stack', "completions") /\ Kept(stack, stack', "tail")
        /\ ~TopIs("tail")
    BY <2>1, <2>3, <2>4, GoesOn
  <2> HIDE DEF r0, rc
  <2>6. ~Out(r0)
    BY <1>1, <2>1, <2>2 DEF Fate
  <2>7. results[r0].retval = "false" => rc # "ZOK"
    <3>1. method[r0] \in Used
      BY <1>1, <2>2 DEF Typed, Numbered, Stacked
    <3>2. results[r0].retval = Good(method[r0], rc)
      BY <1>1, <2>1, <2>2 DEF Truth, r0, rc
    <3> QED
      BY <2>3, <3>1, <3>2, Storing
  <2>8. Turn'
    <3>1. rc = results[r0].error
      BY DEF rc, r0
    <3> QED
      BY <2>1, <2>5, <2>6, <2>7, <3>1 DEF Turn, TopIs, Top, Out, Sent, Auth
  <2>9. \A r \in Requests : Covered(r, stack, "completions") => Covered(r, stack', "completions")
    BY <2>5 DEF Kept
  <2> QED
    BY <1>2, <2>1, <2>5, <2>8, <2>9, Quiet
<1> QED
  BY <1>3, <1>4, <1>5, <1>6, <1>7

\* An API call returns an error to its loop.
LEMMA FailSteps ==
    ASSUME DispatchInv, InterestRefused \/ InterestPingFails \/ ProcessPartial \/ CallReturns
    PROVE  DispatchInv'
<1>1. Typed /\ Numbered /\ Stacked /\ Queue /\ Fate /\ Cover /\ Truth /\ Turn /\ Left
  BY DEF DispatchInv
<1>2. WellMade(stack)
  BY <1>1 DEF Stacked
<1>3. CASE InterestRefused \/ InterestPingFails \/ ProcessPartial
  <2> DEFINE r0 == Last(stack).req
  <2>1. PICK rc \in Codes \ {"ZOK"} :
            /\ LoopFails(stack, rc)
            /\ \/ rc = "ZNOTHING"
               \/ session = "lost"
               \/ rc = "ZCONNECTIONLOSS" /\ pending = <<>>
    BY <1>3 DEF InterestRefused, InterestPingFails, ProcessPartial, Codes, Failures
  <2>2. /\ TopIs("loop") \/ TopIs("poll")
        /\ UNCHANGED handle
        /\ Running \/ TopIs("poll")
    BY <1>3 DEF InterestRefused, InterestPingFails, ProcessPartial
  <2>3. stack # <<>> /\ Last(stack).fn \in {"loop", "poll"} /\ Top.req = r0 /\ ~TopIs("tail")
    BY <2>2 DEF TopIs, Top
  <2>4. Kept(stack, stack, "completions") /\ Kept(stack, stack, "tail")
    BY DEF Kept
  <2>5. r0 # 0 => results[r0].running
    BY <1>1, <2>2, <2>3 DEF Turn, Running
  <2>6. r0 # 0 /\ Out(r0) => rc = "ZNOTHING" \/ (rc = "ZCONNECTIONLOSS" /\ Auth(r0))
    <3> SUFFICES ASSUME r0 # 0, Out(r0), rc # "ZNOTHING"
                 PROVE  rc = "ZCONNECTIONLOSS" /\ Auth(r0)
      OBVIOUS
    <3>1. r0 \in Requests /\ ~Holds(r0, ready) /\ (session = "lost" => ~Sent(r0))
      BY <2>2, <2>3, TopUncovered
    <3>2. Sent(r0) /\ rc = "ZCONNECTIONLOSS" /\ pending = <<>>
      BY <2>1, <3>1 DEF Out
    <3>3. r0 \in auths
      BY <3>2, NothingHeld DEF Sent
    <3> QED
      BY <1>1, <3>2, <3>3 DEF Queue
  <2> HIDE DEF r0
  <2>7. Last(stack).req # 0 =>
            /\ Out(Last(stack).req) =>
                   rc = "ZNOTHING" \/ (rc = "ZCONNECTIONLOSS" /\ Auth(Last(stack).req))
            /\ results[Last(stack).req].running \/ results[Last(stack).req].error \in Failures
    BY <2>5, <2>6 DEF r0
  <2> QED
    BY <1>2, <2>1, <2>2, <2>3, <2>4, <2>7, LoopFailed
<1>4. CASE CallReturns
  <2> DEFINE s == Front(stack)
             r0 == Last(s).req
             rc == Last(stack).rc
  <2>1. stack # <<>> /\ Last(stack).fn = "call" /\ LoopFails(s, rc) /\ UNCHANGED handle
    BY <1>4 DEF CallReturns, TopIs, Top, Below
  <2>2. /\ WellMade(s) /\ Sound(Last(stack))
        /\ s = <<>> => Last(stack).fn \in Methodic
        /\ s # <<>> => /\ Follows(Last(s).fn, Last(stack).fn)
                       /\ Last(stack).fn = "call" => Failing(Last(s).req, stack)
    BY <1>2, <2>1, Popped
  <2>3. rc \in Failures /\ Last(stack).req = 0
    BY <2>1, <2>2 DEF Sound, Methodic
  <2>4. \A fn : fn # Last(stack).fn => Kept(stack, s, fn)
    BY <1>2, <2>1, <2>3, Dropped
  <2> HIDE DEF s
  <2>5. s # <<>> /\ Last(s).fn = "loop" /\ Failing(r0, stack)
    BY <2>1, <2>2 DEF Methodic, Follows
  <2>6. Kept(stack, s, "completions") /\ Kept(stack, s, "tail")
    BY <2>1, <2>4
  <2>7. rc \in Codes \ {"ZOK"} /\ ~TopIs("tail")
    BY <2>1, <2>3 DEF Codes, Failures, TopIs, Top
  <2>8. /\ Holds(r0, s) /\ Last(s) \in Frames
        /\ \A fn : ~Covered(r0, s, fn)
    BY <2>2, <2>5, Popped
  <2> HIDE DEF r0, rc
  <2>9. r0 # 0 => ~Out(r0) /\ (results[r0].running \/ results[r0].error \in Failures)
    <3> SUFFICES ASSUME r0 # 0
                 PROVE  ~Out(r0) /\ (results[r0].running \/ results[r0].error \in Failures)
      OBVIOUS
    <3>1. r0 \in Requests
      BY <2>8, Numbers DEF Frames, r0
    <3>2. ~Covered(r0, stack, "completions") /\ ~Covered(r0, stack, "tail")
      BY <2>6, <2>8, <3>1 DEF Kept
    <3>3. ~Holds(r0, ready) /\ ~Sent(r0)
      BY <1>1, <2>5, <3>1, <3>2 DEF Cover
    <3>4. Holds(r0, stack)
      BY <2>6, <2>8, <3>1 DEF Kept
    <3> QED
      BY <1>1, <2>5, <3>1, <3>3, <3>4 DEF Truth, Out
  <2>10. Last(s).req # 0 =>
            /\ Out(Last(s).req) =>
                   rc = "ZNOTHING" \/ (rc = "ZCONNECTIONLOSS" /\ Auth(Last(s).req))
            /\ results[Last(s).req].running \/ results[Last(s).req].error \in Failures
    BY <2>9 DEF r0
  <2>11. LoopFails(s, rc) /\ UNCHANGED handle /\ WellMade(s) /\ Last(s).fn \in {"loop", "poll"}
    BY <2>1, <2>2, <2>5 DEF rc
  <2> QED
    BY <2>5, <2>6, <2>7, <2>10, <2>11, LoopFailed
<1> QED
  BY <1>3, <1>4

\* A packet has been received; its completion is run next.
LEMMA Delivered ==
    ASSUME DispatchInv, TopIs("poll"), ThenCompletions,
           UNCHANGED <<auths, callable, method, results, left>>, watches' \in Nat,
           session \notin {"closing", "lost"}, session' \in Sessions \ {"lost"},
           WellQueued(ready'), pending' \in Seq(Requests), Ascending(pending'),
           \A r, x : Holds(r, ready') /\ r # 0 /\ Among(x, pending') => r < x,
           \A r \in Requests :
               /\ Holds(r, ready') \/ Among(r, pending') <=> Holds(r, ready) \/ Among(r, pending)
               /\ Among(r, pending') => Among(r, pending)
               /\ Failing(r, stack) /\ Bad(r, ready) => Bad(r, ready')
    PROVE  DispatchInv'
<1>1. Typed /\ Numbered /\ Stacked /\ Queue /\ Fate /\ Cover /\ Truth /\ Turn /\ Left
  BY DEF DispatchInv
<1>2. Calls' = Calls
  BY DEF Calls
<1> DEFINE t == Append(Below, Frame("loop", Top.req, "ZOK"))
           d == Inner("completions", "ZOK")
<1>3. stack' = Append(t, d)
  BY DEF ThenCompletions, Goto
<1>4. "loop" \in Methodic /\ "ZOK" \in Codes /\ "completions" \in FrameKinds /\ 0 \in 0 .. MaxCalls
  BY Numbers DEF Methodic, Codes, FrameKinds
<1>5. /\ WellMade(t) /\ t # <<>> /\ Last(t).fn = "loop"
      /\ Kept(stack, t, "completions") /\ Kept(stack, t, "tail")
  BY <1>4, GoesOn
<1>6. d \in Frames /\ d.fn = "completions" /\ d.req = 0
  BY <1>4, FrameParts DEF Inner
<1> HIDE DEF t, d
<1>7. Sound(d) /\ Follows(Last(t).fn, d.fn)
  BY <1>5, <1>6 DEF Sound, Follows
<1>8. /\ WellMade(stack') /\ stack' # <<>> /\ Last(stack') = d
      /\ \A r \in Requests :
             /\ Holds(r, stack') <=> Holds(r, t)
             /\ Failing(r, stack') => Failing(r, t) \/ (Last(t).req = r /\ d.fn = "call")
             /\ \A fn : Covered(r, t, fn) \/ d.fn = fn => Covered(r, stack', fn)
  BY <1>3, <1>5, <1>6, <1>7, Above
<1>9. \A r \in Requests : /\ Holds(r, stack') <=> Holds(r, stack)
                          /\ Failing(r, stack') => Failing(r, stack)
                          /\ Covered(r, stack', "completions")
  BY <1>5, <1>6, <1>8 DEF Kept
<1>10. \A r \in Requests : ~(Sent(r) /\ Failing(r, stack))
  <2>1. ~TopIs("tail")
    BY DEF TopIs
  <2> QED
    BY <1>1, <2>1 DEF Cover
<1>11. Typed'
  BY <1>1 DEF Typed
<1>12. Numbered'
  BY <1>1, <1>2 DEF Numbered
<1>13. Stacked'
  BY <1>1, <1>2, <1>8, <1>9 DEF Stacked
<1>14. Queue'
  BY <1>1, <1>2 DEF Queue, Line, Auth
<1>15. Fate'
  BY <1>1, <1>2, <1>9 DEF Fate, Out, Sent
<1>16. Cover'
  BY <1>9, <1>10 DEF Cover, Sent
<1>17. Truth'
  BY <1>1, <1>9 DEF Truth
<1>18. Turn'
  BY <1>6, <1>8 DEF Turn, TopIs, Top
<1>19. Left'
  BY <1>1, <1>9 DEF Left, Out, Sent, Auth
<1> QED
  BY <1>11, <1>12, <1>13, <1>14, <1>15, <1>16, <1>17, <1>18, <1>19 DEF DispatchInv

\* What is queued besides replies.
LEMMA EventFacts ==
    ASSUME NEW kind \in {"node", "session"}
    PROVE  Event(kind) \in Responses /\ Genuine(Event(kind)) /\ Event(kind).req = 0
<1>1. 0 \in 0 .. MaxCalls /\ "ZOK" \in Codes
  BY Numbers DEF Codes
<1> QED
  BY <1>1 DEF Event, Responses, Genuine

\* A reply, an event or the end of the handshake is received.
LEMMA DeliverySteps ==
    ASSUME DispatchInv, ProcessEstablished \/ ProcessReply \/ ProcessEvent
    PROVE  DispatchInv'
<1>1. Typed /\ Numbered /\ Stacked /\ Queue /\ Fate /\ Cover /\ Truth /\ Turn /\ Left
  BY DEF DispatchInv
<1>2. /\ WellQueued(ready) /\ pending \in Seq(Requests) /\ Ascending(pending)
      /\ \A r, x : Holds(r, ready) /\ r # 0 /\ Among(x, pending) => r < x
      /\ watches \in Nat
  BY <1>1 DEF Queue, Typed
<1>3. CASE ProcessEstablished \/ ProcessEvent
  <2>1. /\ TopIs("poll") /\ ThenCompletions
        /\ UNCHANGED <<pending, auths, callable, method, results, left>>
        /\ session \notin {"closing", "lost"} /\ session' \in Sessions \ {"lost"}
    BY <1>3 DEF ProcessEstablished, ProcessEvent, memory, Sessions, caller
  <2>2. watches' \in Nat
    BY <1>2, <1>3 DEF ProcessEstablished, ProcessEvent
  <2>3. PICK kind \in {"node", "session"} : ready' = Append(ready, Event(kind))
    BY <1>3 DEF ProcessEstablished, ProcessEvent
  <2> DEFINE x == Event(kind)
  <2>4. x \in Responses /\ Genuine(x) /\ x.req = 0
    BY EventFacts
  <2> HIDE DEF x
  <2>5. /\ WellQueued(Append(ready, x))
        /\ \A r : Holds(r, Append(ready, x)) <=> Holds(r, ready) \/ x.req = r
        /\ \A r : Bad(r, ready) /\ (x.req = r => x.rc \in Failures) => Bad(r, Append(ready, x))
    BY <1>2, <2>4, ReadyMore
  <2>6. ready' = Append(ready, x)
    BY <2>3 DEF x
  <2>7. \A r \in Requests : r # 0
    BY Numbers
  <2>8. /\ WellQueued(ready')
        /\ \A r \in Requests : /\ Holds(r, ready') <=> Holds(r, ready)
                               /\ Bad(r, ready) => Bad(r, ready')
        /\ \A r : Holds(r, ready') /\ r # 0 => Holds(r, ready)
    BY <2>4, <2>5, <2>6, <2>7
  <2> QED
    BY <1>2, <2>1, <2>2, <2>8, Delivered
<1>4. CASE ProcessReply
  <2> DEFINE h == Head(pending)
  <2>1. /\ TopIs("poll") /\ session = "established" /\ pending # <<>>
        /\ pending' = Tail(pending) /\ ThenCompletions
        /\ UNCHANGED <<session, auths, callable, method, results, left>>
    BY <1>4 DEF ProcessReply, memory, caller
  <2>2. PICK rc \in {"ZOK", "ZNONODE"} :
            /\ ready' = Append(ready, Reply(h, rc))
            /\ watches' = IF rc = "ZOK" /\ Methods[method[h]].watches THEN watches + 1 ELSE watches
    BY <1>4 DEF ProcessReply
  <2>3. /\ Tail(pending) \in Seq(Requests) /\ Ascending(Tail(pending)) /\ h \in Requests
        /\ \A r : Among(r, pending) <=> r = h \/ Among(r, Tail(pending))
        /\ \A r : Among(r, Tail(pending)) => h < r
    BY <1>2, <2>1, PendingLess
  <2> HIDE DEF h
  <2> DEFINE x == Reply(h, rc)
  <2>4. x \in Responses /\ Genuine(x) /\ x.req = h
    <3>1. h \in 0 .. MaxCalls /\ h # 0 /\ rc \in Codes
      BY <2>3, Numbers DEF Codes
    <3> QED
      BY <3>1 DEF Reply, Responses, Genuine
  <2> HIDE DEF x
  <2>5. /\ WellQueued(Append(ready, x))
        /\ \A r : Holds(r, Append(ready, x)) <=> Holds(r, ready) \/ x.req = r
        /\ \A r : Bad(r, ready) /\ (x.req = r => x.rc \in Failures) => Bad(r, Append(ready, x))
    BY <1>2, <2>3, <2>4, ReadyMore
  <2>6. ready' = Append(ready, x)
    BY <2>2 DEF x
  <2>7. ~Failing(h, stack)
    <3>1. Sent(h)
      BY <2>3 DEF Sent
    <3>2. ~TopIs("tail")
      BY <2>1 DEF TopIs
    <3> QED
      BY <1>1, <2>1, <2>3, <3>1, <3>2 DEF Cover
  <2>8. watches' \in Nat
    BY <1>2, <2>2
  <2>9. \A r, y : Holds(r, ready') /\ r # 0 /\ Among(y, pending') => r < y
    BY <1>2, <2>1, <2>3, <2>4, <2>5, <2>6
  <2>10. \A r \in Requests :
            /\ Holds(r, ready') \/ Among(r, pending') <=> Holds(r, ready) \/ Among(r, pending)
            /\ Among(r, pending') => Among(r, pending)
            /\ Failing(r, stack) /\ Bad(r, ready) => Bad(r, ready')
    BY <2>1, <2>3, <2>4, <2>5, <2>6, <2>7
  <2>11. session \notin {"closing", "lost"} /\ session' \in Sessions \ {"lost"}
    BY <2>1 DEF Sessions
  <2> QED
    BY <2>1, <2>3, <2>5, <2>6, <2>8, <2>9, <2>10, <2>11, Delivered
<1> QED
  BY <1>3, <1>4

\* process_completions() takes the first completion: an event may call the watcher.
LEMMA WatchStep ==
    ASSUME DispatchInv, watch_func
    PROVE  DispatchInv'
<1>1. Typed /\ Numbered /\ Stacked /\ Queue /\ Fate /\ Cover /\ Truth /\ Turn /\ Left
  BY DEF DispatchInv
<1>2. /\ TopIs("completions") /\ ready # <<>> /\ Head(ready).kind # "reply"
      /\ ready' = Tail(ready)
      /\ UNCHANGED <<session, pending, auths, watches, callable, method, results, left>>
      /\ stack' = stack \/ stack' = Append(stack, Inner("watcher", "ZOK"))
  BY DEF watch_func, memory, caller
<1>3. /\ WellQueued(ready) /\ WellMade(stack) /\ stack # <<>> /\ Last(stack).fn = "completions"
  BY <1>1, <1>2 DEF Queue, Stacked, TopIs, Top
<1>4. /\ WellQueued(Tail(ready)) /\ Head(ready) \in Responses /\ Genuine(Head(ready))
      /\ \A r : Holds(r, ready) <=> Holds(r, Tail(ready)) \/ Head(ready).req = r
      /\ \A r : Bad(r, ready) => Bad(r, Tail(ready))
  BY <1>2, <1>3, ReadyLess
<1>5. Head(ready).req = 0 /\ \A r \in Requests : r # 0
  BY <1>2, <1>4, Numbers DEF Genuine
<1>6. /\ WellQueued(ready')
      /\ \A r : r # 0 => (Holds(r, ready') <=> Holds(r, ready))
      /\ \A r \in Requests : /\ Holds(r, ready') <=> Holds(r, ready)
                             /\ Bad(r, ready) => Bad(r, ready')
  BY <1>2, <1>4, <1>5
<1>7. /\ WellMade(stack') /\ stack' # <<>> /\ Last(stack').fn \in {"completions", "watcher"}
      /\ \A r \in Requests : /\ Holds(r, stack') <=> Holds(r, stack)
                             /\ Failing(r, stack') => Failing(r, stack)
                             /\ \A fn : Covered(r, stack, fn) => Covered(r, stack', fn)
  <2>1. CASE stack' = stack
    BY <1>3, <2>1
  <2>2. CASE stack' = Append(stack, Inner("watcher", "ZOK"))
    <3> DEFINE f == Inner("watcher", "ZOK")
    <3>1. "watcher" \in FrameKinds /\ "ZOK" \in Codes /\ 0 \in 0 .. MaxCalls
      BY Numbers DEF FrameKinds, Codes
    <3>2. f \in Frames /\ f.fn = "watcher" /\ f.req = 0
      BY <3>1, FrameParts DEF Inner
    <3> HIDE DEF f
    <3>3. Sound(f) /\ Follows(Last(stack).fn, f.fn)
      BY <1>3, <3>2 DEF Sound, Follows
    <3>4. /\ WellMade(Append(stack, f)) /\ Append(stack, f) # <<>> /\ Last(Append(stack, f)) = f
          /\ \A r \in Requests :
                 /\ Holds(r, Append(stack, f)) <=> Holds(r, stack)
                 /\ Failing(r, Append(stack, f))
                       => Failing(r, stack) \/ (Last(stack).req = r /\ f.fn = "call")
                 /\ \A fn : Covered(r, stack, fn) \/ f.fn = fn => Covered(r, Append(stack, f), fn)
      BY <1>3, <3>2, <3>3, Above
    <3>5. stack' = Append(stack, f)
      BY <2>2 DEF f
    <3> QED
      BY <3>2, <3>4, <3>5
  <2> QED
    BY <1>2, <2>1, <2>2
<1>8. Calls' = Calls
  BY <1>2 DEF Calls
<1>9. ~TopIs("tail")
  BY <1>2 DEF TopIs
<1>10. Typed'
  BY <1>1, <1>2 DEF Typed
<1>11. Numbered'
  BY <1>1, <1>2, <1>8 DEF Numbered
<1>12. Stacked'
  BY <1>1, <1>7, <1>8 DEF Stacked
<1>13. Queue'
  BY <1>1, <1>2, <1>6, <1>8 DEF Queue, Line, Auth
<1>14. Fate'
  BY <1>1, <1>2, <1>6, <1>7, <1>8 DEF Fate, Out, Sent
<1>15. Cover'
  BY <1>1, <1>2, <1>6, <1>7, <1>9 DEF Cover, Sent
<1>16. Truth'
  BY <1>1, <1>2, <1>6, <1>7 DEF Truth
<1>17. Turn'
  BY <1>7 DEF Turn, TopIs, Top
<1>18. Left'
  BY <1>1, <1>2, <1>6, <1>7 DEF Left, Out, Sent, Auth
<1> QED
  BY <1>10, <1>11, <1>12, <1>13, <1>14, <1>15, <1>16, <1>17, <1>18 DEF DispatchInv

\* A call that fails is one of a method under way.
LEMMA FailingHeld == ASSUME NEW s \in Seq(Frames), NEW r, Failing(r, s) PROVE Holds(r, s)
<1>1. Len(s) \in Nat
  BY LenProperties
<1>2. \A i \in 1 .. Len(s) - 1 : i \in 1 .. Len(s)
  BY <1>1
<1> QED
  BY <1>2 DEF Failing, Holds

\* The requests S are answered with rc: their methods run no more and have the answer.
LEMMA Answering ==
    ASSUME DispatchInv, NEW S, NEW rc \in Codes, results' = Completed(S, rc),
           UNCHANGED method,
           \A r \in S : r \in Requests => r <= Calls,
           \A r \in Requests : /\ Out(r)' <=> Out(r) /\ r \notin S
                               /\ Holds(r, stack') <=> Holds(r, stack)
    PROVE  /\ results' \in [Requests -> QueryResults]
           /\ Fate'
           /\ \A r \in Requests :
                  /\ Holds(r, stack) /\ ~results'[r].running =>
                         results'[r].retval = Good(method[r], results'[r].error)
                  /\ r \notin S => results'[r] = results[r]
                  /\ r \in S => ~results'[r].running
                  /\ r \in S /\ Holds(r, stack) => results'[r].error = rc
<1>1. Typed /\ Numbered /\ Fate /\ Truth
  BY DEF DispatchInv
<1>2. /\ results' \in [Requests -> QueryResults]
      /\ \A r \in Requests :
             /\ r \notin S => results'[r] = results[r]
             /\ r \in S => ~results'[r].running
             /\ r \in S /\ results[r].retval # "gone" =>
                    /\ results'[r].error = rc /\ results'[r].retval = Good(method[r], rc)
                    /\ results'[r].retval # "gone"
  BY <1>1, CompletedFacts
<1>3. Calls' = Calls
  BY DEF Calls
<1>4. ASSUME NEW r \in Requests
      PROVE  /\ results[r].running => results[r].error = "ZOK"
             /\ r <= Calls /\ results[r].running => Out(r)
             /\ ~ r <= Calls => results[r].running /\ results[r].retval # "gone"
             /\ Out(r) => results[r].running \/ results[r].retval = "gone"
             /\ Holds(r, stack) => results[r].retval # "gone"
             /\ Holds(r, stack) /\ ~results[r].running =>
                    results[r].retval = Good(method[r], results[r].error)
  BY <1>1 DEF Fate, Truth
<1>5. Fate'
  <2> SUFFICES ASSUME NEW r \in Requests
               PROVE  /\ results'[r].running => results'[r].error = "ZOK"
                      /\ r <= Calls /\ results'[r].running => Out(r)'
                      /\ ~ r <= Calls => results'[r].running /\ results'[r].retval # "gone"
                      /\ Out(r)' => results'[r].running \/ results'[r].retval = "gone"
                      /\ Holds(r, stack') => results'[r].retval # "gone"
    BY <1>3 DEF Fate
  <2>1. CASE r \in S
    BY <1>2, <1>4, <2>1
  <2>2. CASE r \notin S
    BY <1>2, <1>4, <2>2
  <2> QED
    BY <2>1, <2>2
<1>6. ASSUME NEW r \in Requests
      PROVE  /\ Holds(r, stack) /\ ~results'[r].running =>
                    results'[r].retval = Good(method[r], results'[r].error)
             /\ r \in S /\ Holds(r, stack) => results'[r].error = rc
  <2>1. CASE r \in S
    BY <1>2, <1>4, <2>1
  <2>2. CASE r \notin S
    BY <1>2, <1>4, <2>2
  <2> QED
    BY <2>1, <2>2
<1> QED
  BY <1>2, <1>5, <1>6

\* process_completions() runs the first completion.
LEMMA RunStep ==
    ASSUME DispatchInv, RunCompletion
    PROVE  DispatchInv'
<1>1. Typed /\ Numbered /\ Stacked /\ Queue /\ Fate /\ Cover /\ Truth /\ Turn /\ Left
  BY DEF DispatchInv
<1> DEFINE r0 == Head(ready).req
           rc == Head(ready).rc
<1>2. /\ TopIs("completions") /\ ready # <<>> /\ Head(ready).kind = "reply"
      /\ ready' = Tail(ready) /\ results' = Completed({r0}, rc)
      /\ UNCHANGED <<session, pending, auths, watches, callable, method, left, stack>>
  BY DEF RunCompletion, caller
<1>3. /\ WellQueued(ready) /\ pending \in Seq(Requests) /\ Ascending(pending)
      /\ \A r, x : Holds(r, ready) /\ r # 0 /\ Among(x, pending) => r < x
      /\ WellMade(stack) /\ stack \in Seq(Frames)
  BY <1>1 DEF Queue, Stacked, WellMade
<1>4. /\ WellQueued(Tail(ready)) /\ Head(ready) \in Responses /\ Genuine(Head(ready))
      /\ \A r : Holds(r, ready) <=> Holds(r, Tail(ready)) \/ r0 = r
      /\ \A r : Holds(r, Tail(ready)) /\ r # 0 /\ r0 # 0 => r0 < r
      /\ \A r : Bad(r, ready) => Bad(r, Tail(ready)) /\ (r0 = r => rc \in Failures)
  BY <1>2, <1>3, ReadyLess
<1>5. r0 \in Requests /\ rc \in Codes /\ r0 # 0
  BY <1>2, <1>4, Numbers DEF Genuine, Responses
<1> HIDE DEF r0, rc
<1>6. /\ Holds(r0, ready) /\ ~Holds(r0, Tail(ready)) /\ ~Among(r0, pending)
      /\ r0 <= Calls /\ ~Auth(r0) /\ r0 \notin auths
  <2>1. Holds(r0, ready)
    BY <1>4
  <2>2. ~(r0 < r0)
    BY <1>5, Numbers
  <2>3. ~Holds(r0, Tail(ready)) /\ ~Among(r0, pending)
    BY <1>3, <1>4, <1>5, <2>1, <2>2
  <2> QED
    BY <1>1, <1>5, <2>1, <2>3 DEF Queue, Line
<1>7. Calls' = Calls
  BY <1>2 DEF Calls
<1>8. \A r \in Requests : /\ Line(r)' <=> Line(r) /\ r # r0
                          /\ Out(r)' <=> Out(r) /\ r # r0
                          /\ Holds(r, stack') <=> Holds(r, stack)
                          /\ Sent(r)' <=> Sent(r)
  BY <1>2, <1>4, <1>6 DEF Line, Out, Sent
<1>9. /\ results' \in [Requests -> QueryResults]
      /\ Fate'
      /\ \A r \in Requests :
             /\ Holds(r, stack) /\ ~results'[r].running =>
                    results'[r].retval = Good(method[r], results'[r].error)
             /\ r \notin {r0} => results'[r] = results[r]
             /\ r \in {r0} => ~results'[r].running
             /\ r \in {r0} /\ Holds(r, stack) => results'[r].error = rc
  <2>1. \A r \in {r0} : r \in Requests => r <= Calls
    BY <1>6
  <2>2. \A r \in Requests : /\ Out(r)' <=> Out(r) /\ r \notin {r0}
                            /\ Holds(r, stack') <=> Holds(r, stack)
    BY <1>8
  <2>3. results' = Completed({r0}, rc) /\ UNCHANGED method
    BY <1>2 DEF r0, rc
  <2> QED
    BY <1>5, <2>1, <2>2, <2>3, Answering
<1>10. Typed'
  BY <1>1, <1>2, <1>9 DEF Typed
<1>11. Numbered'
  BY <1>1, <1>2, <1>7 DEF Numbered
<1>12. Stacked'
  BY <1>1, <1>2, <1>7 DEF Stacked
<1>13. Queue'
  <2>1. \A r, x \in Requests : r < x /\ x <= Calls /\ Line(r)' /\ ~Auth(x) => Line(x)'
    <3> SUFFICES ASSUME NEW r \in Requests, NEW x \in Requests,
                        r < x, x <= Calls, Line(r)', ~Auth(x)
                 PROVE  Line(x)'
      OBVIOUS
    <3>1. Line(x)
      BY <1>1, <1>8 DEF Queue
    <3>2. r0 < r
      <4>1. Line(r)' => Holds(r, Tail(ready)) \/ Among(r, pending)
        BY <1>2 DEF Line
      <4> QED
        BY <1>3, <1>4, <1>5, <1>6, <4>1, Numbers
    <3>3. x # r0
      BY <3>2, <1>5, Numbers
    <3> QED
      BY <1>8, <3>1, <3>3
  <2>2. \A r, x : Holds(r, ready') /\ r # 0 /\ Among(x, pending') => r < x
    BY <1>2, <1>3, <1>4
  <2>3. \A r \in Requests : Line(r)' => r <= Calls /\ ~Auth(r)
    BY <1>1, <1>8 DEF Queue
  <2>4. \A r : Auth(r)' <=> Auth(r)
    BY <1>2 DEF Auth
  <2>5. \A r \in auths' : r <= Calls' /\ Auth(r)
    BY <1>1, <1>2, <1>7 DEF Queue
  <2>6. auths' \in SUBSET Requests /\ WellQueued(ready') /\ pending' = pending
    BY <1>1, <1>2, <1>4 DEF Queue
  <2> QED
    BY <1>3, <1>7, <2>1, <2>2, <2>3, <2>4, <2>5, <2>6 DEF Queue
<1>14. Cover'
  <2>1. \A r \in Requests : Holds(r, ready') => Holds(r, ready)
    BY <1>2, <1>4
  <2> QED
    BY <1>1, <1>2, <2>1 DEF Cover, Sent, TopIs, Top
<1>15. Truth'
  <2> SUFFICES ASSUME NEW r \in Requests
               PROVE  /\ Holds(r, stack) /\ ~results'[r].running =>
                             results'[r].retval = Good(method[r], results'[r].error)
                      /\ Failing(r, stack) /\ ~results'[r].running =>
                             results'[r].error \in Failures
                      /\ Failing(r, stack) => Bad(r, Tail(ready))
    BY <1>2 DEF Truth
  <2>1. /\ Failing(r, stack) /\ ~results[r].running => results[r].error \in Failures
        /\ Failing(r, stack) => Bad(r, ready)
    BY <1>1 DEF Truth
  <2>2. Failing(r, stack) => Holds(r, stack)
    BY <1>3, FailingHeld
  <2>3. CASE r = r0
    BY <1>4, <1>9, <2>1, <2>2, <2>3
  <2>4. CASE r # r0
    BY <1>4, <1>9, <2>1, <2>4
  <2> QED
    BY <2>3, <2>4
<1>16. Turn'
  BY <1>2 DEF Turn, TopIs, Top
<1>17. Left'
  <2>1. \A r : Auth(r)' <=> Auth(r)
    BY <1>2 DEF Auth
  <2> QED
    BY <1>1, <1>2, <1>8, <2>1 DEF Left
<1> QED
  BY <1>9, <1>10, <1>11, <1>12, <1>13, <1>14, <1>15, <1>16, <1>17 DEF DispatchInv

\* A method returns; its QueryResult is gone.
LEMMA ReturnStep ==
    ASSUME DispatchInv, MethodReturns
    PROVE  DispatchInv'
<1>1. Typed /\ Numbered /\ Stacked /\ Queue /\ Fate /\ Cover /\ Truth /\ Turn /\ Left
  BY DEF DispatchInv
<1> DEFINE r0 == Top.req
<1>2. /\ TopIs("return") /\ stack' = Below
      /\ left' = IF results[r0].running THEN [left EXCEPT ![r0] = Top.rc] ELSE left
      /\ results' = [results EXCEPT ![r0] = Gone]
      /\ UNCHANGED <<session, pending, auths, ready, watches, callable, method>>
  BY DEF MethodReturns, handle, caller
<1>3. /\ stack # <<>> /\ Last(stack).fn = "return" /\ Top = Last(stack) /\ WellMade(stack)
      /\ stack' = Front(stack)
  BY <1>1, <1>2 DEF TopIs, Top, Below, Stacked
<1>4. /\ WellMade(stack') /\ Top \in Frames /\ Sound(Top)
      /\ \A r : Holds(r, stack) <=> Holds(r, stack') \/ r0 = r
      /\ \A r : Failing(r, stack') => Failing(r, stack)
      /\ \A r, fn : Covered(r, stack, fn) /\ "return" # fn => Covered(r, stack', fn)
      /\ \A r : Holds(r, stack') /\ r # 0 /\ r0 # 0 => r < r0
      /\ stack' # <<>> => Follows(Last(stack').fn, "return")
  BY <1>3, Popped
<1>5. r0 \in Requests /\ r0 # 0 /\ Top.rc \in Codes /\ Holds(r0, stack)
  BY <1>2, <1>3, <1>4, Numbers DEF Sound, Frames
<1> HIDE DEF r0
<1>6. ~Holds(r0, stack') /\ ~Failing(r0, stack') /\ r0 <= Calls
  <2>1. ~(r0 < r0)
    BY <1>5, Numbers
  <2>2. ~Holds(r0, stack')
    BY <1>4, <1>5, <2>1
  <2>3. stack' \in Seq(Frames)
    BY <1>4 DEF WellMade
  <2> QED
    BY <1>1, <1>5, <2>2, <2>3, FailingHeld DEF Stacked
<1>7. Gone \in QueryResults /\ ~Gone.running /\ Gone.retval = "gone"
  BY DEF Gone, Result, QueryResults, Codes, Values
<1>8. /\ results' \in [Requests -> QueryResults]
      /\ results'[r0] = Gone
      /\ \A r \in Requests : r # r0 => results'[r] = results[r]
  BY <1>1, <1>2, <1>5, <1>7 DEF Typed
<1>9. /\ left' \in [Requests -> Codes]
      /\ results[r0].running => left'[r0] = Top.rc
      /\ \A r \in Requests : r # r0 => left'[r] = left[r]
  BY <1>1, <1>2, <1>5 DEF Typed
<1>10. Calls' = Calls
  BY <1>2 DEF Calls
<1>11. Typed'
  BY <1>1, <1>2, <1>8, <1>9 DEF Typed
<1>12. Numbered'
  BY <1>1, <1>2, <1>10 DEF Numbered
<1>13. Stacked'
  BY <1>1, <1>4, <1>10 DEF Stacked
<1>14. Queue'
  BY <1>1, <1>2, <1>10 DEF Queue, Line, Auth
<1>15. \A r : (Out(r)' <=> Out(r)) /\ (Sent(r)' <=> Sent(r)) /\ (Auth(r)' <=> Auth(r))
  BY <1>2 DEF Out, Sent, Auth
<1>16. Fate'
  <2> SUFFICES ASSUME NEW r \in Requests
               PROVE  /\ results'[r].running => results'[r].error = "ZOK"
                      /\ r <= Calls /\ results'[r].running => Out(r)
                      /\ ~ r <= Calls => results'[r].running /\ results'[r].retval # "gone"
                      /\ Out(r) => results'[r].running \/ results'[r].retval = "gone"
                      /\ Holds(r, stack') => results'[r].retval # "gone"
    BY <1>10, <1>15 DEF Fate
  <2>1. CASE r = r0
    BY <1>6, <1>7, <1>8, <2>1
  <2>2. CASE r # r0
    BY <1>1, <1>4, <1>8, <2>2 DEF Fate
  <2> QED
    BY <2>1, <2>2
<1>17. Cover'
  <2>1. ~TopIs("tail")
    BY <1>2 DEF TopIs
  <2> QED
    BY <1>1, <1>2, <1>4, <1>15, <2>1 DEF Cover
<1>18. Truth'
  <2> SUFFICES ASSUME NEW r \in Requests
               PROVE  /\ Holds(r, stack') /\ ~results'[r].running =>
                             results'[r].retval = Good(method[r], results'[r].error)
                      /\ Failing(r, stack') /\ ~results'[r].running =>
                             results'[r].error \in Failures
                      /\ Failing(r, stack') => Bad(r, ready)
    BY <1>2 DEF Truth
  <2>1. CASE r = r0
    BY <1>6, <2>1
  <2>2. CASE r # r0
    BY <1>1, <1>4, <1>8, <2>2 DEF Truth
  <2> QED
    BY <2>1, <2>2
<1>19. Turn'
  <2>1. stack' # <<>> => Last(stack').fn = "watcher"
    BY <1>4 DEF Follows
  <2> QED
    BY <2>1 DEF Turn, TopIs, Top
<1>20. Left'
  <2> SUFFICES ASSUME NEW r \in Requests, Out(r)
               PROVE  \/ Holds(r, stack')
                      \/ left'[r] = "ZNOTHING"
                      \/ left'[r] = "ZCONNECTIONLOSS" /\ Auth(r)
    BY <1>15 DEF Left
  <2>1. CASE r = r0
    <3>1. results[r0].running
      BY <1>1, <1>5, <2>1 DEF Fate
    <3>2. Top.rc = "ZNOTHING" \/ (Top.rc = "ZCONNECTIONLOSS" /\ Auth(r0))
      BY <1>1, <1>2, <2>1 DEF Turn, r0
    <3> QED
      BY <1>9, <2>1, <3>1, <3>2
  <2>2. CASE r # r0
    BY <1>1, <1>4, <1>9, <2>2 DEF Left
  <2> QED
    BY <2>1, <2>2
<1> QED
  BY <1>11, <1>12, <1>13, <1>14, <1>16, <1>17, <1>18, <1>19, <1>20 DEF DispatchInv

\* What is queued, or waits in a queue of completions, is a request.
LEMMA HeldType ==
    /\ \A q \in Seq(Responses) : \A x : Holds(x, q) /\ x # 0 => x \in Requests
    /\ \A p \in Seq(Requests) : \A x : Among(x, p) => x \in Requests
<1>1. ASSUME NEW q \in Seq(Responses), NEW x, Holds(x, q), x # 0 PROVE x \in Requests
  <2>1. PICK i \in 1 .. Len(q) : q[i].req = x
    BY <1>1 DEF Holds
  <2>2. q[i] \in Responses
    BY ElementOfSeq
  <2>3. x \in 0 .. MaxCalls
    BY <2>1, <2>2 DEF Responses
  <2> QED
    BY <1>1, <2>3, Numbers
<1>2. ASSUME NEW p \in Seq(Requests), NEW x, Among(x, p) PROVE x \in Requests
  <2>1. PICK i \in 1 .. Len(p) : p[i] = x
    BY <1>2 DEF Among
  <2> QED
    BY <2>1, ElementOfSeq
<1> QED
  BY <1>1, <1>2

\* The next call has the next number.
LEMMA NextNumber ==
    ASSUME Typed, Numbered, Calls + 1 \in Requests, NEW m \in Used,
           method' = [method EXCEPT ![Calls + 1] = m]
    PROVE  Numbered' /\ Calls' = Calls + 1
<1>1. PICK n \in Nat : n = Calls
  BY DEF Numbered
<1>2. n + 1 \in Requests /\ n \in 0 .. MaxCalls /\ method' = [method EXCEPT ![n + 1] = m]
  BY <1>1 DEF Numbered
<1>3. \A r \in Requests : method'[r] = IF r = n + 1 THEN m ELSE method[r]
  BY <1>2 DEF Typed
<1>4. m # "none"
  <2>1. m \in DOMAIN Methods
    BY DispatchAssumption DEF DispatchAssumption
  <2> QED
    BY <2>1 DEF Methods
<1>5. \A r \in Requests : method'[r] # "none" <=> r <= n + 1
  <2> SUFFICES ASSUME NEW r \in Requests PROVE method'[r] # "none" <=> r <= n + 1
    OBVIOUS
  <2>1. method[r] # "none" <=> r <= n
    BY <1>1 DEF Numbered
  <2>2. r \in Nat /\ (r <= n + 1 <=> r <= n \/ r = n + 1)
    BY Numbers
  <2> QED
    BY <1>3, <1>4, <2>1, <2>2
<1> DEFINE M == {r \in Requests : method[r] # "none"}
<1>6. {r \in Requests : method'[r] # "none"} = 1 .. n + 1
  BY <1>2, <1>5, Numbers
<1>7. Calls' = Cardinality(1 .. n + 1)
  BY <1>6 DEF Calls
<1>8. Cardinality(1 .. n + 1) = n + 1
  BY FS_Interval
<1>9. Calls' = n + 1
  BY <1>7, <1>8
<1>10. n + 1 \in 0 .. MaxCalls
  BY <1>2, Numbers
<1> QED
  BY <1>1, <1>5, <1>9, <1>10 DEF Numbered

\* The application, or a watcher, calls a method.
LEMMA CallStep ==
    ASSUME DispatchInv, NEW m \in Used, Call(m)
    PROVE  DispatchInv'
<1>1. Typed /\ Numbered /\ Stacked /\ Queue /\ Fate /\ Cover /\ Truth /\ Turn /\ Left
  BY DEF DispatchInv
<1>2. PICK r0 \in Nat : r0 = Calls + 1
  BY <1>1 DEF Numbered
<1>3. /\ UserTurn /\ session # "lost" /\ r0 \in Requests
      /\ method' = [method EXCEPT ![r0] = m]
      /\ IF Methods[m].auth THEN auths' = auths \cup {r0} /\ UNCHANGED pending
                            ELSE pending' = Append(pending, r0) /\ UNCHANGED auths
      /\ stack' = Append(stack, Frame("loop", r0, "ZOK"))
      /\ UNCHANGED <<session, ready, watches, callable, results, left>>
  BY <1>2 DEF Call, Queued, caller
<1>4. Numbered' /\ Calls' = r0
  BY <1>1, <1>2, <1>3, NextNumber
<1>5. /\ r0 # 0 /\ ~ r0 <= Calls /\ r0 \in 0 .. MaxCalls
      /\ \A r \in Requests : /\ r <= Calls => r < r0 /\ r # r0 /\ r <= r0
                             /\ r <= r0 /\ r # r0 => r <= Calls
      /\ r0 <= r0 /\ \A r \in Requests : r0 < r => ~ r <= r0
  <2>1. Calls \in Nat
    BY <1>1 DEF Numbered
  <2> QED
    BY <1>2, <1>3, <2>1, Numbers
<1>6. /\ WellQueued(ready) /\ ready \in Seq(Responses)
      /\ pending \in Seq(Requests) /\ Ascending(pending) /\ auths \in SUBSET Requests
      /\ \A r, x : Holds(r, ready) /\ r # 0 /\ Among(x, pending) => r < x
      /\ WellMade(stack) /\ stack \in Seq(Frames)
  BY <1>1 DEF Queue, WellQueued, Stacked, WellMade
<1>7. /\ \A r \in Requests : r # r0 => method'[r] = method[r]
      /\ method'[r0] = m
      /\ method' \in [Requests -> Used \cup {"none"}]
  BY <1>1, <1>3 DEF Typed
<1>8. /\ \A r \in Requests : r # r0 => (Auth(r)' <=> Auth(r))
      /\ Auth(r0)' <=> Methods[m].auth
  BY <1>7 DEF Auth
<1>9. \A r \in Requests : /\ Line(r) => r <= Calls /\ ~Auth(r) /\ r # r0
                          /\ r \in auths => r <= Calls /\ Auth(r) /\ r # r0
                          /\ Holds(r, stack) => r <= Calls /\ r # r0
  BY <1>1, <1>5 DEF Queue, Stacked
<1>10. ~Line(r0) /\ ~Out(r0) /\ ~Holds(r0, stack) /\ ~Failing(r0, stack)
  BY <1>3, <1>6, <1>9, FailingHeld DEF Line, Out, Sent
<1> DEFINE f == Frame("loop", r0, "ZOK")
<1>11. f \in Frames /\ f.fn = "loop" /\ f.req = r0 /\ f.rc = "ZOK"
  <2>1. "loop" \in FrameKinds /\ "ZOK" \in Codes
    BY DEF FrameKinds, Codes
  <2> QED
    BY <1>5, <2>1, FrameParts
<1>12. stack' = Append(stack, f)
  BY <1>3
<1> HIDE DEF f
<1>13. /\ WellMade(stack') /\ stack' # <<>> /\ Last(stack') = f
       /\ \A r : Holds(r, stack') <=> Holds(r, stack) \/ r0 = r
       /\ \A r : Failing(r, stack') => Failing(r, stack)
       /\ \A r, fn : r0 # r /\ Covered(r, stack, fn) => Covered(r, stack', fn)
  <2>1. Sound(f) /\ f.fn \in Methodic
    BY <1>11 DEF Sound, Methodic
  <2>2. stack # <<>> => Last(stack).fn = "watcher"
    BY <1>3 DEF UserTurn, TopIs, Top
  <2>3. stack # <<>> => Follows(Last(stack).fn, f.fn)
    BY <2>1, <2>2 DEF Follows
  <2>4. \A r : Holds(r, stack) /\ r # 0 /\ f.req # 0 => r < f.req
    <3> SUFFICES ASSUME NEW r, Holds(r, stack), r # 0 PROVE r < r0
      BY <1>11
    <3>1. PICK i \in 1 .. Len(stack) : stack[i].req = r
      BY DEF Holds
    <3>2. stack[i] \in Frames
      BY <1>6, ElementOfSeq
    <3>3. r \in Requests
      BY <3>1, <3>2, Numbers DEF Frames
    <3> QED
      BY <1>5, <1>9, <3>3
  <2>5. /\ WellMade(Append(stack, f)) /\ Append(stack, f) # <<>>
        /\ Last(Append(stack, f)) = f
        /\ \A r : Holds(r, Append(stack, f)) <=> Holds(r, stack) \/ f.req = r
        /\ \A r : Failing(r, Append(stack, f))
                     => Failing(r, stack) \/ (stack # <<>> /\ Last(stack).req = r /\ f.fn = "call")
        /\ \A r, fn : f.req # r /\ (Covered(r, stack, fn) \/ f.fn = fn)
                         => Covered(r, Append(stack, f), fn)
    BY <1>6, <1>11, <2>1, <2>3, <2>4, Pushed
  <2> QED
    BY <1>11, <1>12, <2>5
<1>14. /\ pending' \in Seq(Requests) /\ Ascending(pending')
       /\ \A r : Among(r, pending') <=> Among(r, pending) \/ (r = r0 /\ ~Methods[m].auth)
  <2>1. CASE Methods[m].auth
    BY <1>3, <1>6, <2>1
  <2>2. CASE ~Methods[m].auth
    <3>1. \A r : Among(r, pending) => r < r0
      BY <1>5, <1>6, <1>9, HeldType DEF Line
    <3>2. /\ Append(pending, r0) \in Seq(Requests) /\ Ascending(Append(pending, r0))
          /\ \A r : Among(r, Append(pending, r0)) <=> Among(r, pending) \/ r = r0
      BY <1>3, <1>6, <3>1, PendingMore
    <3> QED
      BY <1>3, <2>2, <3>2
  <2> QED
    BY <2>1, <2>2
<1>15. auths' \in SUBSET Requests /\ \A r : r \in auths' <=> r \in auths \/ (r = r0 /\ Methods[m].auth)
  BY <1>3, <1>6
<1>16. \A r \in Requests : /\ r # r0 => /\ Line(r)' <=> Line(r)
                                        /\ Sent(r)' <=> Sent(r)
                                        /\ Out(r)' <=> Out(r)
                           /\ Line(r0)' <=> ~Methods[m].auth
                           /\ Out(r0)'
  BY <1>3, <1>10, <1>14, <1>15 DEF Line, Sent, Out
<1>17. Typed'
  BY <1>1, <1>3, <1>7 DEF Typed
<1>18. Stacked'
  BY <1>4, <1>5, <1>9, <1>13 DEF Stacked
<1>19. Queue'
  <2>1. \A r, x : Holds(r, ready') /\ r # 0 /\ Among(x, pending') => r < x
    <3> SUFFICES ASSUME NEW r, NEW x, Holds(r, ready), r # 0, Among(x, pending') PROVE r < x
      BY <1>3
    <3>1. CASE Among(x, pending)
      BY <1>6, <3>1
    <3>2. CASE x = r0
      <4>1. r \in Requests
        BY <1>6, HeldType
      <4>2. Line(r)
        BY DEF Line
      <4> QED
        BY <1>5, <1>9, <3>2, <4>1, <4>2
    <3> QED
      BY <1>14, <3>1, <3>2
  <2>2. \A r \in Requests : Line(r)' => r <= r0 /\ ~Auth(r)'
    <3> SUFFICES ASSUME NEW r \in Requests, Line(r)' PROVE r <= r0 /\ ~Auth(r)'
      OBVIOUS
    <3>1. CASE r = r0
      BY <1>3, <1>5, <1>8, <1>16, <3>1
    <3>2. CASE r # r0
      BY <1>5, <1>8, <1>9, <1>16, <3>2
    <3> QED
      BY <3>1, <3>2
  <2>3. \A r \in auths' : r <= r0 /\ Auth(r)'
    <3> SUFFICES ASSUME NEW r \in Requests, r \in auths' PROVE r <= r0 /\ Auth(r)'
      BY <1>15
    <3>1. CASE r = r0
      BY <1>5, <1>8, <1>9, <1>15, <3>1
    <3>2. CASE r # r0
      BY <1>5, <1>8, <1>9, <1>15, <3>2
    <3> QED
      BY <3>1, <3>2
  <2>4. \A r, x \in Requests : r < x /\ x <= r0 /\ Line(r)' /\ ~Auth(x)' => Line(x)'
    <3> SUFFICES ASSUME NEW r \in Requests, NEW x \in Requests,
                        r < x, x <= r0, Line(r)', ~Auth(x)'
                 PROVE  Line(x)'
      OBVIOUS
    <3>1. CASE x = r0
      BY <1>3, <1>8, <1>16, <3>1
    <3>2. CASE x # r0
      <4>1. r # r0
        BY <1>5
      <4>2. x <= Calls /\ Line(r) /\ ~Auth(x)
        BY <1>5, <1>8, <1>16, <3>2, <4>1
      <4>3. Line(x)
        BY <1>1, <4>2 DEF Queue
      <4> QED
        BY <1>16, <3>2, <4>3
    <3> QED
      BY <3>1, <3>2
  <2>5. WellQueued(ready')
    BY <1>3, <1>6
  <2> QED
    BY <1>4, <1>14, <1>15, <2>1, <2>2, <2>3, <2>4, <2>5 DEF Queue
<1>20. Fate'
  <2> SUFFICES ASSUME NEW r \in Requests
               PROVE  /\ results[r].running => results[r].error = "ZOK"
                      /\ r <= r0 /\ results[r].running => Out(r)'
                      /\ ~ r <= r0 => results[r].running /\ results[r].retval # "gone"
                      /\ Out(r)' => results[r].running \/ results[r].retval = "gone"
                      /\ Holds(r, stack') => results[r].retval # "gone"
    BY <1>3, <1>4 DEF Fate
  <2>1. /\ results[r].running => results[r].error = "ZOK"
        /\ r <= Calls /\ results[r].running => Out(r)
        /\ ~ r <= Calls => results[r].running /\ results[r].retval # "gone"
        /\ Out(r) => results[r].running \/ results[r].retval = "gone"
        /\ Holds(r, stack) => results[r].retval # "gone"
    BY <1>1 DEF Fate
  <2>2. CASE r = r0
    BY <1>3, <1>5, <1>16, <2>1, <2>2
  <2>3. CASE r # r0
    BY <1>5, <1>13, <1>16, <2>1, <2>3
  <2> QED
    BY <2>2, <2>3
<1>21. Cover'
  <2> SUFFICES ASSUME NEW r \in Requests
               PROVE  /\ Holds(r, ready) => Covered(r, stack', "completions")
                      /\ Sent(r)' /\ Failing(r, stack') => Covered(r, stack', "tail")
                      /\ Sent(r)' /\ Failing(r, stack') => session \in {"closing", "lost"}
    BY <1>3 DEF Cover
  <2>1. /\ Holds(r, ready) => Covered(r, stack, "completions")
        /\ Sent(r) /\ Failing(r, stack) => Covered(r, stack, "tail")
        /\ Sent(r) /\ Failing(r, stack) => TopIs("tail") \/ session \in {"closing", "lost"}
    BY <1>1 DEF Cover
  <2>2. ~TopIs("tail")
    BY <1>3, EmptySeq DEF UserTurn, TopIs
  <2>3. CASE r = r0
    BY <1>10, <1>13, <2>3 DEF Out
  <2>4. CASE r # r0
    BY <1>13, <1>16, <2>1, <2>2, <2>4
  <2> QED
    BY <2>3, <2>4
<1>22. Truth'
  <2> SUFFICES ASSUME NEW r \in Requests
               PROVE  /\ Holds(r, stack') /\ ~results[r].running =>
                             results[r].retval = Good(method'[r], results[r].error)
                      /\ Failing(r, stack') /\ ~results[r].running =>
                             results[r].error \in Failures
                      /\ Failing(r, stack') => Bad(r, ready)
    BY <1>3 DEF Truth
  <2>1. /\ Holds(r, stack) /\ ~results[r].running =>
               results[r].retval = Good(method[r], results[r].error)
        /\ Failing(r, stack) /\ ~results[r].running => results[r].error \in Failures
        /\ Failing(r, stack) => Bad(r, ready)
    BY <1>1 DEF Truth
  <2>2. CASE r = r0
    <3>1. results[r0].running
      BY <1>1, <1>3, <1>5 DEF Fate
    <3> QED
      BY <1>10, <1>13, <2>2, <3>1
  <2>3. CASE r # r0
    BY <1>7, <1>13, <2>1, <2>3
  <2> QED
    BY <2>2, <2>3
<1>23. Turn'
  BY <1>11, <1>13 DEF Turn, TopIs, Top
<1>24. Left'
  <2> SUFFICES ASSUME NEW r \in Requests, Out(r)'
               PROVE  \/ Holds(r, stack')
                      \/ left[r] = "ZNOTHING"
                      \/ left[r] = "ZCONNECTIONLOSS" /\ Auth(r)'
    BY <1>3 DEF Left
  <2>1. CASE r = r0
    BY <1>13, <2>1
  <2>2. CASE r # r0
    BY <1>1, <1>8, <1>13, <1>16, <2>2 DEF Left
  <2> QED
    BY <2>1, <2>2
<1> QED
  BY <1>4, <1>17, <1>18, <1>19, <1>20, <1>21, <1>22, <1>23, <1>24 DEF DispatchInv

\* handle_error() from cleanup_bufs() on: everything outstanding has failed.
LEMMA TailStep ==
    ASSUME DispatchInv, HandleErrorTail
    PROVE  DispatchInv'
<1>1. Typed /\ Numbered /\ Stacked /\ Queue /\ Fate /\ Cover /\ Truth /\ Turn /\ Left
  BY DEF DispatchInv
<1> DEFINE rc == Last(stack).rc
           q == ready \o [i \in 1 .. Len(pending) |-> Reply(pending[i], rc)]
           s == Front(stack)
           d == Inner("completions", "ZOK")
<1>2. /\ stack # <<>> /\ Last(stack).fn = "tail"
      /\ ready' = q /\ pending' = <<>> /\ auths' = {}
      /\ results' = Completed(auths, rc)
      /\ session' = IF session = "lost" THEN "lost" ELSE "down"
      /\ stack' = Append(s, d)
      /\ UNCHANGED <<watches, callable, method, left>>
  BY DEF HandleErrorTail, TopIs, Top, Below, Failed, caller
<1>3. /\ WellQueued(ready) /\ pending \in Seq(Requests) /\ Ascending(pending)
      /\ \A r, x : Holds(r, ready) /\ r # 0 /\ Among(x, pending) => r < x
      /\ auths \in SUBSET Requests /\ \A r \in auths : r <= Calls /\ Auth(r)
      /\ WellMade(stack)
  BY <1>1 DEF Queue, Stacked
<1>4. /\ WellMade(s) /\ Sound(Last(stack))
      /\ s = <<>> => Last(stack).fn \in Methodic
      /\ s # <<>> => Follows(Last(s).fn, Last(stack).fn)
  BY <1>2, <1>3, Popped
<1>5. rc \in Failures /\ rc \in Codes /\ Last(stack).req = 0
  BY <1>2, <1>4 DEF Sound, Methodic, Codes
<1>6. Kept(stack, s, "completions")
  BY <1>2, <1>3, <1>5, Dropped
<1>7. d \in Frames /\ d.fn = "completions" /\ d.req = 0
  <2>1. "completions" \in FrameKinds /\ "ZOK" \in Codes /\ 0 \in 0 .. MaxCalls
    BY Numbers DEF FrameKinds, Codes
  <2> QED
    BY <2>1, FrameParts DEF Inner
<1> HIDE DEF rc, s, d
<1>8. /\ WellQueued(q)
      /\ \A r : Holds(r, q) <=> Holds(r, ready) \/ Among(r, pending)
      /\ \A r : Bad(r, ready) => Bad(r, q)
  BY <1>3, <1>5, AllFailed
<1> HIDE DEF q
<1>9. s # <<>> /\ Sound(d) /\ Follows(Last(s).fn, d.fn)
  BY <1>2, <1>4, <1>7 DEF Methodic, Follows, Sound
<1>10. /\ WellMade(Append(s, d)) /\ Append(s, d) # <<>> /\ Last(Append(s, d)) = d
       /\ \A r \in Requests :
              /\ Holds(r, Append(s, d)) <=> Holds(r, s)
              /\ Failing(r, Append(s, d)) => Failing(r, s) \/ (Last(s).req = r /\ d.fn = "call")
              /\ \A fn : Covered(r, s, fn) \/ d.fn = fn => Covered(r, Append(s, d), fn)
  BY <1>4, <1>7, <1>9, Above
<1>11. /\ WellMade(stack') /\ stack' # <<>> /\ Last(stack').fn = "completions"
       /\ \A r \in Requests : /\ Holds(r, stack') <=> Holds(r, stack)
                              /\ Failing(r, stack') => Failing(r, stack)
                              /\ Covered(r, stack', "completions")
  BY <1>2, <1>6, <1>7, <1>10 DEF Kept
<1>12. Calls' = Calls
  BY <1>2 DEF Calls
<1>13. \A r \in Requests : /\ Line(r)' <=> Line(r)
                           /\ ~Sent(r)'
                           /\ Out(r)' <=> Out(r) /\ r \notin auths
                           /\ Auth(r)' <=> Auth(r)
  <2>1. \A r \in Requests : r \in auths => ~Line(r)
    BY <1>1 DEF Queue
  <2> QED
    BY <1>2, <1>8, <2>1, NothingHeld DEF Line, Sent, Out, Auth
<1>14. /\ results' \in [Requests -> QueryResults]
       /\ Fate'
       /\ \A r \in Requests :
              /\ Holds(r, stack) /\ ~results'[r].running =>
                     results'[r].retval = Good(method[r], results'[r].error)
              /\ r \notin auths => results'[r] = results[r]
              /\ r \in auths => ~results'[r].running
              /\ r \in auths /\ Holds(r, stack) => results'[r].error = rc
  BY <1>1, <1>2, <1>3, <1>5, <1>11, <1>13, Answering DEF DispatchInv
<1>15. Typed'
  <2>1. session' \in Sessions
    BY <1>2 DEF Sessions
  <2> QED
    BY <1>1, <1>2, <1>14, <2>1 DEF Typed
<1>16. Numbered'
  BY <1>1, <1>2, <1>12 DEF Numbered
<1>17. Stacked'
  BY <1>1, <1>11, <1>12 DEF Stacked
<1>18. Queue'
  <2>1. /\ <<>> \in Seq(Requests) /\ Ascending(<<>>)
    <3>1. Len(<<>>) = 0
      OBVIOUS
    <3> QED
      BY <3>1 DEF Ascending
  <2>2. \A r, x : Holds(r, ready') /\ r # 0 /\ Among(x, pending') => r < x
    BY <1>2, NothingHeld
  <2>3. \A r \in Requests : Line(r)' => r <= Calls /\ ~Auth(r)'
    BY <1>1, <1>13 DEF Queue
  <2>4. \A r, x \in Requests : r < x /\ x <= Calls /\ Line(r)' /\ ~Auth(x)' => Line(x)'
    BY <1>1, <1>13 DEF Queue
  <2> QED
    BY <1>2, <1>8, <1>12, <2>1, <2>2, <2>3, <2>4 DEF Queue
<1>19. Cover'
  BY <1>11, <1>13 DEF Cover
<1>20. Truth'
  <2> SUFFICES ASSUME NEW r \in Requests
               PROVE  /\ Holds(r, stack) /\ ~results'[r].running =>
                             results'[r].retval = Good(method[r], results'[r].error)
                      /\ Failing(r, stack) /\ ~results'[r].running =>
                             results'[r].error \in Failures
                      /\ Failing(r, stack) => Bad(r, ready')
    BY <1>2, <1>11 DEF Truth
  <2>1. /\ Failing(r, stack) /\ ~results[r].running => results[r].error \in Failures
        /\ Failing(r, stack) => Bad(r, ready)
    BY <1>1 DEF Truth
  <2>2. Failing(r, stack) => Holds(r, stack)
    BY <1>3, FailingHeld DEF WellMade
  <2>3. Failing(r, stack) => Bad(r, ready')
    BY <1>2, <1>8, <2>1
  <2>4. CASE r \in auths
    BY <1>5, <1>14, <2>2, <2>3, <2>4
  <2>5. CASE r \notin auths
    BY <1>14, <2>1, <2>3, <2>5
  <2> QED
    BY <2>4, <2>5
<1>21. Turn'
  BY <1>11 DEF Turn, TopIs, Top
<1>22. Left'
  BY <1>1, <1>2, <1>11, <1>13 DEF Left
<1> QED
  BY <1>14, <1>15, <1>16, <1>17, <1>18, <1>19, <1>20, <1>21, <1>22 DEF DispatchInv

\* handle_error() up to the session watchers.
LEMMA ErrorRaised ==
    ASSUME DispatchInv, TopIs("loop") \/ TopIs("poll"), NEW rc \in Failures, NEW lost \in BOOLEAN,
           HandleError(rc, lost)
    PROVE  /\ WellMade(stack') /\ stack' # <<>>
           /\ Last(stack').fn \in {"tail", "completions"}
           /\ Last(stack').fn = "tail" \/ session' \in {"closing", "lost"}
           /\ session' \in Sessions
           /\ WellQueued(ready')
           /\ \A r : r # 0 => (Holds(r, ready') <=> Holds(r, ready))
           /\ \A r \in Requests :
                  /\ Holds(r, ready') <=> Holds(r, ready)
                  /\ Bad(r, ready) => Bad(r, ready')
                  /\ Holds(r, stack') <=> Holds(r, stack)
                  /\ Failing(r, stack') => Failing(r, stack) \/ Top.req = r
                  /\ Covered(r, stack, "completions") => Covered(r, stack', "completions")
                  /\ Covered(r, stack', "tail")
<1>1. /\ WellMade(stack) /\ stack # <<>> /\ Last(stack).fn \in {"loop", "poll"}
      /\ WellQueued(ready) /\ session \in Sessions
  BY DEF DispatchInv, Stacked, Queue, Typed, TopIs, Top
<1>2. Append(Append(Goto("loop"), Inner("call", rc)), Inner("tail", rc)) = Raised(stack, rc)
  BY DEF Goto, Raised, Below, Top
<1>3. \A r \in Requests : r # 0
  BY Numbers
<1>4. CASE lost \/ session \in {"established", "closing"}
  <2>1. /\ session' = IF lost THEN "lost" ELSE "closing"
        /\ ready' = Append(ready, Event("session"))
        /\ stack' = Watched(stack, rc)
    BY <1>2, <1>4 DEF HandleError, Watched
  <2>2. /\ WellMade(stack') /\ stack' # <<>> /\ Last(stack').fn \in {"tail", "completions"}
        /\ \A r \in Requests :
               /\ Holds(r, stack') <=> Holds(r, stack)
               /\ Failing(r, stack') => Failing(r, stack) \/ Last(stack).req = r
               /\ Covered(r, stack, "completions") => Covered(r, stack', "completions")
               /\ Covered(r, stack', "tail")
    BY <1>1, <2>1, RaisedFacts
  <2> DEFINE x == Event("session")
  <2>3. x \in Responses /\ Genuine(x) /\ x.req = 0
    BY EventFacts
  <2> HIDE DEF x
  <2>4. /\ WellQueued(Append(ready, x))
        /\ \A r : Holds(r, Append(ready, x)) <=> Holds(r, ready) \/ x.req = r
        /\ \A r : Bad(r, ready) /\ (x.req = r => x.rc \in Failures) => Bad(r, Append(ready, x))
    BY <1>1, <2>3, ReadyMore
  <2>5. ready' = Append(ready, x)
    BY <2>1 DEF x
  <2>6. session' \in {"closing", "lost"} /\ session' \in Sessions
    BY <2>1 DEF Sessions
  <2> QED
    BY <1>3, <2>2, <2>3, <2>4, <2>5, <2>6 DEF Top
<1>5. CASE ~(lost \/ session \in {"established", "closing"})
  <2>1. UNCHANGED <<session, ready>> /\ stack' = Raised(stack, rc)
    BY <1>2, <1>5 DEF HandleError
  <2>2. /\ WellMade(stack') /\ stack' # <<>> /\ Last(stack').fn = "tail"
        /\ \A r \in Requests :
               /\ Holds(r, stack') <=> Holds(r, stack)
               /\ Failing(r, stack') => Failing(r, stack) \/ Last(stack).req = r
               /\ Covered(r, stack, "completions") => Covered(r, stack', "completions")
               /\ Covered(r, stack', "tail")
    BY <1>1, <2>1, RaisedFacts
  <2> QED
    BY <1>1, <2>1, <2>2 DEF Top
<1> QED
  BY <1>4, <1>5

\* A call that has hit an error, with the credentials S answered on the way.
LEMMA ErrorStep ==
    ASSUME DispatchInv, TopIs("loop") \/ TopIs("poll"), NEW rc \in Failures, NEW lost \in BOOLEAN,
           HandleError(rc, lost), NEW S \in {{}, auths},
           results' = Completed(S, rc), auths' = auths \ S,
           UNCHANGED <<pending, watches, callable, method, left>>,
           Top.req # 0 => results[Top.req].running
    PROVE  DispatchInv'
<1>1. Typed /\ Numbered /\ Stacked /\ Queue /\ Fate /\ Cover /\ Truth /\ Turn /\ Left
  BY DEF DispatchInv
<1>2. /\ WellMade(stack') /\ stack' # <<>>
      /\ Last(stack').fn \in {"tail", "completions"}
      /\ Last(stack').fn = "tail" \/ session' \in {"closing", "lost"}
      /\ session' \in Sessions
      /\ WellQueued(ready')
      /\ \A r : r # 0 => (Holds(r, ready') <=> Holds(r, ready))
      /\ \A r \in Requests :
             /\ Holds(r, ready') <=> Holds(r, ready)
             /\ Bad(r, ready) => Bad(r, ready')
             /\ Holds(r, stack') <=> Holds(r, stack)
             /\ Failing(r, stack') => Failing(r, stack) \/ Top.req = r
             /\ Covered(r, stack, "completions") => Covered(r, stack', "completions")
             /\ Covered(r, stack', "tail")
  BY ErrorRaised
<1>3. /\ auths \in SUBSET Requests /\ S \in SUBSET Requests
      /\ \A r \in S : r <= Calls /\ Auth(r) /\ r \in auths
      /\ \A r, x : Holds(r, ready) /\ r # 0 /\ Among(x, pending) => r < x
      /\ pending \in Seq(Requests) /\ Ascending(pending)
      /\ rc \in Codes
  BY <1>1 DEF Queue, Codes
<1>4. Calls' = Calls
  BY DEF Calls
<1>5. \A r \in Requests : /\ Line(r)' <=> Line(r)
                          /\ Sent(r)' => Sent(r)
                          /\ Out(r)' <=> Out(r) /\ r \notin S
                          /\ Auth(r)' <=> Auth(r)
  <2>1. \A r \in Requests : r \in S => ~Line(r) /\ r \in auths
    BY <1>1, <1>3 DEF Queue
  <2> QED
    BY <1>2, <2>1 DEF Line, Sent, Out, Auth
<1>6. /\ results' \in [Requests -> QueryResults]
      /\ Fate'
      /\ \A r \in Requests :
             /\ Holds(r, stack) /\ ~results'[r].running =>
                    results'[r].retval = Good(method[r], results'[r].error)
             /\ r \notin S => results'[r] = results[r]
             /\ r \in S => ~results'[r].running
             /\ r \in S /\ Holds(r, stack) => results'[r].error = rc
  BY <1>2, <1>3, <1>5, Answering
<1>7. Typed'
  BY <1>1, <1>2, <1>6 DEF Typed
<1>8. Numbered'
  BY <1>1, <1>4 DEF Numbered
<1>9. Stacked'
  BY <1>1, <1>2, <1>4 DEF Stacked
<1>10. Queue'
  <2>1. \A r, x : Holds(r, ready') /\ r # 0 /\ Among(x, pending') => r < x
    BY <1>2, <1>3
  <2>2. \A r \in Requests : Line(r)' => r <= Calls /\ ~Auth(r)'
    BY <1>1, <1>5 DEF Queue
  <2>3. \A r, x \in Requests : r < x /\ x <= Calls /\ Line(r)' /\ ~Auth(x)' => Line(x)'
    BY <1>1, <1>5 DEF Queue
  <2>4. \A r \in auths' : r <= Calls /\ Auth(r)'
    BY <1>1, <1>3, <1>5 DEF Queue
  <2>5. auths' \in SUBSET Requests /\ pending' = pending
    BY <1>3
  <2> QED
    BY <1>2, <1>3, <1>4, <2>1, <2>2, <2>3, <2>4, <2>5 DEF Queue
<1>11. Cover'
  <2>1. TopIs("tail")' \/ session' \in {"closing", "lost"}
    BY <1>2 DEF TopIs, Top
  <2> QED
    BY <1>1, <1>2, <1>5, <2>1 DEF Cover
<1>12. Truth'
  <2> SUFFICES ASSUME NEW r \in Requests
               PROVE  /\ Holds(r, stack) /\ ~results'[r].running =>
                             results'[r].retval = Good(method[r], results'[r].error)
                      /\ Failing(r, stack') /\ ~results'[r].running =>
                             results'[r].error \in Failures
                      /\ Failing(r, stack') => Bad(r, ready')
    BY <1>2 DEF Truth
  <2>1. /\ Failing(r, stack) /\ ~results[r].running => results[r].error \in Failures
        /\ Failing(r, stack) => Bad(r, ready)
    BY <1>1 DEF Truth
  <2>2. Failing(r, stack') => Holds(r, stack)
    BY <1>2, FailingHeld DEF WellMade
  <2>3. CASE Failing(r, stack)
    <3>1. Bad(r, ready')
      BY <1>2, <2>1, <2>3
    <3>2. CASE r \in S
      BY <1>6, <2>2, <3>1, <3>2
    <3>3. CASE r \notin S
      BY <1>6, <2>1, <2>3, <3>1, <3>3
    <3> QED
      BY <3>2, <3>3
  <2>4. CASE ~Failing(r, stack) /\ Failing(r, stack')
    <3>1. Top.req = r /\ r # 0
      BY <1>2, <2>4, Numbers
    <3>2. ~Holds(r, ready) /\ results[r].running
      BY <3>1, TopUncovered
    <3>3. Bad(r, ready')
      <4>1. Bad(r, ready)
        BY <3>2 DEF Holds, Bad
      <4> QED
        BY <1>2, <4>1
    <3>4. CASE r \in S
      BY <1>6, <2>2, <3>3, <3>4
    <3>5. CASE r \notin S
      BY <1>6, <3>2, <3>3, <3>5
    <3> QED
      BY <3>4, <3>5
  <2>5. CASE ~Failing(r, stack')
    BY <1>6, <2>5
  <2> QED
    BY <2>3, <2>4, <2>5
<1>13. Turn'
  BY <1>2 DEF Turn, TopIs, Top
<1>14. Left'
  BY <1>1, <1>2, <1>5 DEF Left
<1> QED
  BY <1>6, <1>7, <1>8, <1>9, <1>10, <1>11, <1>12, <1>13, <1>14 DEF DispatchInv

\* An error while sending or receiving.
LEMMA ErrorSteps ==
    ASSUME DispatchInv, InterestFails \/ ProcessFails
    PROVE  DispatchInv'
<1>1. PICK rc \in Failures, lost \in BOOLEAN : HandleError(rc, lost)
  BY DEF InterestFails, ProcessFails, Failures
<1>2. /\ TopIs("loop") \/ TopIs("poll")
      /\ Running \/ TopIs("poll")
      /\ UNCHANGED <<pending, auths, watches, callable, method, results, left>>
  BY DEF InterestFails, ProcessFails, memory, caller
<1>3. Top.req # 0 => results[Top.req].running
  BY <1>2 DEF Running, DispatchInv, Turn
<1>4. results' = Completed({}, rc)
  BY <1>2 DEF Completed, DispatchInv, Typed
<1>5. {} \in {{}, auths} /\ auths' = auths \ {}
  BY <1>2
<1> QED
  BY <1>1, <1>2, <1>3, <1>4, <1>5, ErrorStep

\* The answer to the credentials.
LEMMA AuthStep ==
    ASSUME DispatchInv, ProcessAuth
    PROVE  DispatchInv'
<1>1. Typed /\ Numbered /\ Stacked /\ Queue /\ Fate /\ Cover /\ Truth /\ Turn /\ Left
  BY DEF DispatchInv
<1>2. /\ TopIs("poll") /\ session = "established" /\ auths' = {}
      /\ UNCHANGED <<pending, watches, callable, method, left>>
      /\ \/ /\ results' = Completed(auths, "ZOK")
            /\ stack' = Goto("loop")
            /\ UNCHANGED <<session, ready>>
         \/ /\ results' = Completed(auths, "ZAUTHFAILED")
            /\ HandleError("ZAUTHFAILED", TRUE)
  BY DEF ProcessAuth, caller
<1>3. CASE results' = Completed(auths, "ZAUTHFAILED") /\ HandleError("ZAUTHFAILED", TRUE)
  <2>1. "ZAUTHFAILED" \in Failures /\ auths \in {{}, auths} /\ auths' = auths \ auths
    BY <1>2 DEF Failures
  <2>2. Top.req # 0 => results[Top.req].running
    BY <1>1, <1>2 DEF Turn
  <2> QED
    BY <1>2, <1>3, <2>1, <2>2, ErrorStep
<1>4. CASE /\ results' = Completed(auths, "ZOK")
           /\ stack' = Goto("loop")
           /\ UNCHANGED <<session, ready>>
  <2>1. "loop" \in Methodic /\ "ZOK" \in Codes
    BY DEF Methodic, Codes
  <2>2. /\ WellMade(stack') /\ stack' # <<>> /\ Last(stack').fn = "loop"
        /\ Kept(stack, stack', "completions") /\ Kept(stack, stack', "tail")
        /\ ~TopIs("tail")
    BY <1>2, <1>4, <2>1, GoesOn DEF Goto
  <2>3. \A r \in Requests : /\ Holds(r, stack') <=> Holds(r, stack)
                            /\ Failing(r, stack') => Failing(r, stack)
                            /\ Covered(r, stack, "completions") => Covered(r, stack', "completions")
                            /\ Covered(r, stack, "tail") => Covered(r, stack', "tail")
    BY <2>2 DEF Kept
  <2>4. \A r \in Requests : ~(Sent(r) /\ Failing(r, stack))
    BY <1>1, <1>2, <2>2 DEF Cover
  <2>5. Calls' = Calls
    BY <1>2 DEF Calls
  <2>6. \A r \in Requests : /\ Line(r)' <=> Line(r)
                            /\ Sent(r)' => Sent(r)
                            /\ Out(r)' <=> Out(r) /\ r \notin auths
                            /\ Auth(r)' <=> Auth(r)
    <3>1. \A r \in Requests : r \in auths => ~Line(r)
      BY <1>1 DEF Queue
    <3> QED
      BY <1>2, <1>4, <3>1 DEF Line, Sent, Out, Auth
  <2>7. \A r \in auths : r \in Requests => r <= Calls
    BY <1>1 DEF Queue
  <2>8. /\ results' \in [Requests -> QueryResults]
        /\ Fate'
        /\ \A r \in Requests :
               /\ Holds(r, stack) /\ ~results'[r].running =>
                      results'[r].retval = Good(method[r], results'[r].error)
               /\ r \notin auths => results'[r] = results[r]
    BY <1>2, <1>4, <2>1, <2>3, <2>6, <2>7, Answering
  <2>9. Typed'
    BY <1>1, <1>2, <1>4, <2>8 DEF Typed
  <2>10. Numbered'
    BY <1>1, <1>2, <2>5 DEF Numbered
  <2>11. Stacked'
    BY <1>1, <2>2, <2>3, <2>5 DEF Stacked
  <2>12. Queue'
    <3>1. \A r \in Requests : Line(r)' => r <= Calls /\ ~Auth(r)'
      BY <1>1, <2>6 DEF Queue
    <3>2. \A r, x \in Requests : r < x /\ x <= Calls /\ Line(r)' /\ ~Auth(x)' => Line(x)'
      BY <1>1, <2>6 DEF Queue
    <3>3. /\ WellQueued(ready') /\ pending' \in Seq(Requests) /\ Ascending(pending')
          /\ \A r, x : Holds(r, ready') /\ r # 0 /\ Among(x, pending') => r < x
      BY <1>1, <1>2, <1>4 DEF Queue
    <3> QED
      BY <1>2, <2>5, <3>1, <3>2, <3>3 DEF Queue
  <2>13. Cover'
    <3>1. \A r \in Requests : Holds(r, ready') <=> Holds(r, ready)
      BY <1>4
    <3> QED
      BY <1>1, <1>2, <1>4, <2>3, <2>4, <2>6, <3>1 DEF Cover
  <2>14. Truth'
    <3> SUFFICES ASSUME NEW r \in Requests
                 PROVE  /\ Holds(r, stack) /\ ~results'[r].running =>
                               results'[r].retval = Good(method[r], results'[r].error)
                        /\ Failing(r, stack) /\ ~results'[r].running =>
                               results'[r].error \in Failures
                        /\ Failing(r, stack) => Bad(r, ready)
      BY <1>2, <1>4, <2>3 DEF Truth
    <3>1. /\ Failing(r, stack) /\ ~results[r].running => results[r].error \in Failures
          /\ Failing(r, stack) => Bad(r, ready)
      BY <1>1 DEF Truth
    <3>2. Failing(r, stack) => r \notin auths
      BY <2>4 DEF Sent
    <3> QED
      BY <2>8, <3>1, <3>2
  <2>15. Turn'
    BY <2>2 DEF Turn, TopIs, Top
  <2>16. Left'
    BY <1>1, <1>2, <2>3, <2>6 DEF Left
  <2> QED
    BY <2>8, <2>9, <2>10, <2>11, <2>12, <2>13, <2>14, <2>15, <2>16 DEF DispatchInv
<1> QED
  BY <1>2, <1>3, <1>4

-----------------------------------------------------------------------------
(* Theorems                                                                *)

\* No step of the application, the loop, the client or the server breaks the invariant.
LEMMA DispatchStep == DispatchInv /\ [Next]_vars => DispatchInv'
<1> SUFFICES ASSUME DispatchInv, [Next]_vars PROVE DispatchInv'
  OBVIOUS
<1>1. CASE \E m \in Used : Call(m)
  BY <1>1, CallStep
<1>2. CASE wait \/ setWatcher \/ WaitReturns \/ DispatchDone \/ ProcessNothing \/ InterestOK
           \/ CompletionsDone \/ WatcherReturns
  BY <1>2, QuietSteps
<1>3. CASE InterestRefused \/ InterestPingFails \/ ProcessPartial \/ CallReturns
  BY <1>3, FailSteps
<1>4. CASE ProcessEstablished \/ ProcessReply \/ ProcessEvent
  BY <1>4, DeliverySteps
<1>5. CASE InterestFails \/ ProcessFails
  BY <1>5, ErrorSteps
<1>6. CASE MethodReturns \/ ProcessAuth \/ HandleErrorTail \/ RunCompletion \/ watch_func
  BY <1>6, ReturnStep, AuthStep, TailStep, RunStep, WatchStep
<1>7. CASE UNCHANGED vars \/ RefusedReturns \/ \E m \in Used : Refused(m)
  <2>1. UNCHANGED <<session, pending, auths, ready, watches, callable, method, results, left, stack>>
    BY <1>7 DEF vars, handle, caller, memory, Refused, RefusedReturns
  <2>2. WellMade(stack) /\ session \in Sessions /\ callable \in BOOLEAN /\ Turn
    BY DEF DispatchInv, Stacked, Typed
  <2>3. Kept(stack, stack', "tail")
    BY <2>1 DEF Kept
  <2>4. Turn' /\ (TopIs("tail") => TopIs("tail")')
    BY <2>1, <2>2 DEF Turn, TopIs, Top, Out, Sent, Auth
  <2> QED
    BY <2>1, <2>2, <2>3, <2>4, Quiet
<1> QED
  BY <1>1, <1>2, <1>3, <1>4, <1>5, <1>6, <1>7 DEF Next, Interest, Process, Unwind

\* The invariant always holds.
LEMMA DispatchAlways == Spec => []DispatchInv
<1> QED
  BY DispatchInit, DispatchStep, PTL DEF Spec

\* A refused call: its method, its code, and what errCode says of it.
RefusalInv ==
    /\ refusal \in [method : Used \cup {"none"}, rc : Codes, errCode : Codes]
    /\ refusal.method \notin {"watch", "watchChildren"} => refusal.errCode = refusal.rc

\* No refused call is under way.
LEMMA NothingRefused == NoRefusal \in [method : Used \cup {"none"}, rc : Codes, errCode : Codes]
                        /\ NoRefusal.errCode = NoRefusal.rc
BY DEF NoRefusal, Refusal, Codes

\* Calls are only refused by Refused(), one at a time.
LEMMA RefusalStep == RefusalInv /\ [Next]_vars => RefusalInv'
<1> SUFFICES ASSUME RefusalInv, [Next]_vars PROVE RefusalInv'
  OBVIOUS
<1>1. CASE UNCHANGED refusal
  BY <1>1 DEF RefusalInv
<1>2. CASE RefusedReturns
  BY <1>2, NothingRefused DEF RefusedReturns, RefusalInv
<1>3. ASSUME NEW m \in Used, Refused(m) PROVE RefusalInv'
  <2>1. PICK rc \in Codes : refusal' = Refusal(m, rc, IF Methods[m].tells THEN rc ELSE "ZOK")
    BY <1>3 DEF Refused, Refusals
  <2>2. m \notin {"watch", "watchChildren"} => Methods[m].tells
    <3>1. m \in DOMAIN Methods
      BY DispatchAssumption DEF DispatchAssumption
    <3>2. /\ get.tells /\ getAcl.tells /\ exists.tells /\ create.tells /\ set.tells
          /\ delete.tells /\ getChildren.tells /\ setAcl.tells
      BY DEF Own, get, getAcl, exists, create, set, delete, getChildren, setAcl
    <3>3. addAuth.tells
      BY DEF Own, addAuth
    <3> QED
      BY <3>1, <3>2, <3>3 DEF Methods
  <2>3. "ZOK" \in Codes
    BY DEF Codes
  <2> QED
    BY <2>1, <2>2, <2>3 DEF RefusalInv, Refusal
<1>4. CASE Interest
  BY <1>1, <1>4 DEF Interest, InterestOK, InterestRefused, InterestPingFails, InterestFails,
                    LoopFails, caller
<1>5. CASE Process
  BY <1>1, <1>5 DEF Process, ProcessNothing, ProcessPartial, ProcessEstablished, ProcessReply,
                    ProcessEvent, ProcessAuth, ProcessFails, LoopFails, caller
<1>6. CASE Unwind
  BY <1>1, <1>6 DEF Unwind, HandleErrorTail, CallReturns, RunCompletion, watch_func,
                    CompletionsDone, WatcherReturns, LoopFails, caller
<1>7. CASE \/ \E m \in Used : Call(m)
           \/ wait \/ setWatcher \/ WaitReturns \/ DispatchDone \/ MethodReturns
  BY <1>1, <1>7 DEF Call, wait, setWatcher, WaitReturns, DispatchDone, MethodReturns, caller
<1>8. CASE UNCHANGED vars
  BY <1>1, <1>8 DEF vars, caller
<1> QED
  BY <1>2, <1>3, <1>4, <1>5, <1>6, <1>7, <1>8 DEF Next

\* Nothing is refused at first.
LEMMA RefusalAlways == Spec => []RefusalInv
<1>1. Init => RefusalInv
  BY NothingRefused DEF Init, RefusalInv
<1> QED
  BY <1>1, RefusalStep, PTL DEF Spec

\* The invariant has the types of the variables in it.
LEMMA SaysTypeOK == DispatchInv /\ RefusalInv => TypeOK
<1> SUFFICES ASSUME DispatchInv, RefusalInv PROVE TypeOK
  OBVIOUS
<1>1. Typed /\ stack \in Seq(Frames) /\ ready \in Seq(Responses)
      /\ pending \in Seq(Requests) /\ auths \subseteq Requests
  BY DEF DispatchInv, Stacked, Queue, WellMade, WellQueued
<1> QED
  BY <1>1 DEF TypeOK, Typed, Frames, Responses, QueryResults, RefusalInv

\* What is still out when its method has returned was left behind on one of two errors.
LEMMA SaysAlive == DispatchInv => ResultsAlive
<1> SUFFICES ASSUME DispatchInv, NEW r \in Owed
             PROVE  \/ OnStack(r)
                    \/ left[r] = "ZNOTHING"
                    \/ left[r] = "ZCONNECTIONLOSS" /\ Methods[method[r]].auth
  BY DEF ResultsAlive
<1>1. Queue /\ Left /\ Stacked
  BY DEF DispatchInv
<1>2. /\ pending \in Seq(Requests) /\ ready \in Seq(Responses) /\ auths \in SUBSET Requests
      /\ stack \in Seq(Frames) /\ Shaped(stack)
  BY <1>1 DEF Queue, WellQueued, Stacked, WellMade
<1>3. r # 0 /\ (Among(r, pending) \/ r \in auths \/ Holds(r, ready))
  <2>1. r \in Range(pending) => Among(r, pending)
    <3>1. DOMAIN pending = 1 .. Len(pending)
      BY <1>2, LenProperties
    <3> QED
      BY <3>1 DEF Range, Among
  <2>2. r \in {ready[i].req : i \in 1 .. Len(ready)} => Holds(r, ready)
    BY DEF Holds
  <2> QED
    BY <2>1, <2>2 DEF Owed
<1>4. r \in Requests /\ Out(r)
  BY <1>2, <1>3, HeldType DEF Out, Sent
<1>5. CASE Holds(r, stack)
  <2>1. PICK i \in 1 .. Len(stack) : stack[i].req = r
    BY <1>5 DEF Holds
  <2>2. Sound(stack[i])
    BY <1>2, <2>1 DEF Shaped
  <2>3. stack[i].fn \in {"loop", "poll", "return"}
    BY <1>3, <2>1, <2>2 DEF Sound, Methodic
  <2> QED
    BY <2>1, <2>3 DEF OnStack
<1> QED
  BY <1>1, <1>4, <1>5 DEF Left, Auth

\* A method that answers with its own result answers what its completion has stored.
LEMMA SaysHonest == DispatchInv => HonestAnswer
<1> SUFFICES ASSUME DispatchInv, TopIs("return"), ~results[Top.req].running
             PROVE  results[Top.req].retval = Value(Top.req, results[Top.req].error)
  BY DEF HonestAnswer, Answer
<1>1. WellMade(stack) /\ stack # <<>> /\ Top = Last(stack) /\ Top.fn = "return" /\ Truth
  BY DEF DispatchInv, Stacked, TopIs, Top
<1>2. Top \in Frames /\ Sound(Top) /\ Holds(Top.req, stack)
  BY <1>1, Popped
<1>3. Top.req \in Requests
  BY <1>1, <1>2, Numbers DEF Sound, Frames
<1> QED
  BY <1>1, <1>2, <1>3 DEF Truth, Value, Good

\* A method that has failed says why; so does one that is refused, but for two.
LEMMA SaysTold == DispatchInv /\ RefusalInv => FailureTold
<1> SUFFICES ASSUME DispatchInv, TopIs("return"), results[Top.req].retval = "false"
             PROVE  /\ Top.rc # "ZOK"
                    /\ results[Top.req].error \notin Failures \cup {"ZOK"}
                           => Top.rc = results[Top.req].error
  BY DEF FailureTold, RefusalInv
<1>1. stack # <<>> /\ Top.fn = "return" /\ Turn
  BY DEF DispatchInv, TopIs, Top
<1> QED
  BY <1>1 DEF Turn

\* Of two methods on the stack the outer one was called first, and is answered first.
LEMMA SaysOuter == DispatchInv => OuterFirst
<1> SUFFICES ASSUME DispatchInv, NEW i \in 1 .. Len(stack), NEW j \in 1 .. Len(stack), i < j,
                    stack[i].req # 0, stack[j].req # 0,
                    ~Methods[method[stack[i].req]].auth, ~Methods[method[stack[j].req]].auth,
                    ~results[stack[j].req].running
             PROVE  ~results[stack[i].req].running
  BY DEF OuterFirst
<1>1. Queue /\ Fate /\ Stacked
  BY DEF DispatchInv
<1>2. stack \in Seq(Frames) /\ Rising(stack)
  BY <1>1 DEF Stacked, WellMade
<1> DEFINE r == stack[i].req
           x == stack[j].req
<1>3. r \in Requests /\ x \in Requests /\ r < x /\ Holds(r, stack) /\ Holds(x, stack)
  <2>1. stack[i] \in Frames /\ stack[j] \in Frames
    BY <1>2, ElementOfSeq
  <2> QED
    BY <1>2, <2>1, Numbers DEF Rising, Holds, Frames
<1>4. ~Auth(r) /\ ~Auth(x) /\ ~results[x].running
  BY DEF Auth
<1> HIDE DEF r, x
<1>5. r <= Calls /\ x <= Calls /\ results[x].retval # "gone"
  BY <1>1, <1>3 DEF Stacked, Fate
<1>6. ASSUME results[r].running PROVE FALSE
  <2>1. Out(r)
    BY <1>1, <1>3, <1>5, <1>6 DEF Fate
  <2>2. Line(r)
    BY <1>1, <1>4, <2>1 DEF Queue, Out, Sent, Line
  <2>3. Line(x)
    BY <1>1, <1>3, <1>4, <1>5, <2>2 DEF Queue
  <2>4. Out(x)
    BY <2>3 DEF Line, Out, Sent
  <2> QED
    BY <1>1, <1>3, <1>4, <1>5, <2>4 DEF Fate
<1> QED
  BY <1>6 DEF r

\* The variables of the dispatch loop keep their types (api.cc:73 and the methods that call it).
THEOREM TypeCorrect == Spec => []TypeOK
<1> QED
  BY DispatchAlways, RefusalAlways, SaysTypeOK, PTL

\* A completion that is still to run writes to a QueryResult that exists, unless its method
\* was left on ZNOTHING or is an addAuth() left by a failed ping (api.cc:80, :108).
THEOREM Alive == Spec => []ResultsAlive
<1> QED
  BY DispatchAlways, SaysAlive, PTL

\* The nine methods that return result.retval answer with what their own completion has
\* stored, once it has run (api.cc:80, :363).
THEOREM Honest == Spec => []HonestAnswer
<1> QED
  BY DispatchAlways, SaysHonest, PTL

\* A request that was accepted and failed has set errCode, whatever its method answers; one
\* that was refused has, but for watch(), watchChildren() and the arguments that setAcl()
\* rejects itself (api.cc:80, :113, :614, :669, :686).
THEOREM Told == Spec => []FailureTold
<1> QED
  BY DispatchAlways, RefusalAlways, SaysTold, PTL

\* A method whose request was made inside another one is not answered before it (api.cc:73).
THEOREM InnerLast == Spec => []OuterFirst
<1> QED
  BY DispatchAlways, SaysOuter, PTL
=============================================================================
