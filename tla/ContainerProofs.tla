---------------------------- MODULE ContainerProofs ----------------------------
(* The container for all services, recipes and goroutines, and registrations  *)
(* without bound.                                                             *)
EXTENDS Container, SequenceTheorems, WellFoundedInduction, TLAPS

-----------------------------------------------------------------------------
(* Stacks. *)

\* A sequence whose first element is replaced.
LEMMA Retopped ==
  ASSUME NEW S, NEW s \in Seq(S), s # <<>>, NEW f \in S, NEW t, t = <<f>> \o Tail(s)
  PROVE  /\ t \in Seq(S) /\ Len(t) = Len(s) /\ t # <<>> /\ t[1] = f
         /\ \A i \in 2..Len(s) : t[i] = s[i]
  <1>1. Tail(s) \in Seq(S) /\ Len(Tail(s)) = Len(s) - 1 /\ Len(s) \in Nat \ {0}
        /\ \A i \in 1..Len(Tail(s)) : Tail(s)[i] = s[i + 1]
    BY HeadTailProperties, EmptySeq
  <1>2. <<f>> \in Seq(S) /\ Len(<<f>>) = 1 /\ <<f>>[1] = f
    OBVIOUS
  <1>3. /\ t \in Seq(S) /\ Len(t) = 1 + Len(Tail(s))
        /\ \A i \in 1..(1 + Len(Tail(s))) : t[i] = IF i <= 1 THEN <<f>>[i] ELSE Tail(s)[i - 1]
    BY <1>1, <1>2, ConcatProperties
  <1>4. Len(t) = Len(s) /\ t[1] = f
    BY <1>1, <1>2, <1>3
  <1>5. ASSUME NEW i \in 2..Len(s) PROVE t[i] = s[i]
    <2>1. i \in 1..(1 + Len(Tail(s))) /\ ~ (i <= 1) /\ i - 1 \in 1..Len(Tail(s)) /\ (i - 1) + 1 = i
      BY <1>1
    <2>2. t[i] = Tail(s)[i - 1] /\ Tail(s)[i - 1] = s[(i - 1) + 1]
      BY <2>1, <1>1, <1>3
    <2> QED BY <2>1, <2>2
  <1>6. t # <<>>
    BY <1>1, <1>4, EmptySeq
  <1> QED BY <1>3, <1>4, <1>5, <1>6

\* A sequence that grows at its front.
LEMMA Pushed ==
  ASSUME NEW S, NEW s \in Seq(S), NEW f \in S, NEW t, t = <<f>> \o s
  PROVE  /\ t \in Seq(S) /\ Len(t) = Len(s) + 1 /\ t # <<>> /\ t[1] = f
         /\ \A i \in 2..Len(t) : i - 1 \in 1..Len(s) /\ t[i] = s[i - 1]
         /\ \A i \in 1..Len(s) : i + 1 \in 2..Len(t) /\ t[i + 1] = s[i]
  <1>1. <<f>> \in Seq(S) /\ Len(<<f>>) = 1 /\ <<f>>[1] = f /\ Len(s) \in Nat
    BY LenProperties
  <1>2. /\ t \in Seq(S) /\ Len(t) = 1 + Len(s)
        /\ \A i \in 1..(1 + Len(s)) : t[i] = IF i <= 1 THEN <<f>>[i] ELSE s[i - 1]
    BY <1>1, ConcatProperties
  <1>3. Len(t) = Len(s) + 1 /\ t[1] = f /\ t # <<>>
    BY <1>1, <1>2, EmptySeq
  <1>4. ASSUME NEW i \in 2..Len(t) PROVE i - 1 \in 1..Len(s) /\ t[i] = s[i - 1]
    <2>1. i \in 1..(1 + Len(s)) /\ ~ (i <= 1) /\ i - 1 \in 1..Len(s)
      BY <1>1, <1>3
    <2> QED BY <2>1, <1>2
  <1>5. ASSUME NEW i \in 1..Len(s) PROVE i + 1 \in 2..Len(t) /\ t[i + 1] = s[i]
    <2>1. i + 1 \in 2..Len(t) /\ (i + 1) - 1 = i
      BY <1>1, <1>3
    <2>2. t[i + 1] = s[(i + 1) - 1]
      BY <2>1, <1>4
    <2> QED BY <2>1, <2>2
  <1> QED BY <1>2, <1>3, <1>4, <1>5

\* A sequence that loses its first element.
LEMMA Popped ==
  ASSUME NEW S, NEW s \in Seq(S), s # <<>>
  PROVE  /\ Tail(s) \in Seq(S) /\ Len(s) \in Nat \ {0} /\ Len(Tail(s)) = Len(s) - 1
         /\ \A i \in 1..Len(Tail(s)) : i + 1 \in 2..Len(s) /\ Tail(s)[i] = s[i + 1]
         /\ \A i \in 2..Len(s) : i - 1 \in 1..Len(Tail(s)) /\ Tail(s)[i - 1] = s[i]
         /\ Head(s) = s[1]
  <1>1. Tail(s) \in Seq(S) /\ Len(Tail(s)) = Len(s) - 1 /\ Len(s) \in Nat \ {0}
        /\ \A i \in 1..Len(Tail(s)) : Tail(s)[i] = s[i + 1]
    BY HeadTailProperties, EmptySeq
  <1>2. \A i \in 1..Len(Tail(s)) : i + 1 \in 2..Len(s)
    BY <1>1
  <1>3. ASSUME NEW i \in 2..Len(s) PROVE i - 1 \in 1..Len(Tail(s)) /\ Tail(s)[i - 1] = s[i]
    <2>1. i - 1 \in 1..Len(Tail(s)) /\ (i - 1) + 1 = i
      BY <1>1
    <2> QED BY <2>1, <1>1
  <1>4. Head(s) = s[1]
    OBVIOUS
  <1> QED BY <1>1, <1>2, <1>3, <1>4

-----------------------------------------------------------------------------
(* The invariant. *)

\* A Get that has its descriptor's lock.
Holding(f) == f.at \in {"create", "fail"}

Nth(g, i) == stack[g][i]
Depth(g)     == 1..Len(stack[g])

\* A goroutine owns what it is creating, each once; below the innermost Get all
\* are creating; and what is needed ranks below what needs it.
StackInv(g) ==
  /\ \A i \in Depth(g) :
       /\ FrameOK(Nth(g, i))
       /\ i # 1 => Nth(g, i).at = "create"
       /\ Holding(Nth(g, i)) => descs[Nth(g, i).desc].owner = g
  /\ \A i, j \in Depth(g) : i < j =>
       /\ Holding(Nth(g, i)) => Nth(g, i).desc # Nth(g, j).desc
       /\ Acyclic => RankOf[Nth(g, i).name] < RankOf[Nth(g, j).name]

\* Whoever owns a descriptor is creating from it.
OwnedBy(g) ==
  \A d \in Ids : descs[d].owner = g =>
    \E i \in Depth(g) : Holding(Nth(g, i)) /\ Nth(g, i).desc = d

\* A singleton is created once: nothing was given before its instance is there,
\* and it is not there as long as somebody creates it.
Single(e) ==
  e.recipe \in Singletons =>
    /\ e.given \subseteq {e.instance}
    /\ e.owner # NoOne => e.instance = 0
    /\ e.instance = 0 => e.given = {}
SingleInv(d) == Single(descs[d])

ContainerInv ==
  /\ TypeOK
  /\ \A g \in Goroutines : StackInv(g) /\ OwnedBy(g)
  /\ \A d \in Ids : SingleInv(d)

\* The parts of TypeOK.
DescsOK    == descs \in Seq(Descriptor)
ServicesOK ==
  /\ DOMAIN services \subseteq Names
  /\ \A n \in DOMAIN services : services[n] \in Ids /\ NameOf[descs[services[n]].recipe] = n
StackOK    == stack \in [Goroutines -> Seq(Frames)]

LEMMA TypeParts ==
  ContainerInv => /\ DescsOK /\ ServicesOK /\ StackOK
                  /\ \A g \in Goroutines : stack[g] \in Seq(Frames)
                  /\ \A d \in Ids : descs[d] \in Descriptor
                  /\ Len(descs) \in Nat
  BY ElementOfSeq, LenProperties
     DEF ContainerInv, TypeOK, DescsOK, ServicesOK, StackOK, Ids

\* TypeOK has no part beyond the three that StackInv does not imply.
LEMMA TypeWhole ==
  ASSUME DescsOK', ServicesOK', StackOK', \A g \in Goroutines : StackInv(g)'
  PROVE  TypeOK'
  BY DEF DescsOK, ServicesOK, StackOK, StackInv, Nth, Depth, TypeOK

\* The descriptors change so that nobody but g notices.
Steady(g) ==
  /\ Len(descs) \in Nat /\ Len(descs') \in Nat /\ Len(descs) <= Len(descs')
  /\ \A d \in Ids : descs'[d].recipe = descs[d].recipe
  /\ \A d \in Ids : \A h \in Goroutines \ {g} : descs'[d].owner = h <=> descs[d].owner = h
  /\ \A d \in 1..Len(descs') : d \notin Ids => descs'[d].owner = NoOne

\* The frames of the other goroutines hold what they held.
LEMMA OthersKeep ==
  ASSUME ContainerInv, NEW g, Steady(g), NEW h \in Goroutines \ {g}, stack'[h] = stack[h]
  PROVE  StackInv(h)' /\ OwnedBy(h)'
  <1>1. StackInv(h) /\ OwnedBy(h)
    BY DEF ContainerInv
  <1>2. \A i \in Depth(h) : Nth(h, i).at # "lookup" => Nth(h, i).desc \in Ids
    BY <1>1 DEF StackInv, FrameOK
  <1>3. \A d \in Ids : d \in 1..Len(descs')
    BY DEF Steady, Ids
  <1>4. StackInv(h)'
    BY <1>1, <1>2, <1>3, SMTT(30) DEF StackInv, FrameOK, Nth, Depth, Steady, Ids, Holding, Acyclic
  <1>5. OwnedBy(h)'
    <2> SUFFICES ASSUME NEW d \in Ids', descs'[d].owner = h
                 PROVE  \E i \in Depth(h)' : Holding(Nth(h, i)') /\ Nth(h, i)'.desc = d
      BY DEF OwnedBy, Holding
    <2>1. d \in Ids /\ descs[d].owner = h
      BY ContainerAssumption DEF Steady, Ids
    <2>2. PICK i \in Depth(h) : Holding(Nth(h, i)) /\ Nth(h, i).desc = d
      BY <1>1, <2>1 DEF OwnedBy
    <2> QED BY <2>2 DEF Depth, Nth
  <1> QED BY <1>4, <1>5

-----------------------------------------------------------------------------
(* What Get does to its own stack. *)

\* What the steps below leave alone.
Below(g) == \A i \in 2..Len(stack[g]) : descs'[stack[g][i].desc].owner = g

\* The innermost Get moves on (container.go:90-113).
LEMMA RetopKeeps ==
  ASSUME ContainerInv, NEW g \in Goroutines, stack[g] # <<>>, NEW f \in Frames, Retop(g, f),
         f.name = Top(g).name, FrameOK(f)', Steady(g), Below(g),
         Holding(f) => /\ descs'[f.desc].owner = g
                       /\ \A i \in 2..Len(stack[g]) : stack[g][i].desc # f.desc,
         \A d \in 1..Len(descs') : descs'[d].owner = g =>
           \/ Holding(f) /\ f.desc = d
           \/ d \in Ids /\ descs[d].owner = g /\ ~ (Holding(Top(g)) /\ Top(g).desc = d)
  PROVE  StackOK' /\ \A h \in Goroutines : StackInv(h)' /\ OwnedBy(h)'
  <1> DEFINE s == stack[g]
             t == <<f>> \o Tail(s)
  <1>1. StackOK /\ s \in Seq(Frames) /\ StackInv(g) /\ OwnedBy(g)
    BY TypeParts DEF ContainerInv
  <1>2. stack' = [stack EXCEPT ![g] = t]
    BY DEF Retop
  <1>3. /\ t \in Seq(Frames) /\ Len(t) = Len(s) /\ t[1] = f
        /\ \A i \in 2..Len(s) : t[i] = s[i]
    BY <1>1, Retopped
  <1>4. Len(s) \in Nat \ {0} /\ Top(g) = s[1]
    BY <1>1, Popped DEF Top
  <1> HIDE DEF s, t
  <1>5. StackOK' /\ stack'[g] = t /\ \A h \in Goroutines \ {g} : stack'[h] = stack[h]
    BY <1>1, <1>2, <1>3 DEF StackOK
  <1>6. \A i \in 1..Len(s) : i = 1 \/ i \in 2..Len(s)
    BY <1>4
  <1>7. StackInv(g)'
    <2>1. \A i \in 2..Len(s) : s[i].at = "create" /\ FrameOK(s[i]) /\ s[i].desc \in Ids
      BY <1>1, <1>4 DEF StackInv, Depth, Nth, FrameOK, s
    <2>2. \A i \in 2..Len(s) :
            s[i].desc \in 1..Len(descs') /\ NameOf[descs'[s[i].desc].recipe] = s[i].name
      BY <2>1 DEF FrameOK, Steady, Ids
    <2>3. \A i \in 1..Len(t) :
            /\ t[i].at # "lookup" =>
                 t[i].desc \in 1..Len(descs') /\ NameOf[descs'[t[i].desc].recipe] = t[i].name
            /\ i # 1 => t[i].at = "create"
            /\ Holding(t[i]) => descs'[t[i].desc].owner = g
      BY <1>3, <1>6, <2>1, <2>2 DEF Below, s, FrameOK, Ids
    <2>4. \A i, j \in 1..Len(s) : i < j =>
            /\ Holding(s[i]) => s[i].desc # s[j].desc
            /\ Acyclic => RankOf[s[i].name] < RankOf[s[j].name]
      BY <1>1 DEF StackInv, Depth, Nth, s
    <2>5. \A i, j \in 1..Len(t) : i < j =>
            /\ Holding(t[i]) => t[i].desc # t[j].desc
            /\ Acyclic => RankOf[t[i].name] < RankOf[t[j].name]
      <3> SUFFICES ASSUME NEW i \in 1..Len(s), NEW j \in 1..Len(s), i < j
                   PROVE  /\ Holding(t[i]) => t[i].desc # t[j].desc
                          /\ Acyclic => RankOf[t[i].name] < RankOf[t[j].name]
        BY <1>3
      <3>1. j \in 2..Len(s) /\ t[j] = s[j]
        BY <1>3, <1>4
      <3>2. CASE i = 1
        <4>1. Holding(f) => f.desc # s[j].desc
          BY <3>1 DEF s
        <4>2. Acyclic => RankOf[f.name] < RankOf[s[j].name]
          BY <3>2, <2>4, <1>4
        <4> QED BY <3>1, <3>2, <4>1, <4>2, <1>3
      <3>3. CASE i # 1
        <4>1. i \in 2..Len(s) /\ t[i] = s[i]
          BY <3>3, <1>3, <1>4
        <4> QED BY <3>1, <4>1, <2>4
      <3> QED BY <3>2, <3>3
    <2> QED BY <2>3, <2>5, <1>5 DEF StackInv, FrameOK, Ids, Depth, Nth, Acyclic, Holding
  <1>8. OwnedBy(g)'
    <2> SUFFICES ASSUME NEW d \in 1..Len(descs'), descs'[d].owner = g
                 PROVE  \E i \in 1..Len(t) : Holding(t[i]) /\ t[i].desc = d
      BY <1>5 DEF OwnedBy, Ids, Depth, Nth, Holding
    <2>1. CASE Holding(f) /\ f.desc = d
      <3>1. 1 \in 1..Len(t)
        BY <1>3, <1>4
      <3> QED BY <2>1, <3>1, <1>3
    <2>2. CASE d \in Ids /\ descs[d].owner = g /\ ~ (Holding(Top(g)) /\ Top(g).desc = d)
      <3>1. PICK i \in 1..Len(s) : Holding(s[i]) /\ s[i].desc = d
        BY <2>2, <1>1 DEF OwnedBy, Depth, Nth, s
      <3>2. i \in 2..Len(s)
        BY <2>2, <3>1, <1>4, <1>6
      <3> QED BY <3>1, <3>2, <1>3
    <2> QED BY <2>1, <2>2
  <1>9. \A h \in Goroutines \ {g} : StackInv(h)' /\ OwnedBy(h)'
    BY <1>5, OthersKeep
  <1> QED BY <1>5, <1>7, <1>8, <1>9

\* The innermost Get returns, and releases what it held (container.go:86-127).
LEMMA ReturnKeeps ==
  ASSUME ContainerInv, NEW g \in Goroutines, stack[g] # <<>>, NEW ok \in BOOLEAN, Return(g, ok),
         Steady(g), Below(g),
         \A d \in 1..Len(descs') : descs'[d].owner = g =>
           d \in Ids /\ descs[d].owner = g /\ ~ (Holding(Top(g)) /\ Top(g).desc = d)
  PROVE  StackOK' /\ \A h \in Goroutines : StackInv(h)' /\ OwnedBy(h)'
  <1> DEFINE s == stack[g]
             b == Tail(s)
             f == Head(b)
             u == IF ok THEN [name |-> f.name, at |-> f.at, desc |-> f.desc, arg |-> f.arg + 1]
                        ELSE [name |-> f.name, at |-> "fail", desc |-> f.desc, arg |-> f.arg]
             t == IF b = <<>> THEN <<>> ELSE <<u>> \o Tail(b)
  <1>1. StackOK /\ s \in Seq(Frames) /\ StackInv(g) /\ OwnedBy(g)
    BY TypeParts DEF ContainerInv
  <1>2. stack' = [stack EXCEPT ![g] = t]
    BY DEF Return
  <1>3. /\ b \in Seq(Frames) /\ Len(s) \in Nat \ {0} /\ Len(b) = Len(s) - 1
        /\ \A i \in 1..Len(b) : i + 1 \in 2..Len(s) /\ b[i] = s[i + 1]
        /\ \A i \in 2..Len(s) : i - 1 \in 1..Len(b) /\ b[i - 1] = s[i]
        /\ Top(g) = s[1]
    BY <1>1, Popped DEF Top
  <1>4. \A i \in 2..Len(s) : s[i].at = "create" /\ FrameOK(s[i]) /\ s[i].desc \in Ids
    BY <1>1, <1>3 DEF StackInv, Depth, Nth, FrameOK
  <1>5. /\ t \in Seq(Frames) /\ Len(t) = Len(b)
        /\ \A i \in 1..Len(t) :
             /\ t[i].name = b[i].name /\ t[i].desc = b[i].desc /\ Holding(t[i])
             /\ i # 1 => t[i].at = "create"
    <2>1. CASE b = <<>>
      <3>1. t = <<>> /\ Len(b) = 0
        BY <2>1, EmptySeq
      <3> HIDE DEF t, b
      <3>2. <<>> \in Seq(Frames) /\ Len(<<>>) = 0
        BY EmptySeq
      <3> QED BY <3>1, <3>2
    <2>2. CASE b # <<>>
      <3>1. f \in Frames /\ f = b[1] /\ Len(b) \in Nat \ {0}
        BY <2>2, <1>3, HeadTailProperties, Popped
      <3>2. f.at = "create"
        <4> HIDE DEF f, b
        <4>1. 1 \in 1..Len(b)
          BY <3>1
        <4>2. f = s[1 + 1] /\ 1 + 1 \in 2..Len(s)
          BY <4>1, <3>1, <1>3
        <4> QED BY <4>2, <1>4
      <3>3. u \in Frames /\ u.name = f.name /\ u.desc = f.desc /\ Holding(u)
        <4> HIDE DEF f, b, t
        <4>0. f.arg \in Nat \ {0}
          BY <3>1 DEF Frames
        <4> DEFINE n == f.arg + 1
        <4>1. n \in Nat \ {0}
          BY <4>0
        <4> HIDE DEF n
        <4>2. [name |-> f.name, at |-> f.at, desc |-> f.desc, arg |-> n] \in Frames
          BY <4>1, <3>1 DEF Frames
        <4>3. [name |-> f.name, at |-> "fail", desc |-> f.desc, arg |-> f.arg] \in Frames
          BY <3>1 DEF Frames
        <4>4. u = IF ok THEN [name |-> f.name, at |-> f.at, desc |-> f.desc, arg |-> n]
                        ELSE [name |-> f.name, at |-> "fail", desc |-> f.desc, arg |-> f.arg]
          BY DEF n
        <4> HIDE DEF u
        <4> QED BY <4>2, <4>3, <4>4, <3>2 DEF Holding
      <3> HIDE DEF u, f, b
      <3>4. t = <<u>> \o Tail(b)
        BY <2>2
      <3> HIDE DEF t
      <3>5. /\ t \in Seq(Frames) /\ Len(t) = Len(b) /\ t[1] = u
            /\ \A i \in 2..Len(b) : t[i] = b[i]
        BY <3>3, <3>4, <2>2, <1>3, Retopped
      <3>6. ASSUME NEW i \in 1..Len(t), i # 1
            PROVE  t[i] = b[i] /\ b[i].at = "create"
        <4>1. i \in 2..Len(b) /\ i \in 1..Len(b)
          BY <3>1, <3>5, <3>6
        <4>2. i + 1 \in 2..Len(s) /\ b[i] = s[i + 1]
          BY <4>1, <1>3
        <4>3. b[i].at = "create"
          BY <4>2, <1>4
        <4> QED BY <4>1, <4>3, <3>5
      <3> QED BY <3>1, <3>3, <3>5, <3>6 DEF Holding
    <2> QED BY <2>1, <2>2
  <1> HIDE DEF s, b, f, u, t
  <1>6. StackOK' /\ stack'[g] = t /\ \A h \in Goroutines \ {g} : stack'[h] = stack[h]
    BY <1>1, <1>2, <1>5 DEF StackOK
  <1>7. \A i \in 1..Len(t) :
          /\ i + 1 \in 2..Len(s)
          /\ t[i].name = s[i + 1].name /\ t[i].desc = s[i + 1].desc
    BY <1>3, <1>5
  <1>8. StackInv(g)'
    <2>1. \A i \in 2..Len(s) :
            /\ s[i].desc \in 1..Len(descs') /\ NameOf[descs'[s[i].desc].recipe] = s[i].name
            /\ descs'[s[i].desc].owner = g
      <3> SUFFICES ASSUME NEW i \in 2..Len(s)
                   PROVE  /\ s[i].desc \in 1..Len(descs') /\ NameOf[descs'[s[i].desc].recipe] = s[i].name
                          /\ descs'[s[i].desc].owner = g
        OBVIOUS
      <3>1. s[i].desc \in Ids /\ NameOf[descs[s[i].desc].recipe] = s[i].name
        BY <1>4 DEF FrameOK
      <3>2. descs'[s[i].desc].owner = g
        BY DEF Below, s
      <3> QED BY <3>1, <3>2 DEF Steady, Ids
    <2>2. \A i \in 1..Len(t) :
            /\ t[i].desc \in 1..Len(descs') /\ NameOf[descs'[t[i].desc].recipe] = t[i].name
            /\ descs'[t[i].desc].owner = g
      BY <2>1, <1>7
    <2>3. \A i, j \in 2..Len(s) : i < j =>
            /\ s[i].desc # s[j].desc
            /\ Acyclic => RankOf[s[i].name] < RankOf[s[j].name]
      <3>1. \A i \in 2..Len(s) : i \in Depth(g) /\ Holding(Nth(g, i))
        BY <1>3, <1>4 DEF Depth, Nth, Holding, s
      <3> QED BY <3>1, <1>1 DEF StackInv, Nth, s
    <2>4. \A i, j \in 1..Len(t) : i < j => i + 1 < j + 1
      OBVIOUS
    <2>5. \A i, j \in 1..Len(t) : i < j =>
            /\ t[i].desc # t[j].desc
            /\ Acyclic => RankOf[t[i].name] < RankOf[t[j].name]
      BY <2>3, <2>4, <1>7
    <2> QED BY <2>2, <2>5, <1>5, <1>6 DEF StackInv, FrameOK, Ids, Depth, Nth, Acyclic, Holding
  <1>9. OwnedBy(g)'
    <2> SUFFICES ASSUME NEW d \in 1..Len(descs'), descs'[d].owner = g
                 PROVE  \E i \in 1..Len(t) : Holding(t[i]) /\ t[i].desc = d
      BY <1>6 DEF OwnedBy, Ids, Depth, Nth, Holding
    <2>1. PICK i \in 1..Len(s) : Holding(s[i]) /\ s[i].desc = d
      BY <1>1 DEF OwnedBy, Depth, Nth, s
    <2>2. i \in 2..Len(s)
      <3>1. i # 1
        BY <2>1, <1>3
      <3> QED BY <3>1, <1>3
    <2>3. i - 1 \in 1..Len(t) /\ b[i - 1] = s[i]
      BY <2>2, <1>3, <1>5
    <2> QED BY <2>1, <2>3, <1>5
  <1>10. \A h \in Goroutines \ {g} : StackInv(h)' /\ OwnedBy(h)'
    BY <1>6, OthersKeep
  <1> QED BY <1>6, <1>8, <1>9, <1>10

Asked(g, n) == stack' = [stack EXCEPT ![g] = <<Frame(n)>> \o @]

\* The innermost Get asks for a dependency (container.go:158-161, 258-261).
LEMMA PushKeeps ==
  ASSUME ContainerInv, NEW g \in Goroutines, stack[g] # <<>>, NEW n \in Names,
         Asked(g, n), UNCHANGED descs,
         Top(g).at = "create", Acyclic => RankOf[n] < RankOf[Top(g).name]
  PROVE  StackOK' /\ \A h \in Goroutines : StackInv(h)' /\ OwnedBy(h)'
  <1> DEFINE s == stack[g]
             f == Frame(n)
             t == <<f>> \o s
  <1>1. StackOK /\ s \in Seq(Frames) /\ StackInv(g) /\ OwnedBy(g)
    BY TypeParts DEF ContainerInv
  <1>2. f \in Frames /\ f.at = "lookup" /\ f.name = n
    BY DEF Frame, Frames
  <1>3. stack' = [stack EXCEPT ![g] = t]
    BY DEF Asked
  <1> HIDE DEF f
  <1>4. /\ t \in Seq(Frames) /\ Len(t) = Len(s) + 1 /\ t[1] = f
        /\ \A i \in 2..Len(t) : i - 1 \in 1..Len(s) /\ t[i] = s[i - 1]
        /\ \A i \in 1..Len(s) : i + 1 \in 2..Len(t) /\ t[i + 1] = s[i]
    BY <1>1, <1>2, Pushed
  <1>5. Len(s) \in Nat \ {0} /\ Top(g) = s[1]
    BY <1>1, Popped DEF Top
  <1> HIDE DEF s, t
  <1>6. StackOK' /\ stack'[g] = t /\ \A h \in Goroutines \ {g} : stack'[h] = stack[h]
    BY <1>1, <1>3, <1>4 DEF StackOK
  <1>7. \A i \in 1..Len(t) : i # 1 => i \in 2..Len(t)
    BY <1>4, <1>5
  <1>8. \A i \in 1..Len(s) : s[i].at = "create" /\ FrameOK(s[i]) /\ descs[s[i].desc].owner = g
    BY <1>1, <1>5 DEF StackInv, Depth, Nth, Holding, s
  <1>9. \A i, j \in 1..Len(s) : i < j =>
          /\ Holding(s[i]) => s[i].desc # s[j].desc
          /\ Acyclic => RankOf[s[i].name] < RankOf[s[j].name]
    BY <1>1 DEF StackInv, Depth, Nth, s
  <1>10. StackInv(g)'
    <2>1. \A i \in 1..Len(t) :
            /\ t[i].at # "lookup" =>
                 t[i].desc \in 1..Len(descs') /\ NameOf[descs'[t[i].desc].recipe] = t[i].name
            /\ i # 1 => t[i].at = "create"
            /\ Holding(t[i]) => descs'[t[i].desc].owner = g
      <3> SUFFICES ASSUME NEW i \in 1..Len(t)
                   PROVE  /\ t[i].at # "lookup" =>
                               /\ t[i].desc \in 1..Len(descs')
                               /\ NameOf[descs'[t[i].desc].recipe] = t[i].name
                          /\ i # 1 => t[i].at = "create"
                          /\ Holding(t[i]) => descs'[t[i].desc].owner = g
        OBVIOUS
      <3>1. CASE i = 1
        BY <3>1, <1>2, <1>4 DEF Holding
      <3>2. CASE i # 1
        BY <3>2, <1>4, <1>7, <1>8 DEF FrameOK, Ids
      <3> QED BY <3>1, <3>2
    <2>2. Acyclic => \A j \in 1..Len(s) : RankOf[n] < RankOf[s[j].name]
      <3> SUFFICES ASSUME Acyclic, NEW j \in 1..Len(s) PROVE RankOf[n] < RankOf[s[j].name]
        OBVIOUS
      <3>1. CASE j = 1
        BY <3>1, <1>5
      <3>2. CASE j # 1
        <4>1. 1 \in 1..Len(s) /\ 1 < j
          BY <3>2, <1>5
        <4>2. RankOf[n] < RankOf[s[1].name] /\ RankOf[s[1].name] < RankOf[s[j].name]
          BY <4>1, <1>5, <1>9
        <4>3. s[1] \in Frames /\ s[j] \in Frames
          BY <4>1, <1>1, ElementOfSeq
        <4>4. RankOf[n] \in Nat /\ RankOf[s[1].name] \in Nat /\ RankOf[s[j].name] \in Nat
          BY <4>3, ContainerAssumption DEF Frames
        <4> QED BY <4>2, <4>4
      <3> QED BY <3>1, <3>2
    <2>3. ASSUME NEW i \in 1..Len(t), NEW j \in 1..Len(t), i < j
          PROVE  /\ Holding(t[i]) => t[i].desc # t[j].desc
                 /\ Acyclic => RankOf[t[i].name] < RankOf[t[j].name]
      <3>1. j # 1
        BY <2>3
      <3>2. j - 1 \in 1..Len(s) /\ t[j] = s[j - 1]
        BY <3>1, <1>4, <1>7
      <3>3. CASE i = 1
        BY <3>2, <3>3, <2>2, <1>2, <1>4 DEF Holding
      <3>4. CASE i # 1
        <4>1. i - 1 \in 1..Len(s) /\ t[i] = s[i - 1]
          BY <3>4, <1>4, <1>7
        <4>2. i - 1 < j - 1
          BY <2>3
        <4> QED BY <3>2, <4>1, <4>2, <1>9
      <3> QED BY <3>3, <3>4
    <2>4. \A i \in 1..Len(t) : \A j \in 1..Len(t) : i < j =>
            /\ Holding(t[i]) => t[i].desc # t[j].desc
            /\ Acyclic => RankOf[t[i].name] < RankOf[t[j].name]
      BY <2>3
    <2> QED BY <2>1, <2>4, <1>6 DEF StackInv, FrameOK, Ids, Depth, Nth, Acyclic, Holding
  <1>11. OwnedBy(g)'
    <2> SUFFICES ASSUME NEW d \in Ids, descs[d].owner = g
                 PROVE  \E i \in 1..Len(t) : Holding(t[i]) /\ t[i].desc = d
      BY <1>6 DEF OwnedBy, Ids, Depth, Nth, Holding
    <2>1. PICK i \in 1..Len(s) : Holding(s[i]) /\ s[i].desc = d
      BY <1>1 DEF OwnedBy, Depth, Nth, s
    <2>2. i + 1 \in 2..Len(t) /\ t[i + 1] = s[i]
      BY <1>4
    <2>3. i + 1 \in 1..Len(t)
      BY <2>2, <1>4, <1>5
    <2> QED BY <2>1, <2>2, <2>3
  <1>12. \A h \in Goroutines \ {g} : StackInv(h)' /\ OwnedBy(h)'
    <2>1. Steady(g)
      BY TypeParts DEF Steady, Ids
    <2> QED BY <2>1, <1>6, OthersKeep
  <1> QED BY <1>6, <1>10, <1>11, <1>12

-----------------------------------------------------------------------------
(* What Get does to its descriptor. *)

\* What a goroutine's own stack says of the descriptors.
LEMMA TopFacts ==
  ASSUME ContainerInv, NEW g \in Goroutines, stack[g] # <<>>
  PROVE  /\ Top(g) \in Frames /\ FrameOK(Top(g))
         /\ \A i \in 2..Len(stack[g]) : stack[g][i].desc \in Ids /\ descs[stack[g][i].desc].owner = g
         /\ Holding(Top(g)) => /\ descs[Top(g).desc].owner = g
                               /\ \A i \in 2..Len(stack[g]) : stack[g][i].desc # Top(g).desc
  <1>1. stack[g] \in Seq(Frames) /\ StackInv(g)
    BY TypeParts DEF ContainerInv
  <1>2. Len(stack[g]) \in Nat \ {0} /\ Top(g) = stack[g][1]
    BY <1>1, Popped DEF Top
  <1>3. 1 \in 1..Len(stack[g]) /\ Top(g) \in Frames
    BY <1>1, <1>2, ElementOfSeq
  <1>4. \A i \in 2..Len(stack[g]) : i \in 1..Len(stack[g]) /\ i # 1 /\ 1 < i
    BY <1>2
  <1> QED BY <1>1, <1>2, <1>3, <1>4 DEF StackInv, FrameOK, Nth, Depth, Holding

\* Only g's descriptor changes, between owned by g and owned by nobody.
LEMMA EditKeeps ==
  ASSUME ContainerInv, NEW g \in Goroutines, NEW d \in Ids, NEW e \in Descriptor,
         e.recipe = descs[d].recipe, descs' = [descs EXCEPT ![d] = e], UNCHANGED services,
         descs[d].owner \in {g, NoOne}, e.owner \in {g, NoOne}, Single(e)
  PROVE  /\ DescsOK' /\ ServicesOK' /\ Steady(g) /\ \A k \in Ids' : SingleInv(k)'
         /\ Len(descs') = Len(descs)
         /\ \A k \in Ids : descs'[k] = IF k = d THEN e ELSE descs[k]
  <1>1. DescsOK /\ ServicesOK /\ Len(descs) \in Nat /\ \A k \in Ids : SingleInv(k)
    BY TypeParts DEF ContainerInv
  <1>2. descs' \in Seq(Descriptor) /\ Len(descs') = Len(descs)
        /\ \A k \in Ids : descs'[k] = IF k = d THEN e ELSE descs[k]
    BY <1>1, ExceptSeq DEF DescsOK, Ids
  <1>3. \A k \in Ids : descs'[k].recipe = descs[k].recipe
    BY <1>2
  <1>4. ServicesOK'
    BY <1>1, <1>2, <1>3 DEF ServicesOK, Ids
  <1>5. Steady(g)
    <2>1. \A h \in Goroutines \ {g} : descs[d].owner # h /\ e.owner # h
      BY ContainerAssumption
    <2> QED BY <1>1, <1>2, <1>3, <2>1 DEF Steady, Ids
  <1>6. \A k \in Ids' : SingleInv(k)'
    BY <1>1, <1>2 DEF SingleInv, Single, Ids
  <1> QED BY <1>2, <1>4, <1>5, <1>6 DEF DescsOK

\* The parts make the invariant.
LEMMA Whole ==
  ASSUME DescsOK', ServicesOK', StackOK', \A h \in Goroutines : StackInv(h)' /\ OwnedBy(h)',
         \A k \in Ids' : SingleInv(k)'
  PROVE  ContainerInv'
  BY TypeWhole DEF ContainerInv

\* The descriptors are as they were.
LEMMA SameDescs ==
  ASSUME ContainerInv, UNCHANGED <<services, descs>>
  PROVE  /\ DescsOK' /\ ServicesOK' /\ \A k \in Ids' : SingleInv(k)'
         /\ \A g \in Goroutines : Steady(g)
  <1>1. DescsOK /\ ServicesOK /\ Len(descs) \in Nat /\ \A k \in Ids : SingleInv(k)
    BY TypeParts DEF ContainerInv
  <1>2. DescsOK' /\ ServicesOK'
    BY <1>1 DEF DescsOK, ServicesOK, Ids
  <1>3. \A k \in Ids' : SingleInv(k)'
    BY <1>1 DEF SingleInv, Single, Ids
  <1>4. \A g \in Goroutines : Steady(g)
    BY <1>1 DEF Steady, Ids
  <1> QED BY <1>2, <1>3, <1>4

-----------------------------------------------------------------------------
(* The steps. *)

LEMMA StartKeeps ==
  ASSUME ContainerInv, NEW g \in Goroutines, NEW n \in Names, Get(g, n)
  PROVE  ContainerInv'
  <1> DEFINE f == Frame(n)
  <1>1. f \in Frames /\ f.at = "lookup"
    BY DEF Frame, Frames
  <1>2. stack' = [stack EXCEPT ![g] = <<f>>] /\ UNCHANGED <<services, descs>> /\ stack[g] = <<>>
    BY DEF Get
  <1> HIDE DEF f
  <1>3. <<f>> \in Seq(Frames) /\ Len(<<f>>) = 1 /\ <<f>>[1] = f
    BY <1>1
  <1>4. StackOK' /\ stack'[g] = <<f>> /\ \A h \in Goroutines \ {g} : stack'[h] = stack[h]
    BY <1>2, <1>3, TypeParts DEF StackOK
  <1>5. StackInv(g)'
    <2>1. \A i \in 1..Len(<<f>>) : i = 1
      BY <1>3
    <2>2. ~ \E i, j \in 1..Len(<<f>>) : i < j
      BY <1>3
    <2> QED BY <1>1, <1>3, <1>4, <2>1, <2>2 DEF StackInv, FrameOK, Ids, Depth, Nth, Holding
  <1>6. OwnedBy(g)'
    <2>1. OwnedBy(g) /\ Depth(g) = {}
      <3>1. Len(stack[g]) = 0
        BY <1>2, EmptySeq
      <3> QED BY <3>1 DEF ContainerInv, Depth
    <2>2. \A d \in Ids' : descs'[d].owner # g
      BY <2>1, <1>2 DEF OwnedBy, Ids
    <2> QED BY <2>2 DEF OwnedBy
  <1>7. \A h \in Goroutines \ {g} : StackInv(h)' /\ OwnedBy(h)'
    BY <1>2, <1>4, SameDescs, OthersKeep
  <1> QED BY <1>2, <1>4, <1>5, <1>6, <1>7, SameDescs, Whole

LEMMA LookupKeeps ==
  ASSUME ContainerInv, NEW g \in Goroutines, Lookup(g)
  PROVE  ContainerInv'
  <1>1. /\ stack[g] # <<>> /\ Top(g).at = "lookup" /\ ~ Holding(Top(g))
        /\ UNCHANGED <<services, descs>>
    BY DEF Lookup, In, Holding
  <1>2. Steady(g) /\ OwnedBy(g)
    BY <1>1, SameDescs DEF ContainerInv
  <1>3. Below(g)
    BY <1>1, TopFacts DEF Below
  <1>4. Top(g) \in Frames
    BY <1>1, TopFacts
  <1>5. \A d \in 1..Len(descs') : d \in Ids /\ descs'[d] = descs[d]
    BY <1>1 DEF Ids
  <1>6. CASE Top(g).name \in DOMAIN services
    <2>0. PICK f : f = [name |-> Top(g).name, at |-> "lock", desc |-> services[Top(g).name], arg |-> 1]
      OBVIOUS
    <2>1. Retop(g, f)
      BY <1>6, <2>0 DEF Lookup
    <2>2. services[Top(g).name] \in Ids /\ NameOf[descs[services[Top(g).name]].recipe] = Top(g).name
      BY <1>6, TypeParts DEF ServicesOK
    <2>3. f \in Frames /\ f.name = Top(g).name /\ ~ Holding(f)
      BY <1>4, <2>0, <2>2, TypeParts DEF Frames, Holding, Ids
    <2>4. FrameOK(f)'
      BY <1>1, <2>0, <2>2 DEF FrameOK, Ids
    <2>5. StackOK' /\ \A h \in Goroutines : StackInv(h)' /\ OwnedBy(h)'
      BY <1>1, <1>2, <1>3, <1>5, <2>1, <2>3, <2>4, RetopKeeps
    <2> QED BY <1>1, <2>5, SameDescs, Whole
  <1>7. CASE Top(g).name \notin DOMAIN services
    <2>1. Return(g, FALSE)
      BY <1>7 DEF Lookup
    <2>2. StackOK' /\ \A h \in Goroutines : StackInv(h)' /\ OwnedBy(h)'
      BY <1>1, <1>2, <1>3, <1>5, <2>1, ReturnKeeps
    <2> QED BY <1>1, <2>2, SameDescs, Whole
  <1> QED BY <1>6, <1>7

LEMMA LockKeeps ==
  ASSUME ContainerInv, NEW g \in Goroutines, Lock(g)
  PROVE  ContainerInv'
  <1>1. /\ stack[g] # <<>> /\ Top(g).at = "lock" /\ ~ Holding(Top(g)) /\ UNCHANGED services
        /\ Top(g).desc \in Ids /\ descs[Top(g).desc].owner = NoOne
    BY TopFacts DEF Lock, In, Holding, FrameOK
  <1>2. PICK d : d = Top(g).desc
    OBVIOUS
  <1>3. d \in Ids /\ descs[d] \in Descriptor /\ descs[d].owner = NoOne /\ Single(descs[d])
    BY <1>1, <1>2, TypeParts DEF ContainerInv, SingleInv
  <1>4. NoOne # g
    BY ContainerAssumption
  <1>5. Top(g) \in Frames /\ OwnedBy(g)
    BY <1>1, TopFacts DEF ContainerInv
  <1>6. CASE Recipe(g) \in Singletons /\ descs[d].instance # 0
    <2>1. /\ descs' = [descs EXCEPT ![d].given = descs[d].given \cup {descs[d].instance}]
          /\ Return(g, TRUE)
      BY <1>2, <1>6 DEF Lock, Locked
    <2>2. PICK e : e = [descs[d] EXCEPT !.given = descs[d].given \cup {descs[d].instance}]
      OBVIOUS
    <2>3. e \in Descriptor /\ e.recipe = descs[d].recipe /\ e.owner = NoOne
          /\ e.instance = descs[d].instance
          /\ e.given = descs[d].given \cup {descs[d].instance}
      BY <1>3, <2>2 DEF Descriptor
    <2>4. Single(e)
      BY <1>3, <1>6, <2>3 DEF Single
    <2>5. descs' = [descs EXCEPT ![d] = e]
      BY <2>1, <2>2
    <2>6. /\ DescsOK' /\ ServicesOK' /\ Steady(g) /\ \A k \in Ids' : SingleInv(k)'
          /\ Len(descs') = Len(descs)
          /\ \A k \in Ids : descs'[k] = IF k = d THEN e ELSE descs[k]
      BY <1>1, <1>3, <2>3, <2>4, <2>5, EditKeeps
    <2>7. \A k \in Ids : descs'[k].owner = descs[k].owner
      BY <1>3, <2>3, <2>6
    <2>8. Below(g)
      BY <1>1, <2>7, TopFacts DEF Below
    <2>9. \A k \in 1..Len(descs') : descs'[k].owner = g =>
            k \in Ids /\ descs[k].owner = g /\ ~ (Holding(Top(g)) /\ Top(g).desc = k)
      BY <1>1, <2>6, <2>7 DEF Ids
    <2>10. StackOK' /\ \A h \in Goroutines : StackInv(h)' /\ OwnedBy(h)'
      BY <1>1, <2>1, <2>6, <2>8, <2>9, ReturnKeeps
    <2> QED BY <2>6, <2>10, Whole
  <1>7. CASE ~ (Recipe(g) \in Singletons /\ descs[d].instance # 0)
    <2>0. PICK f : f = [name |-> Top(g).name, at |-> "create", desc |-> d, arg |-> 1]
      OBVIOUS
    <2>1. descs' = [descs EXCEPT ![d].owner = g] /\ Retop(g, f)
      BY <1>2, <1>7, <2>0 DEF Lock, Locked
    <2>2. PICK e : e = [descs[d] EXCEPT !.owner = g]
      OBVIOUS
    <2>3. e \in Descriptor /\ e.recipe = descs[d].recipe /\ e.owner = g
          /\ e.instance = descs[d].instance /\ e.given = descs[d].given
      BY <1>3, <2>2 DEF Descriptor
    <2>4. Single(e)
      BY <1>2, <1>3, <1>7, <2>3 DEF Single, Recipe
    <2>5. descs' = [descs EXCEPT ![d] = e]
      BY <2>1, <2>2
    <2>6. /\ DescsOK' /\ ServicesOK' /\ Steady(g) /\ \A k \in Ids' : SingleInv(k)'
          /\ Len(descs') = Len(descs)
          /\ \A k \in Ids : descs'[k] = IF k = d THEN e ELSE descs[k]
      BY <1>1, <1>3, <2>3, <2>4, <2>5, EditKeeps
    <2>7. f \in Frames /\ f.name = Top(g).name /\ Holding(f) /\ f.desc = d
      BY <1>3, <1>5, <2>0, TypeParts DEF Frames, Holding, Ids
    <2>8. FrameOK(f)'
      <3>1. NameOf[descs[d].recipe] = f.name
        BY <1>1, <1>2, <2>7, TopFacts DEF FrameOK
      <3>2. d \in Ids' /\ descs'[d].recipe = descs[d].recipe
        BY <1>3, <2>3, <2>6 DEF Ids
      <3> QED BY <2>7, <3>1, <3>2 DEF FrameOK
    <2>9. \A i \in 2..Len(stack[g]) : stack[g][i].desc # d /\ stack[g][i].desc \in Ids
                                      /\ descs[stack[g][i].desc].owner = g
      BY <1>1, <1>3, <1>4, TopFacts
    <2>10. Below(g)
      BY <2>6, <2>9 DEF Below
    <2>11. \A k \in 1..Len(descs') : descs'[k].owner = g =>
             \/ Holding(f) /\ f.desc = k
             \/ k \in Ids /\ descs[k].owner = g /\ ~ (Holding(Top(g)) /\ Top(g).desc = k)
      BY <1>1, <2>6, <2>7 DEF Ids
    <2>12. descs'[f.desc].owner = g
      BY <1>3, <2>3, <2>6, <2>7
    <2>13. StackOK' /\ \A h \in Goroutines : StackInv(h)' /\ OwnedBy(h)'
      BY <1>1, <2>1, <2>6, <2>7, <2>8, <2>9, <2>10, <2>11, <2>12, RetopKeeps
    <2> QED BY <2>6, <2>13, Whole
  <1> QED BY <1>6, <1>7

\* A Get that creates gives up, still holding its lock.
LEMMA GiveUpKeeps ==
  ASSUME ContainerInv, NEW g \in Goroutines, In(g, "create"), UNCHANGED <<services, descs>>,
         NEW f, f = [name |-> Top(g).name, at |-> "fail", desc |-> Top(g).desc, arg |-> Top(g).arg],
         Retop(g, f)
  PROVE  ContainerInv'
  <1>1. stack[g] # <<>> /\ Top(g).at = "create" /\ Holding(Top(g))
    BY DEF In, Holding
  <1>2. Steady(g)
    BY SameDescs
  <1>3. /\ Top(g) \in Frames /\ FrameOK(Top(g)) /\ descs[Top(g).desc].owner = g
        /\ \A i \in 2..Len(stack[g]) : stack[g][i].desc # Top(g).desc
    BY <1>1, TopFacts
  <1>4. f \in Frames /\ f.name = Top(g).name /\ Holding(f) /\ f.desc = Top(g).desc
    BY <1>3 DEF Frames, Holding
  <1>5. FrameOK(f)'
    BY <1>1, <1>3, <1>4 DEF FrameOK, Ids
  <1>6. Below(g)
    BY <1>1, TopFacts DEF Below
  <1>7. \A d \in 1..Len(descs') : descs'[d].owner = g =>
          \/ Holding(f) /\ f.desc = d
          \/ d \in Ids /\ descs[d].owner = g /\ ~ (Holding(Top(g)) /\ Top(g).desc = d)
    BY <1>4 DEF Ids
  <1>8. descs'[f.desc].owner = g /\ \A i \in 2..Len(stack[g]) : stack[g][i].desc # f.desc
    BY <1>3, <1>4
  <1>9. StackOK' /\ \A h \in Goroutines : StackInv(h)' /\ OwnedBy(h)'
    BY <1>1, <1>2, <1>4, <1>5, <1>6, <1>7, <1>8, RetopKeeps
  <1> QED BY <1>9, SameDescs, Whole

LEMMA ResolveKeeps ==
  ASSUME ContainerInv, NEW g \in Goroutines, Resolve(g)
  PROVE  ContainerInv'
  <1>1. In(g, "create") /\ stack[g] # <<>> /\ Top(g).at = "create" /\ Resolving(g)
        /\ UNCHANGED <<services, descs>>
    BY DEF Resolve, Resolving, In
  <1>2. ASSUME NEW n \in Candidates(g), Asked(g, n) PROVE ContainerInv'
    <2>1. n \in DOMAIN services /\ n \in Names /\ services[n] \in Ids
          /\ NameOf[descs[services[n]].recipe] = n
      BY TypeParts DEF Candidates, ServicesOK
    <2>2. Top(g) \in Frames /\ Top(g).desc \in Ids /\ NameOf[descs[Top(g).desc].recipe] = Top(g).name
      BY <1>1, TopFacts DEF FrameOK
    <2>3. Acyclic => RankOf[n] < RankOf[Top(g).name]
      <3> SUFFICES ASSUME Acyclic PROVE RankOf[n] < RankOf[Top(g).name]
        OBVIOUS
      <3>1. PICK r \in Recipes : r = Recipe(g)
        BY <2>2, TypeParts DEF Recipe, Descriptor
      <3>2. PICK p \in Recipes : p = descs[services[n]].recipe
        BY <2>1, TypeParts DEF Descriptor
      <3>3. KindOf[p] = "type" /\ NeedsOf[r][Top(g).arg] \in TypesOf[p]
        BY <3>1, <3>2 DEF Candidates, Needed
      <3>4. Top(g).arg \in 1..Len(NeedsOf[r])
        <4>1. Top(g).arg <= Len(NeedsOf[r])
          BY <1>1, <3>1 DEF Resolving
        <4>2. Top(g).arg \in Nat \ {0}
          BY <2>2 DEF Frames
        <4>3. NeedsOf[r] \in Seq(Types)
          BY ContainerAssumption
        <4>4. Len(NeedsOf[r]) \in Nat
          BY <4>3, LenProperties
        <4> HIDE DEF Top
        <4> QED BY <4>1, <4>2, <4>4
      <3>5. RankOf[NameOf[p]] < RankOf[NameOf[r]]
        BY <3>3, <3>4 DEF Acyclic
      <3> QED BY <2>1, <2>2, <3>1, <3>2, <3>5 DEF Recipe
    <2>4. StackOK' /\ \A h \in Goroutines : StackInv(h)' /\ OwnedBy(h)'
      BY <1>1, <1>2, <2>1, <2>3, PushKeeps
    <2> QED BY <1>1, <2>4, SameDescs, Whole
  <1>3. CASE Retop(g, [name |-> Top(g).name, at |-> "fail", desc |-> Top(g).desc, arg |-> Top(g).arg])
    <2>1. PICK f : f = [name |-> Top(g).name, at |-> "fail", desc |-> Top(g).desc, arg |-> Top(g).arg]
      OBVIOUS
    <2> QED BY <1>1, <1>3, <2>1, GiveUpKeeps
  <1> QED BY <1>2, <1>3 DEF Resolve, Asked

\* A Get unlocks its descriptor and returns.
LEMMA ReleaseKeeps ==
  ASSUME ContainerInv, NEW g \in Goroutines, stack[g] # <<>>, Holding(Top(g)), NEW ok \in BOOLEAN,
         NEW d, d = Top(g).desc, NEW e \in Descriptor,
         e.recipe = descs[d].recipe, e.owner = NoOne, Single(e),
         descs' = [descs EXCEPT ![d] = e], UNCHANGED services, Return(g, ok)
  PROVE  ContainerInv'
  <1>1. d \in Ids /\ descs[d].owner = g /\ \A i \in 2..Len(stack[g]) : stack[g][i].desc # d
    BY TopFacts DEF FrameOK, Holding
  <1>2. NoOne # g
    BY ContainerAssumption
  <1>3. /\ DescsOK' /\ ServicesOK' /\ Steady(g) /\ \A k \in Ids' : SingleInv(k)'
        /\ Len(descs') = Len(descs)
        /\ \A k \in Ids : descs'[k] = IF k = d THEN e ELSE descs[k]
    BY <1>1, EditKeeps
  <1>4. Below(g)
    BY <1>1, <1>3, TopFacts DEF Below
  <1>5. \A k \in 1..Len(descs') : descs'[k].owner = g =>
          k \in Ids /\ descs[k].owner = g /\ ~ (Holding(Top(g)) /\ Top(g).desc = k)
    BY <1>2, <1>3 DEF Ids
  <1>6. StackOK' /\ \A h \in Goroutines : StackInv(h)' /\ OwnedBy(h)'
    BY <1>3, <1>4, <1>5, ReturnKeeps
  <1> QED BY <1>3, <1>6, Whole

LEMMA BuildKeeps ==
  ASSUME ContainerInv, NEW g \in Goroutines, Build(g)
  PROVE  ContainerInv'
  <1>1. stack[g] # <<>> /\ In(g, "create") /\ Holding(Top(g)) /\ UNCHANGED services
    BY DEF Build, In, Holding
  <1>2. PICK d : d = Top(g).desc
    OBVIOUS
  <1>3. d \in Ids /\ descs[d] \in Descriptor /\ descs[d].owner = g /\ Single(descs[d])
    BY <1>1, <1>2, TopFacts, TypeParts DEF ContainerInv, SingleInv, FrameOK, Holding
  <1>4. PICK n : n = descs[d].made + 1
    OBVIOUS
  <1>5. n \in Nat \ {0}
    BY <1>3, <1>4 DEF Descriptor
  <1>6. NoOne # g
    BY ContainerAssumption
  <1>7. PICK e : e = IF Recipe(g) \in Singletons
                     THEN [recipe |-> descs[d].recipe, owner |-> NoOne, made |-> n,
                           instance |-> n, given |-> descs[d].given \cup {n}]
                     ELSE [descs[d] EXCEPT !.owner = NoOne]
    OBVIOUS
  <1>8. CASE descs' = [descs EXCEPT ![d] = e] /\ Return(g, TRUE)
    <2>1. CASE Recipe(g) \in Singletons
      <3>1. /\ e \in Descriptor /\ e.recipe = descs[d].recipe /\ e.owner = NoOne /\ e.instance = n
            /\ e.given = descs[d].given \cup {n}
        BY <1>3, <1>5, <1>7, <2>1 DEF Descriptor
      <3>2. descs[d].given = {}
        BY <1>2, <1>3, <1>6, <2>1 DEF Single, Recipe
      <3>3. Single(e)
        BY <1>5, <3>1, <3>2 DEF Single
      <3> QED BY <1>1, <1>2, <1>8, <3>1, <3>3, ReleaseKeeps
    <2>2. CASE Recipe(g) \notin Singletons
      <3>1. e \in Descriptor /\ e.recipe = descs[d].recipe /\ e.owner = NoOne
        BY <1>3, <1>7, <2>2 DEF Descriptor
      <3>2. Single(e)
        BY <1>2, <2>2, <3>1 DEF Single, Recipe
      <3> QED BY <1>1, <1>2, <1>8, <3>1, <3>2, ReleaseKeeps
    <2> QED BY <2>1, <2>2
  <1>9. CASE UNCHANGED descs /\
             Retop(g, [name |-> Top(g).name, at |-> "fail", desc |-> d, arg |-> Top(g).arg])
    <2>1. PICK f : f = [name |-> Top(g).name, at |-> "fail", desc |-> Top(g).desc, arg |-> Top(g).arg]
      OBVIOUS
    <2> QED BY <1>1, <1>2, <1>9, <2>1, GiveUpKeeps
  <1> QED BY <1>2, <1>4, <1>7, <1>8, <1>9 DEF Build

LEMMA FailKeeps ==
  ASSUME ContainerInv, NEW g \in Goroutines, Fail(g)
  PROVE  ContainerInv'
  <1>1. stack[g] # <<>> /\ Holding(Top(g)) /\ UNCHANGED services /\ Return(g, FALSE)
    BY DEF Fail, In, Holding
  <1>2. PICK d : d = Top(g).desc
    OBVIOUS
  <1>3. d \in Ids /\ descs[d] \in Descriptor /\ descs[d].owner = g /\ Single(descs[d])
    BY <1>1, <1>2, TopFacts, TypeParts DEF ContainerInv, SingleInv, FrameOK, Holding
  <1>4. PICK e : e = [descs[d] EXCEPT !.owner = NoOne]
    OBVIOUS
  <1>5. /\ e \in Descriptor /\ e.recipe = descs[d].recipe /\ e.owner = NoOne
        /\ e.instance = descs[d].instance /\ e.given = descs[d].given
    BY <1>3, <1>4 DEF Descriptor
  <1>6. Single(e)
    BY <1>3, <1>5 DEF Single
  <1>7. descs' = [descs EXCEPT ![d] = e]
    BY <1>2, <1>4 DEF Fail
  <1> QED BY <1>1, <1>2, <1>5, <1>6, <1>7, ReleaseKeeps

\* Nothing is there, at the start and after a crash.
LEMMA FreshKeeps ==
  ASSUME services' = NoServices, descs' = <<>>, stack' = [h \in Goroutines |-> <<>>]
  PROVE  ContainerInv'
  <1>1. DescsOK' /\ Len(descs') = 0 /\ Ids' = {}
    BY EmptySeq DEF DescsOK, Ids
  <1>2. ServicesOK'
    BY DEF ServicesOK, NoServices
  <1>3. StackOK' /\ \A h \in Goroutines : stack'[h] = <<>>
    BY EmptySeq DEF StackOK
  <1>4. \A h \in Goroutines : Depth(h)' = {}
    BY <1>3 DEF Depth
  <1>5. \A h \in Goroutines : StackInv(h)' /\ OwnedBy(h)'
    BY <1>1, <1>4 DEF StackInv, OwnedBy
  <1> QED BY <1>1, <1>2, <1>3, <1>5, Whole

LEMMA InitInv == Init => ContainerInv
  <1> SUFFICES ASSUME Init PROVE ContainerInv
    OBVIOUS
  <1>1. descs \in Seq(Descriptor) /\ Len(descs) = 0 /\ Ids = {}
    BY EmptySeq DEF Init, Ids
  <1>2. \A h \in Goroutines : stack[h] = <<>> /\ Depth(h) = {}
    BY EmptySeq DEF Init, Depth
  <1>3. TypeOK
    BY <1>1, <1>2, EmptySeq DEF Init, TypeOK, NoServices, Depth
  <1>4. \A h \in Goroutines : StackInv(h) /\ OwnedBy(h)
    BY <1>1, <1>2 DEF StackInv, OwnedBy
  <1> QED BY <1>1, <1>3, <1>4 DEF ContainerInv

LEMMA RegisterKeeps ==
  ASSUME ContainerInv, NEW r \in Recipes, Register(r)
  PROVE  ContainerInv'
  <1> DEFINE e == New(r)
             L == Len(descs)
  <1>1. e \in Descriptor /\ e.recipe = r /\ e.owner = NoOne /\ Single(e)
    BY DEF New, Descriptor, Single
  <1>2. descs' = Append(descs, e) /\ UNCHANGED stack
        /\ services' = [n \in DOMAIN services \cup {NameOf[r]} |->
                          IF n = NameOf[r] THEN L + 1 ELSE services[n]]
    BY DEF Register
  <1>3. L \in Nat /\ descs \in Seq(Descriptor) /\ ServicesOK /\ StackOK
    BY TypeParts DEF DescsOK
  <1> HIDE DEF e
  <1>4. /\ descs' \in Seq(Descriptor) /\ Len(descs') = L + 1 /\ descs'[L + 1] = e
        /\ \A k \in 1..L : descs'[k] = descs[k]
    BY <1>1, <1>2, <1>3, AppendProperties
  <1> HIDE DEF L
  <1>5. Ids = 1..L /\ Ids' = 1..(L + 1) /\ L + 1 \in Ids' /\ \A k \in Ids' : k \in Ids \/ k = L + 1
    BY <1>3, <1>4 DEF Ids, L
  <1>6. Ids \subseteq Ids'
    BY <1>3, <1>5
  <1>7. ServicesOK'
    <2>1. NameOf[r] \in Names
      BY ContainerAssumption
    <2>2. \A n \in DOMAIN services' : services'[n] \in Ids' /\ NameOf[descs'[services'[n]].recipe] = n
      BY <1>1, <1>2, <1>3, <1>4, <1>5, <1>6 DEF ServicesOK
    <2>3. DOMAIN services' = DOMAIN services \cup {NameOf[r]}
      BY <1>2
    <2> QED BY <1>3, <2>1, <2>2, <2>3 DEF ServicesOK
  <1>8. Steady(NoOne)
    <2>1. L \in Nat /\ L + 1 \in Nat /\ L <= L + 1
      BY <1>3
    <2>2. \A d \in Ids' : d \notin Ids => d = L + 1
      BY <1>5
    <2>3. \A d \in Ids' : d \notin Ids => descs'[d] = e
      BY <1>4, <2>2
    <2>4. \A d \in Ids' : d \notin Ids => descs'[d].owner = NoOne
      BY <1>1, <2>3
    <2> QED BY <1>4, <1>5, <2>1, <2>4 DEF Steady, L
  <1>9. \A h \in Goroutines : h \in Goroutines \ {NoOne} /\ stack'[h] = stack[h]
    BY <1>2, ContainerAssumption
  <1>10. \A h \in Goroutines : StackInv(h)' /\ OwnedBy(h)'
    BY <1>8, <1>9, OthersKeep
  <1>11. \A k \in Ids' : SingleInv(k)'
    <2>1. \A k \in Ids : Single(descs[k])
      BY DEF ContainerInv, SingleInv
    <2>2. ASSUME NEW k \in Ids' PROVE SingleInv(k)'
      <3>1. CASE k \in Ids
        <4>1. descs'[k] = descs[k]
          BY <1>4, <1>5, <3>1
        <4> QED BY <4>1, <2>1, <3>1 DEF SingleInv, Single
      <3>2. CASE k = L + 1
        <4>1. descs'[k] = e
          BY <1>4, <3>2
        <4> QED BY <4>1, <1>1 DEF SingleInv, Single
      <3> QED BY <3>1, <3>2, <1>5
    <2> QED BY <2>2
  <1>12. DescsOK' /\ StackOK'
    BY <1>2, <1>3, <1>4 DEF DescsOK, StackOK
  <1> QED BY <1>7, <1>10, <1>11, <1>12, Whole

LEMMA ClearKeeps ==
  ASSUME ContainerInv, Clear
  PROVE  ContainerInv'
  <1>1. UNCHANGED <<descs, stack>> /\ services' = NoServices
    BY DEF Clear
  <1>2. DescsOK' /\ StackOK' /\ ServicesOK'
    BY <1>1, TypeParts DEF DescsOK, StackOK, ServicesOK, NoServices
  <1>3. \A h \in Goroutines : StackInv(h)' /\ OwnedBy(h)'
    <2>1. \A h \in Goroutines : StackInv(h) /\ OwnedBy(h)
      BY DEF ContainerInv
    <2> QED BY <1>1, <2>1 DEF StackInv, OwnedBy, FrameOK, Ids, Depth, Nth, Acyclic, Holding
  <1>4. \A k \in Ids' : SingleInv(k)'
    <2>1. \A k \in Ids : SingleInv(k)
      BY DEF ContainerInv
    <2> QED BY <1>1, <2>1 DEF SingleInv, Single, Ids
  <1> QED BY <1>2, <1>3, <1>4, Whole

LEMMA NextInv ==
  ASSUME ContainerInv, [Next]_vars
  PROVE  ContainerInv'
  <1>1. CASE UNCHANGED vars
    <2>1. UNCHANGED <<services, descs, stack>>
      BY <1>1 DEF vars
    <2>2. StackOK' /\ \A h \in Goroutines : StackInv(h)' /\ OwnedBy(h)'
      <3>1. StackOK /\ \A h \in Goroutines : StackInv(h) /\ OwnedBy(h)
        BY TypeParts DEF ContainerInv
      <3> QED BY <2>1, <3>1 DEF StackOK, StackInv, OwnedBy, FrameOK, Ids, Depth, Nth, Acyclic, Holding
    <2> QED BY <2>1, <2>2, SameDescs, Whole
  <1>2. CASE \E r \in Recipes : Register(r)
    BY <1>2, RegisterKeeps
  <1>3. CASE Clear
    BY <1>3, ClearKeeps
  <1>4. CASE \E g \in Goroutines, n \in Names : Get(g, n)
    BY <1>4, StartKeeps
  <1>5. ASSUME NEW g \in Goroutines, Step(g) PROVE ContainerInv'
    BY <1>5, LookupKeeps, LockKeeps, ResolveKeeps, BuildKeeps, FailKeeps DEF Step
  <1>6. ASSUME NEW g \in Goroutines, Fault(g) PROVE ContainerInv'
    BY <1>6, FreshKeeps DEF Fault
  <1> QED BY <1>1, <1>2, <1>3, <1>4, <1>5, <1>6 DEF Next

LEMMA Invariant == Spec => []ContainerInv
  <1>1. Init => ContainerInv
    BY InitInv
  <1>2. ContainerInv /\ [Next]_vars => ContainerInv'
    BY NextInv
  <1> QED BY <1>1, <1>2, PTL DEF Spec

-----------------------------------------------------------------------------
(* The theorems. *)

\* A Get holds a descriptor that exists and is of its name, and so does every
\* name in Container.services (container.go:86-96).
THEOREM TypeCorrect == Spec => []TypeOK
  <1>1. ContainerInv => TypeOK
    BY DEF ContainerInv
  <1> QED BY <1>1, Invariant, PTL

\* All the Gets of a singleton return one instance, however many goroutines
\* race for it, and whether its creation fails on the way (container.go:98-115).
THEOREM Unique == Spec => []OneInstance
  <1>1. ContainerInv => OneInstance
    <2> SUFFICES ASSUME ContainerInv, NEW d \in Ids, descs[d].recipe \in Singletons,
                        NEW i \in descs[d].given, NEW j \in descs[d].given
                 PROVE  i = j
      BY DEF OneInstance
    <2> QED BY DEF ContainerInv, SingleInv, Single
  <1> QED BY <1>1, Invariant, PTL

\* A nonempty set of ranks has a least one.
LEMMA LeastRank ==
  ASSUME NEW S \in SUBSET Nat, S # {}
  PROVE  \E m \in S : \A k \in S : m <= k
  <1>1. PICK m \in S : \A k \in S : ~ (<<k, m>> \in OpToRel(<, Nat))
    BY NatLessThanWellFounded, WFMin, Zenon
  <1>2. \A k \in S : ~ (k < m)
    BY <1>1 DEF OpToRel
  <1> QED BY <1>2

\* The Get whose service ranks least can go on, or waits for one that can.
LEMMA SomeGoesOn ==
  ASSUME ContainerInv, Acyclic, NEW w \in Goroutines, stack[w] # <<>>
  PROVE  \E g \in Goroutines : stack[g] # <<>> /\ ~ Blocked(g)
  <1> DEFINE Busy == {h \in Goroutines : stack[h] # <<>>}
             S == {RankOf[Top(h).name] : h \in Busy}
  <1>1. \A h \in Busy : Top(h) \in Frames /\ FrameOK(Top(h)) /\ RankOf[Top(h).name] \in Nat
    <2>1. \A h \in Busy : Top(h) \in Frames /\ FrameOK(Top(h))
      BY TopFacts
    <2> QED BY <2>1, ContainerAssumption DEF Frames
  <1>2. PICK g \in Busy : \A h \in Busy : RankOf[Top(g).name] <= RankOf[Top(h).name]
    <2>1. S \subseteq Nat /\ S # {}
      BY <1>1
    <2>2. PICK m \in S : \A k \in S : m <= k
      BY <2>1, LeastRank
    <2> QED BY <2>2
  <1>3. CASE ~ Blocked(g)
    BY <1>3
  <1>4. CASE Blocked(g)
    <2>1. Top(g).at = "lock" /\ Top(g).desc \in Ids /\ NameOf[descs[Top(g).desc].recipe] = Top(g).name
          /\ descs[Top(g).desc].owner # NoOne
      BY <1>1, <1>4 DEF Blocked, In, FrameOK
    <2>2. PICK o \in Goroutines : descs[Top(g).desc].owner = o
      BY <2>1, TypeParts DEF Descriptor
    <2>3. PICK i \in Depth(o) : Holding(Nth(o, i)) /\ Nth(o, i).desc = Top(g).desc
      BY <2>1, <2>2 DEF ContainerInv, OwnedBy
    <2>4. stack[o] \in Seq(Frames) /\ StackInv(o)
      BY TypeParts DEF ContainerInv
    <2>5. stack[o] # <<>>
      <3>1. i \in 1..Len(stack[o])
        BY <2>3 DEF Depth
      <3>2. stack[o] = <<>> => Len(stack[o]) = 0
        BY EmptySeq
      <3> QED BY <3>1, <3>2
    <2>6. Top(o) = stack[o][1] /\ Len(stack[o]) \in Nat \ {0} /\ o \in Busy
      BY <2>4, <2>5, Popped DEF Top
    <2>7. FrameOK(Nth(o, i)) /\ Nth(o, i).name = Top(g).name
      BY <2>1, <2>3, <2>4 DEF StackInv, FrameOK, Holding
    <2>8. i = 1
      <3> SUFFICES ASSUME i # 1 PROVE FALSE
        OBVIOUS
      <3>1. 1 \in Depth(o) /\ 1 < i
        BY <2>3, <2>6 DEF Depth
      <3>2. RankOf[Nth(o, 1).name] < RankOf[Nth(o, i).name]
        BY <2>3, <2>4, <3>1 DEF StackInv
      <3>3. RankOf[Top(o).name] < RankOf[Top(g).name]
        BY <2>6, <2>7, <3>2 DEF Nth
      <3>4. RankOf[Top(g).name] <= RankOf[Top(o).name]
        BY <1>2, <2>6
      <3>5. RankOf[Top(o).name] \in Nat /\ RankOf[Top(g).name] \in Nat
        BY <1>1, <2>6
      <3> QED BY <3>3, <3>4, <3>5
    <2>9. Top(o).at # "lock"
      BY <2>3, <2>6, <2>8 DEF Nth, Holding
    <2> QED BY <2>5, <2>9 DEF Blocked, In
  <1> QED BY <1>3, <1>4

\* Goroutines that create services for one another never all wait: where no
\* service depends on itself, some Get can always go on (container.go:98-99,
\* 158-166, 219-228).
THEOREM DeadlockFree == Spec => []NoDeadlock
  <1>1. ContainerInv => NoDeadlock
    BY SomeGoesOn DEF NoDeadlock
  <1> QED BY <1>1, Invariant, PTL
=============================================================================
